---------------------------- MODULE CameraProofs ----------------------------
(***************************************************************************)
(* What holds of the parts between one camera and the rest of the system,  *)
(* for every value of their constants: the task that keeps the camera's    *)
(* session (CameraSupervisor), the NAL units its packets carry (H264,      *)
(* H264Ref), the recorder that makes clips of them (ClipRecorder) and what *)
(* is read and set on the camera over ONVIF (OnvifSettings).               *)
(*                                                                         *)
(* The parts share no state here and have names of their own, so that they *)
(* can be extended together; each theorem is about one of them.            *)
(***************************************************************************)
EXTENDS CameraSupervisor, H264Ref, ClipRecorder, OnvifSettings, FiniteSetTheorems,
        SequenceTheorems, WellFoundedInduction, TLAPS

-----------------------------------------------------------------------------
(***************************************************************************)
(* Natural numbers.                                                        *)
(***************************************************************************)

\* A set of natural numbers has a least one.
LEMMA LeastNatural ==
    ASSUME NEW T, T \subseteq Nat, T # {}
    PROVE  \E x \in T : \A y \in T : x <= y
  <1> DEFINE R == {p \in Nat \X Nat : p[1] < p[2]}
  <1>1. OpToRel(<, Nat) = R
    BY DEF OpToRel
  <1>2. IsWellFoundedOn(R, Nat)
    BY <1>1, NatLessThanWellFounded
  <1> HIDE DEF R
  <1>3. PICK x \in T : \A y \in T : ~(<<y, x>> \in R)
    BY <1>2, WFMin, Zenon
  <1>4. ASSUME NEW y \in T
        PROVE  x <= y
    <2>1. x \in Nat /\ y \in Nat /\ <<y, x>> \in Nat \X Nat
      OBVIOUS
    <2>2. ~(y < x)
      BY <1>3, <2>1 DEF R
    <2> QED BY <2>1, <2>2
  <1> QED BY <1>4

\* Induction up to n: what holds of 0 and goes over from each number to the next
\* holds of all; S is the set of those it holds of.
LEMMA UpTo ==
    ASSUME NEW S, NEW n \in Nat, 0 \in S, \A i \in 0 .. n - 1 : i \in S => i + 1 \in S
    PROVE  0 .. n \subseteq S
  <1> SUFFICES ASSUME ~(0 .. n \subseteq S)
               PROVE  FALSE
    OBVIOUS
  <1> DEFINE T == (0 .. n) \ S
  <1>1. T \subseteq Nat /\ T # {}
    OBVIOUS
  <1>2. PICK x \in T : \A y \in T : x <= y
    BY <1>1, LeastNatural
  <1>3. x \in 1 .. n /\ x - 1 \in 0 .. n /\ x - 1 \notin T
    BY <1>2
  <1> QED BY <1>3

-----------------------------------------------------------------------------
(***************************************************************************)
(* The task of the camera.                                                 *)
(***************************************************************************)

\* What the tracker knows against what happened.  Until the first recovery the
\* two agree, and the report follows the tracker's mark.
TrackerInv ==
    /\ ~recovered => outageAge = outage
    /\ outage # Never => silent >= outage
    /\ ~recovered /\ offline => outage = OfflineTimeout
    /\ ~recovered /\ marked => offline

\* The inductive invariant of the camera task.
CameraInv == TaskTypeOK /\ StreamingIsOnline /\ TrackerInv

\* The inductive invariant says what OfflineJustified does.
LEMMA Justified == CameraInv => OfflineJustified
  BY TimesAssumption
  DEF TimesAssumption, CameraInv, TaskTypeOK, TrackerInv, OfflineJustified, Ages, Never

\* Growing older, an age stays an age and keeps its order with another one.
LEMMA OlderFacts ==
    ASSUME NEW a \in Ages \cup {Never}
    PROVE  /\ Aged(a) \in Ages \cup {Never}
           /\ a \in Ages => Aged(a) \in Ages
           /\ a = OfflineTimeout => Aged(a) = OfflineTimeout
           /\ Aged(a) = Never <=> a = Never
           /\ \A b \in Ages : b >= a => Aged(b) >= Aged(a)
  BY TimesAssumption DEF TimesAssumption, Aged, Least, Ages, Never

\* A failed session preserves the invariant.
LEMMA FailKeeps == ASSUME CameraInv, Fail PROVE CameraInv'
  <1> USE TimesAssumption DEF TimesAssumption, CameraInv, TaskTypeOK
  <1>1. TaskTypeOK'
    <2>1. outageAge' \in Ages /\ outage' \in Ages \cup {Never}
      BY DEF Fail, OnOutageStarted, Ages, Never
    <2>2. timer' \in Timers
      BY DEF Fail, Timers
    <2>3. marked' \in BOOLEAN /\ offline' \in BOOLEAN
      BY DEF Fail
    <2> QED BY <2>1, <2>2, <2>3 DEF Fail
  <1>2. StreamingIsOnline'
    BY DEF Fail, StreamingIsOnline
  <1>3. TrackerInv'
    <2>1. outage' # Never => silent' >= outage'
      BY DEF Fail, TrackerInv, Ages, Never
    <2>2. ~recovered' => outageAge' = outage'
      BY DEF Fail, OnOutageStarted, TrackerInv
    <2>3. ASSUME ~recovered' PROVE (offline' => outage' = OfflineTimeout) /\ (marked' => offline')
      <3>1. ~recovered /\ outageAge' = outage'
        BY <2>2, <2>3 DEF Fail
      <3>2. CASE offline
        <4>1. outage = OfflineTimeout
          BY <3>1, <3>2 DEF TrackerInv
        <4>2. outage' = OfflineTimeout
          BY <4>1 DEF Fail, Never
        <4> QED BY <3>2, <4>2 DEF Fail
      <3>3. CASE ~offline
        <4>1. ~marked
          BY <3>1, <3>3 DEF TrackerInv
        <4>2. /\ marked' <=> Continuous(outageAge')
              /\ offline' <=> Continuous(outageAge')
          BY <3>3, <4>1 DEF Fail
        <4>3. Continuous(outageAge') => outageAge' = OfflineTimeout
          BY <1>1 DEF Continuous, Ages, Never
        <4> QED BY <3>1, <4>2, <4>3
      <3> QED BY <3>2, <3>3
    <2> QED BY <2>1, <2>2, <2>3 DEF TrackerInv
  <1> QED BY <1>1, <1>2, <1>3

\* Every step preserves the invariant.
LEMMA CameraStep == CameraInv /\ [TaskNext]_taskVars => CameraInv'
  <1> SUFFICES ASSUME CameraInv, [TaskNext]_taskVars PROVE CameraInv'
    OBVIOUS
  <1> USE TimesAssumption DEF TimesAssumption, CameraInv
  <1>1. CASE Tick
    <2>1. TaskTypeOK'
      <3>1. /\ outageAge' \in Ages \cup {Never} /\ outage' \in Ages \cup {Never}
            /\ silent' \in Ages
        BY <1>1, OlderFacts DEF Tick, TaskTypeOK
      <3>2. timer' \in Timers
        BY <1>1 DEF Tick, TaskTypeOK, Timers
      <3> QED BY <1>1, <3>1, <3>2 DEF Tick, TaskTypeOK
    <2>2. StreamingIsOnline'
      BY <1>1 DEF Tick, StreamingIsOnline
    <2>3. /\ outage' # Never => silent' >= outage'
          /\ ~recovered' => outageAge' = outage'
          /\ outage = OfflineTimeout => outage' = OfflineTimeout
      BY <1>1, OlderFacts DEF Tick, TaskTypeOK, TrackerInv
    <2>4. TrackerInv'
      BY <1>1, <2>3 DEF Tick, TrackerInv
    <2> QED BY <2>1, <2>2, <2>4
  <1>2. ASSUME NEW b \in BOOLEAN, Plug(b) PROVE CameraInv'
    BY <1>2 DEF Plug, TaskTypeOK, StreamingIsOnline, TrackerInv, tracker, truth
  <1>3. CASE Wake
    <2>1. backoff' \in 1 .. BackoffMax
      BY <1>3 DEF Wake, Least, TaskTypeOK
    <2> QED
      BY <1>3, <2>1 DEF Wake, TaskTypeOK, StreamingIsOnline, TrackerInv,
             tracker, truth
  <1>4. CASE Stop \/ HandshakeHangs
    BY <1>4 DEF Stop, HandshakeHangs, TaskTypeOK, StreamingIsOnline, TrackerInv,
           tracker, truth
  <1>5. CASE Play
    <2>1. timer' \in Timers
      BY <1>5 DEF Play, Timers
    <2> QED
      BY <1>5, <2>1 DEF Play, TaskTypeOK, StreamingIsOnline, TrackerInv,
             tracker, truth
  <1>6. CASE HandshakeFails \/ ReadFails \/ ReadTimesOut
    BY <1>6, FailKeeps DEF HandshakeFails, ReadFails, ReadTimesOut
  <1>7. CASE Rtp
    <2>1. timer' \in Timers /\ silent' \in Ages
      BY <1>7 DEF Rtp, Timers, Ages
    <2>2. offline' \in BOOLEAN /\ recovered' \in BOOLEAN
      BY <1>7 DEF Rtp, TaskTypeOK
    <2>3. TaskTypeOK'
      BY <1>7, <2>1, <2>2 DEF Rtp, TaskTypeOK, tracker
    <2>4. StreamingIsOnline'
      BY <1>7 DEF Rtp, Reading, StreamingIsOnline
    <2>5. TrackerInv'
      <3>1. outage' = Never
        BY <1>7 DEF Rtp
      <3>2. ASSUME ~recovered'
            PROVE  ~recovered /\ outageAge' = Never /\ ~offline' /\ ~marked'
        <4>1. ~recovered /\ outage = Never
          BY <1>7, <3>2 DEF Rtp
        <4>2. outageAge = Never /\ ~offline /\ ~marked
          BY <4>1 DEF TrackerInv, Never
        <4> QED BY <1>7, <4>1, <4>2 DEF Rtp, tracker
      <3> QED BY <3>1, <3>2 DEF TrackerInv
    <2> QED BY <2>3, <2>4, <2>5
  <1>8. CASE OtherFrame
    <2>1. timer' \in Timers
      BY <1>8 DEF OtherFrame, Timers
    <2> QED
      BY <1>8, <2>1 DEF OtherFrame, TaskTypeOK, StreamingIsOnline, TrackerInv,
             tracker, truth
  <1>9. CASE UNCHANGED taskVars
    BY <1>9 DEF taskVars, TaskTypeOK, StreamingIsOnline, TrackerInv, tracker, truth
  <1> QED BY <1>1, <1>2, <1>3, <1>4, <1>5, <1>6, <1>7, <1>8, <1>9 DEF TaskNext

\* The invariant holds at first.
LEMMA CameraInit == TaskInit => CameraInv
  <1> SUFFICES ASSUME TaskInit PROVE CameraInv
    OBVIOUS
  <1>1. /\ timer \in Timers /\ backoff \in 1 .. BackoffMax
        /\ outageAge \in Ages \cup {Never} /\ outage \in Ages \cup {Never}
        /\ silent \in Ages
    BY TimesAssumption DEF TimesAssumption, TaskInit, Ages, Timers, Never
  <1>2. TaskTypeOK
    BY <1>1 DEF TaskInit, TaskTypeOK
  <1> QED BY <1>2 DEF TaskInit, CameraInv, StreamingIsOnline, TrackerInv

\* The task stays well typed and never forwards packets of a camera that is
\* reported offline; until the first recovery a report is justified.
THEOREM CameraInvariance ==
    TaskSpec => [](TaskTypeOK /\ StreamingIsOnline /\ OfflineJustified)
  <1>1. CameraInv => TaskTypeOK /\ StreamingIsOnline /\ OfflineJustified
    BY Justified DEF CameraInv
  <1>2. TaskInit => CameraInv
    BY CameraInit
  <1>3. CameraInv /\ [TaskNext]_taskVars => CameraInv'
    BY CameraStep
  <1> QED BY <1>1, <1>2, <1>3, PTL DEF TaskSpec

\* Where a step can make a session fail, the first outage is reported.
LEMMA ReportStep ==
    CameraInv /\ [TaskNext]_taskVars =>
        [pc' = "sleep" /\ pc # "sleep" /\ ~recovered /\ outage = OfflineTimeout
            => offline']_taskVars
  <1> SUFFICES ASSUME CameraInv, TaskNext, pc' = "sleep", pc # "sleep",
                      ~recovered, outage = OfflineTimeout
               PROVE  offline'
    OBVIOUS
  <1>1. Fail
    BY DEF TaskNext, Tick, Plug, Wake, Stop, Play,
           HandshakeFails, HandshakeHangs, Rtp, OtherFrame,
           ReadFails, ReadTimesOut
  <1>2. outageAge = OfflineTimeout /\ (marked => offline)
    BY DEF CameraInv, TrackerInv
  <1>3. Continuous(outageAge')
    BY <1>1, <1>2, TimesAssumption DEF TimesAssumption, Fail, OnOutageStarted, Continuous, Never
  <1> QED BY <1>1, <1>2, <1>3 DEF Fail

\* A first outage of OfflineTimeout is reported at the next failed attempt.
THEOREM FirstOutageAlwaysReported ==
    TaskSpec => FirstOutageReported
  <1>1. TaskInit => CameraInv
    BY CameraInit
  <1>2. CameraInv /\ [TaskNext]_taskVars => CameraInv'
    BY CameraStep
  <1>3. CameraInv /\ [TaskNext]_taskVars =>
            [pc' = "sleep" /\ pc # "sleep" /\ ~recovered /\ outage = OfflineTimeout
                => offline']_taskVars
    BY ReportStep
  <1> QED BY <1>1, <1>2, <1>3, PTL DEF TaskSpec, FirstOutageReported

-----------------------------------------------------------------------------
(***************************************************************************)
(* The depacketizer and the sync gate.                                     *)
(***************************************************************************)

\* The recursive definition of Pushed has a solution, and Pushed is one.
LEMMA PushedDef ==
    ASSUME NEW g, NEW nals \in Seq(NalClass)
    PROVE  Pushed(g, nals) =
               [i \in 0 .. Len(nals) |->
                   IF i = 0
                   THEN [gate |-> g, out |-> <<>>]
                   ELSE LET r == PushNal(Pushed(g, nals)[i - 1].gate, nals[i])
                        IN  [gate |-> r.gate, out |-> Pushed(g, nals)[i - 1].out \o r.out]]
  <1> DEFINE Fresh == [gate |-> g, out |-> <<>>]
             Round(a, i) == LET r == PushNal(a.gate, nals[i])
                           IN  [gate |-> r.gate, out |-> a.out \o r.out]
             Is(f, n) == f = [i \in 0 .. n |-> IF i = 0 THEN Fresh ELSE Round(f[i - 1], i)]
             S == {n \in 0 .. Len(nals) : \E f : Is(f, n)}
  <1>0. Len(nals) \in Nat
    BY LenProperties
  <1>a. Pushed(g, nals) = CHOOSE f : Is(f, Len(nals))
    BY DEF Pushed
  <1>b. Is(Pushed(g, nals), Len(nals)) =>
            Pushed(g, nals) =
               [i \in 0 .. Len(nals) |->
                   IF i = 0
                   THEN [gate |-> g, out |-> <<>>]
                   ELSE LET r == PushNal(Pushed(g, nals)[i - 1].gate, nals[i])
                        IN  [gate |-> r.gate, out |-> Pushed(g, nals)[i - 1].out \o r.out]]
    OBVIOUS
  <1> HIDE DEF Fresh, Round
  <1>1. 0 \in S
    <2> DEFINE f == [i \in 0 .. 0 |-> Fresh]
    <2>1. Is(f, 0)
      OBVIOUS
    <2>2. \E h : Is(h, 0)
      BY <2>1
    <2> QED BY <1>0, <2>2
  <1>2. ASSUME NEW n \in 0 .. Len(nals) - 1, n \in S
        PROVE  n + 1 \in S
    <2>1. PICK f : Is(f, n)
      BY <1>2
    <2> DEFINE h == [i \in 0 .. n + 1 |-> IF i <= n THEN f[i] ELSE Round(f[n], n + 1)]
    <2>2. ASSUME NEW i \in 0 .. n + 1
          PROVE  h[i] = IF i = 0 THEN Fresh ELSE Round(h[i - 1], i)
      <3>1. CASE i = 0
        BY <1>0, <2>1, <3>1
      <3>2. CASE i \in 1 .. n
        <4>1. h[i] = f[i] /\ h[i - 1] = f[i - 1] /\ i \in 0 .. n /\ i # 0
          BY <1>0, <3>2
        <4>2. f[i] = Round(f[i - 1], i)
          BY <2>1, <4>1
        <4> QED BY <4>1, <4>2
      <3>3. CASE i = n + 1
        <4>1. h[i] = Round(f[n], n + 1) /\ h[i - 1] = f[n] /\ i # 0
          BY <1>0, <3>3
        <4> QED BY <3>3, <4>1
      <3> QED BY <1>0, <3>1, <3>2, <3>3
    <2>3. Is(h, n + 1)
      BY <2>2
    <2>4. \E k : Is(k, n + 1)
      BY <2>3
    <2> QED BY <1>0, <2>4
  <1>3. Len(nals) \in S
    <2> HIDE DEF S
    <2>1. 0 .. Len(nals) \subseteq S
      BY <1>0, <1>1, <1>2, UpTo
    <2> QED BY <1>0, <2>1
  <1>4. \E f : Is(f, Len(nals))
    BY <1>3
  <1>5. Is(Pushed(g, nals), Len(nals))
    <2> HIDE DEF Is
    <2> QED BY <1>4, <1>a
  <1> QED BY <1>b, <1>5

\* Two gates that agree on everything are the same.
LEMMA SameGate ==
    ASSUME NEW g \in Gate, NEW h \in Gate,
           g.synced <=> h.synced, g.sps <=> h.sps, g.pps <=> h.pps
    PROVE  g = h
  <1>1. g.synced = h.synced /\ g.sps = h.sps /\ g.pps = h.pps
    BY Zenon DEF Gate
  <1> QED BY <1>1 DEF Gate

\* What push_nal returns, with the NAL units it emits as a set.
Elements(s) == {s[i] : i \in DOMAIN s}

\* push_nal caches a parameter set, opens the gate at an IDR slice that finds both,
\* and emits what an open gate lets through.
LEMMA PushNalFacts ==
    ASSUME NEW g \in Gate, NEW nal \in NalClass
    PROVE  LET r == PushNal(g, nal)
               opens == nal = "idr" /\ g.sps /\ g.pps
           IN  /\ r.gate \in Gate
               /\ r.gate.synced <=> g.synced \/ opens
               /\ r.gate.sps <=> g.sps \/ nal = "sps"
               /\ r.gate.pps <=> g.pps \/ nal = "pps"
               /\ r.out \in Seq(NalClass)
               /\ opens => Elements(r.out) = {"sps", "pps", nal}
               /\ ~opens /\ g.synced /\ nal \notin {"sps", "pps"} => Elements(r.out) = {nal}
               /\ ~opens /\ ~(g.synced /\ nal \notin {"sps", "pps"}) => Elements(r.out) = {}
  <1> DEFINE r == PushNal(g, nal)
  <1>0. <<>> \in Seq(NalClass) /\ Elements(<<>>) = {}
    BY DEF Elements
  <1>1. ASSUME NEW set \in {"sps", "pps"}, nal = set
        PROVE  /\ r.gate \in Gate /\ r.out = <<>>
               /\ r.gate.synced = g.synced
               /\ r.gate.sps <=> g.sps \/ nal = "sps"
               /\ r.gate.pps <=> g.pps \/ nal = "pps"
    <2>1. r = [gate |-> [g EXCEPT ![nal] = TRUE], out |-> <<>>]
      BY <1>1 DEF PushNal, ParamSets
    <2>2. r.gate = [g EXCEPT ![nal] = TRUE] /\ r.out = <<>>
      BY <2>1
    <2> HIDE DEF r
    <2>3. CASE set = "sps"
      <3>1. r.gate \in Gate /\ r.gate.synced = g.synced /\ r.gate.sps = TRUE /\ r.gate.pps = g.pps
        BY <1>1, <2>2, <2>3 DEF Gate
      <3> QED BY <1>1, <2>2, <2>3, <3>1, Zenon
    <2>4. CASE set = "pps"
      <3>1. r.gate \in Gate /\ r.gate.synced = g.synced /\ r.gate.pps = TRUE /\ r.gate.sps = g.sps
        BY <1>1, <2>2, <2>4 DEF Gate
      <3> QED BY <1>1, <2>2, <2>4, <3>1, Zenon
    <2> QED BY <2>3, <2>4
  <1>2. CASE nal = "idr" /\ g.sps /\ g.pps
    <2>1. r = [gate |-> [g EXCEPT !.synced = TRUE], out |-> <<"sps", "pps", nal>>]
      BY <1>2 DEF PushNal, ParamSets
    <2>2. Elements(<<"sps", "pps", nal>>) = {"sps", "pps", nal}
      BY DEF Elements
    <2>3. <<"sps", "pps", nal>> \in Seq(NalClass)
      BY <1>2 DEF NalClass
    <2>4. r.gate = [g EXCEPT !.synced = TRUE] /\ r.out = <<"sps", "pps", nal>>
      BY <2>1
    <2> HIDE DEF r
    <2>5. r.gate \in Gate /\ r.gate.synced = TRUE /\ r.gate.sps = g.sps /\ r.gate.pps = g.pps
      BY <2>4 DEF Gate
    <2> QED BY <1>2, <2>2, <2>3, <2>4, <2>5 DEF r
  <1>3. CASE nal \notin {"sps", "pps"} /\ ~(nal = "idr" /\ g.sps /\ g.pps)
    <2>1. r.gate = g /\ r.out = (IF g.synced THEN <<nal>> ELSE <<>>)
      BY <1>3 DEF PushNal, ParamSets
    <2>2. Elements(<<nal>>) = {nal} /\ <<nal>> \in Seq(NalClass)
      BY DEF Elements
    <2> HIDE DEF r
    <2> QED BY <1>0, <1>3, <2>1, <2>2 DEF r
  <1>4. CASE nal \in {"sps", "pps"}
    <2>1. /\ r.gate \in Gate /\ r.out = <<>>
          /\ r.gate.synced = g.synced
          /\ r.gate.sps <=> g.sps \/ nal = "sps"
          /\ r.gate.pps <=> g.pps \/ nal = "pps"
      BY <1>1, <1>4
    <2> HIDE DEF r
    <2> QED BY <1>0, <1>4, <2>1 DEF r
  <1> QED BY <1>2, <1>3, <1>4

\* After the first i rounds the gate has seen the first i NAL units, and what has
\* come out are those of them that Emitted names, with the parameter sets if one
\* of them was prefixed.
AnyPrefixed(g, nals, i) == \E k \in 1 .. i : Prefixed(g, nals, k)

Holds(nals, i, nal) == \E k \in 1 .. i : nals[k] = nal

OutBy(g, nals, i) ==
    {nals[k] : k \in Emitted(g, nals) \cap 1 .. i}
        \cup (IF AnyPrefixed(g, nals, i) THEN {"sps", "pps"} ELSE {})

AfterRounds(g, nals, i) ==
    LET a == Pushed(g, nals)[i]
    IN  /\ a.gate \in Gate
        /\ a.gate.synced <=> g.synced \/ AnyPrefixed(g, nals, i)
        /\ a.gate.sps <=> g.sps \/ Holds(nals, i, "sps")
        /\ a.gate.pps <=> g.pps \/ Holds(nals, i, "pps")
        /\ a.out \in Seq(NalClass)
        /\ Elements(a.out) = OutBy(g, nals, i)

\* The elements of two sequences put together are those of both.
LEMMA ElementsOfBoth ==
    ASSUME NEW T, NEW a \in Seq(T), NEW b \in Seq(T)
    PROVE  a \o b \in Seq(T) /\ Elements(a \o b) = Elements(a) \cup Elements(b)
  <1> DEFINE c == a \o b
  <1>1. /\ c \in Seq(T) /\ Len(c) = Len(a) + Len(b)
        /\ \A i \in 1 .. Len(a) : c[i] = a[i]
        /\ \A i \in 1 .. Len(b) : c[Len(a) + i] = b[i]
    BY ConcatProperties
  <1>2. /\ Len(a) \in Nat /\ Len(b) \in Nat /\ DOMAIN a = 1 .. Len(a) /\ DOMAIN b = 1 .. Len(b)
        /\ DOMAIN c = 1 .. Len(c)
    BY <1>1, LenProperties
  <1> HIDE DEF c
  <1>3. ASSUME NEW x \in Elements(c)
        PROVE  x \in Elements(a) \cup Elements(b)
    <2>1. PICK i \in 1 .. Len(c) : x = c[i]
      BY <1>2 DEF Elements
    <2>2. CASE i \in 1 .. Len(a)
      BY <1>1, <1>2, <2>1, <2>2 DEF Elements
    <2>3. CASE i \notin 1 .. Len(a)
      <3>1. i - Len(a) \in 1 .. Len(b) /\ Len(a) + (i - Len(a)) = i
        BY <1>1, <1>2, <2>3
      <3> QED BY <1>1, <1>2, <2>1, <3>1 DEF Elements
    <2> QED BY <2>2, <2>3
  <1>4. Elements(a) \subseteq Elements(c)
    <2>1. \A i \in 1 .. Len(a) : i \in 1 .. Len(c)
      BY <1>1, <1>2
    <2> QED BY <1>1, <1>2, <2>1 DEF Elements
  <1>5. Elements(b) \subseteq Elements(c)
    <2>1. \A i \in 1 .. Len(b) : Len(a) + i \in 1 .. Len(c)
      BY <1>1, <1>2
    <2> QED BY <1>1, <1>2, <2>1 DEF Elements
  <1> QED BY <1>1, <1>3, <1>4, <1>5 DEF c

\* Round by round, by induction over the NAL units of the packet.
LEMMA RoundsAgree ==
    ASSUME NEW g \in Gate, NEW nals \in Seq(NalClass)
    PROVE  \A i \in 0 .. Len(nals) : AfterRounds(g, nals, i)
  <1> DEFINE n == Len(nals)
             P == Pushed(g, nals)
             S == {i \in 0 .. n : AfterRounds(g, nals, i)}
  <1>0. n \in Nat /\ DOMAIN nals = 1 .. n /\ \A k \in 1 .. n : nals[k] \in NalClass
    BY LenProperties, ElementOfSeq
  <1>1. /\ P[0].gate = g /\ P[0].out = <<>>
        /\ \A i \in 0 .. n - 1 :
              /\ P[i + 1].gate = PushNal(P[i].gate, nals[i + 1]).gate
              /\ P[i + 1].out = P[i].out \o PushNal(P[i].gate, nals[i + 1]).out
    <2> DEFINE Fresh == [gate |-> g, out |-> <<>>]
               Round(a, i) == [gate |-> PushNal(a.gate, nals[i]).gate,
                              out |-> a.out \o PushNal(a.gate, nals[i]).out]
    <2>1. P = [i \in 0 .. n |-> IF i = 0 THEN Fresh ELSE Round(P[i - 1], i)]
      BY PushedDef
    <2> HIDE DEF P, Fresh, Round, n
    <2>2. \A j \in 0 .. n : P[j] = IF j = 0 THEN Fresh ELSE Round(P[j - 1], j)
      BY <2>1, Zenon
    <2>3. P[0] = Fresh
      BY <1>0, <2>2
    <2>4. ASSUME NEW j \in 0 .. n, j # 0
          PROVE  P[j] = Round(P[j - 1], j)
      BY <2>2, <2>4, Zenon
    <2>5. ASSUME NEW i \in 0 .. n - 1
          PROVE  /\ P[i + 1].gate = PushNal(P[i].gate, nals[i + 1]).gate
                 /\ P[i + 1].out = P[i].out \o PushNal(P[i].gate, nals[i + 1]).out
      <3>1. i + 1 \in 0 .. n /\ i + 1 # 0 /\ i + 1 - 1 = i
        BY <1>0
      <3>2. P[i + 1] = Round(P[i], i + 1)
        BY <2>4, <3>1
      <3> DEFINE r == PushNal(P[i].gate, nals[i + 1])
                 both == P[i].out \o r.out
      <3>3. P[i + 1] = [gate |-> r.gate, out |-> both]
        BY <3>2, Zenon DEF Round
      <3> HIDE DEF r, both
      <3>4. P[i + 1].gate = r.gate /\ P[i + 1].out = both
        BY <3>3
      <3> QED BY <3>4 DEF r, both
    <2>6. P[0].gate = g /\ P[0].out = <<>>
      BY <2>3 DEF Fresh
    <2> QED BY <2>5, <2>6
  <1> HIDE DEF n, P
  <1>2. 0 \in S
    <2>1. ~AnyPrefixed(g, nals, 0) /\ ~Holds(nals, 0, "sps") /\ ~Holds(nals, 0, "pps")
      BY DEF AnyPrefixed, Holds
    <2>2. OutBy(g, nals, 0) = {} /\ Elements(<<>>) = {} /\ <<>> \in Seq(NalClass)
      BY <2>1 DEF OutBy, Elements
    <2>3. AfterRounds(g, nals, 0)
      BY <1>1, <2>1, <2>2 DEF AfterRounds, P
    <2> QED BY <1>0, <2>3
  <1>3. ASSUME NEW i \in 0 .. n - 1, i \in S
        PROVE  i + 1 \in S
    <2> DEFINE h == P[i].gate
               nal == nals[i + 1]
               r == PushNal(h, nal)
               opens == nal = "idr" /\ h.sps /\ h.pps
    <2>0. /\ i + 1 \in 0 .. n /\ i + 1 \in 1 .. n /\ 1 .. i + 1 = (1 .. i) \cup {i + 1}
          /\ i + 1 - 1 = i
      BY <1>0
    <2>1. /\ h \in Gate
          /\ h.synced <=> g.synced \/ AnyPrefixed(g, nals, i)
          /\ h.sps <=> g.sps \/ Holds(nals, i, "sps")
          /\ h.pps <=> g.pps \/ Holds(nals, i, "pps")
          /\ P[i].out \in Seq(NalClass)
          /\ Elements(P[i].out) = OutBy(g, nals, i)
      BY <1>3 DEF AfterRounds, P
    <2>2. nal \in NalClass
      BY <1>0, <2>0
    <2> HIDE DEF h, nal
    <2>3. Prefixed(g, nals, i + 1) <=> opens
      BY <2>0, <2>1 DEF Prefixed, Holds, nal
    <2>4. AnyPrefixed(g, nals, i + 1) <=> AnyPrefixed(g, nals, i) \/ opens
      BY <2>0, <2>3 DEF AnyPrefixed
    <2>5. /\ Holds(nals, i + 1, "sps") <=> Holds(nals, i, "sps") \/ nal = "sps"
          /\ Holds(nals, i + 1, "pps") <=> Holds(nals, i, "pps") \/ nal = "pps"
      BY <2>0 DEF Holds, nal
    <2>6. (i + 1) \in Emitted(g, nals) <=>
              nal \notin {"sps", "pps"} /\ (g.synced \/ AnyPrefixed(g, nals, i + 1))
      BY <1>0, <2>0 DEF Emitted, ParamSets, AnyPrefixed, nal
    <2>7. /\ r.gate \in Gate
          /\ r.gate.synced <=> h.synced \/ opens
          /\ r.gate.sps <=> h.sps \/ nal = "sps"
          /\ r.gate.pps <=> h.pps \/ nal = "pps"
          /\ r.out \in Seq(NalClass)
          /\ opens => Elements(r.out) = {"sps", "pps", nal}
          /\ ~opens /\ h.synced /\ nal \notin {"sps", "pps"} => Elements(r.out) = {nal}
          /\ ~opens /\ ~(h.synced /\ nal \notin {"sps", "pps"}) => Elements(r.out) = {}
      BY <2>1, <2>2, PushNalFacts
    <2>8. P[i + 1].gate = r.gate /\ P[i + 1].out = P[i].out \o r.out
      BY <1>1 DEF h, nal
    <2>9. opens => nal = "idr"
      OBVIOUS
    <2> HIDE DEF r, opens
    <2>10. /\ P[i].out \o r.out \in Seq(NalClass)
           /\ Elements(P[i].out \o r.out) = Elements(P[i].out) \cup Elements(r.out)
      BY <2>1, <2>7, ElementsOfBoth
    <2>11. OutBy(g, nals, i + 1) = OutBy(g, nals, i) \cup Elements(r.out)
      <3> DEFINE E(j) == {nals[k] : k \in Emitted(g, nals) \cap 1 .. j}
      <3>1. E(i + 1) = E(i) \cup (IF (i + 1) \in Emitted(g, nals) THEN {nal} ELSE {})
        BY <2>0 DEF nal
      <3>2. OutBy(g, nals, i + 1) = E(i + 1) \cup (IF AnyPrefixed(g, nals, i + 1) THEN {"sps", "pps"} ELSE {})
        BY DEF OutBy
      <3>3. OutBy(g, nals, i) = E(i) \cup (IF AnyPrefixed(g, nals, i) THEN {"sps", "pps"} ELSE {})
        BY DEF OutBy
      <3> HIDE DEF E
      <3>4. CASE opens
        <4>1. /\ AnyPrefixed(g, nals, i + 1) /\ (i + 1) \in Emitted(g, nals)
              /\ Elements(r.out) = {"sps", "pps", nal}
          BY <2>4, <2>6, <2>7, <2>9, <3>4
        <4> QED BY <3>1, <3>2, <3>3, <4>1
      <3>5. CASE ~opens
        <4>1. AnyPrefixed(g, nals, i + 1) <=> AnyPrefixed(g, nals, i)
          BY <2>4, <3>5
        <4>2. CASE (i + 1) \in Emitted(g, nals)
          <5>1. Elements(r.out) = {nal}
            BY <2>1, <2>6, <2>7, <3>5, <4>1, <4>2
          <5> QED BY <3>1, <3>2, <3>3, <4>1, <4>2, <5>1
        <4>3. CASE (i + 1) \notin Emitted(g, nals)
          <5>1. Elements(r.out) = {}
            BY <2>1, <2>6, <2>7, <3>5, <4>1, <4>3
          <5> QED BY <3>1, <3>2, <3>3, <4>1, <4>3, <5>1
        <4> QED BY <4>2, <4>3
      <3> QED BY <3>4, <3>5
    <2>12. /\ P[i + 1].gate \in Gate
           /\ P[i + 1].gate.synced <=> g.synced \/ AnyPrefixed(g, nals, i + 1)
           /\ P[i + 1].gate.sps <=> g.sps \/ Holds(nals, i + 1, "sps")
           /\ P[i + 1].gate.pps <=> g.pps \/ Holds(nals, i + 1, "pps")
      BY <2>1, <2>4, <2>5, <2>7, <2>8
    <2>13. P[i + 1].out \in Seq(NalClass) /\ Elements(P[i + 1].out) = OutBy(g, nals, i + 1)
      BY <2>1, <2>8, <2>10, <2>11
    <2>14. AfterRounds(g, nals, i + 1)
      BY <2>12, <2>13 DEF AfterRounds, P
    <2> QED BY <2>0, <2>14
  <1>4. 0 .. n \subseteq S
    <2> HIDE DEF S
    <2> QED BY <1>0, <1>2, <1>3, UpTo
  <1> QED BY <1>4 DEF n

\* Whatever gate and NAL units it starts from, the loop leaves the gate GateAfter
\* names and lets out what GateOutput names.
LEMMA LoopAgrees ==
    ASSUME NEW g \in Gate, NEW nals \in Seq(NalClass)
    PROVE  /\ PushNals(g, nals).gate = GateAfter(g, nals)
           /\ Elements(PushNals(g, nals).out) = GateOutput(g, nals)
           /\ GateAfter(g, nals) \in Gate
  <1> DEFINE n == Len(nals)
             a == PushNals(g, nals)
             b == GateAfter(g, nals)
  <1>0. n \in Nat /\ DOMAIN nals = 1 .. n /\ n \in 0 .. n
    BY LenProperties
  <1>1. /\ a.gate \in Gate
        /\ a.gate.synced <=> g.synced \/ AnyPrefixed(g, nals, n)
        /\ a.gate.sps <=> g.sps \/ Holds(nals, n, "sps")
        /\ a.gate.pps <=> g.pps \/ Holds(nals, n, "pps")
        /\ Elements(a.out) = OutBy(g, nals, n)
    BY <1>0, RoundsAgree DEF PushNals, AfterRounds
  <1>2. /\ b.synced = (g.synced \/ AnyPrefixed(g, nals, n))
        /\ b.sps = (g.sps \/ Holds(nals, n, "sps"))
        /\ b.pps = (g.pps \/ Holds(nals, n, "pps"))
    BY <1>0 DEF GateAfter, AnyPrefixed, Holds
  <1>3. b \in Gate
    <2>1. \A x, y : (x \/ y) \in BOOLEAN
      BY Zenon
    <2> QED BY <2>1, Zenon DEF GateAfter, Gate
  <1>4. a.gate = b
    <2> HIDE DEF a, b
    <2>1. (a.gate.synced <=> b.synced) /\ (a.gate.sps <=> b.sps) /\ (a.gate.pps <=> b.pps)
      BY <1>1, <1>2, Zenon
    <2> QED BY <1>1, <1>3, <2>1, SameGate
  <1>5. OutBy(g, nals, n) = GateOutput(g, nals)
    <2>1. Emitted(g, nals) \cap 1 .. n = Emitted(g, nals)
      BY <1>0 DEF Emitted
    <2>2. \A k \in 1 .. n : Prefixed(g, nals, k) => k \in Emitted(g, nals)
      BY <1>0 DEF Emitted, Prefixed, ParamSets
    <2>3. AnyPrefixed(g, nals, n) <=> \E k \in Emitted(g, nals) : Prefixed(g, nals, k)
      BY <2>1, <2>2 DEF AnyPrefixed
    <2> QED BY <2>1, <2>3 DEF OutBy, GateOutput, ParamSets
  <1> QED BY <1>1, <1>3, <1>4, <1>5

\* The gate is a gate, the fragment a class: what the two ways of taking in a
\* packet start from.
GateInv ==
    /\ fu \in FuState
    /\ gate \in Gate
    /\ ClosedFormAgrees

\* The two start from the same gate.
LEMMA GateInit == LoopInit => GateInv
  <1> SUFFICES ASSUME LoopInit
               PROVE  GateInv
    OBVIOUS
  <1>1. gate \in Gate
    BY DEF LoopInit, NewGate, Gate
  <1> QED BY <1>1 DEF LoopInit, GateInv, FuState, ClosedFormAgrees

\* A packet and a reset keep them together.
LEMMA GateStep ==
    ASSUME GateInv, [LoopNext]_loopVars
    PROVE  GateInv'
  <1>0. fu \in FuState /\ gate \in Gate /\ gate = refGate
    BY DEF GateInv, ClosedFormAgrees
  <1>1. CASE Reset
    <2>1. gate' \in Gate
      BY <1>0, <1>1 DEF Reset, GateReset, Gate
    <2> QED BY <1>0, <1>1, <2>1 DEF Reset, GateReset, GateInv, FuState, ClosedFormAgrees
  <1>2. ASSUME NEW p \in Payloads, Push(p)
        PROVE  GateInv'
    <2> DEFINE nals == NalsOf(fu, p)
    <2>1. p \in [kind : PayloadKind, nals : Seq(NalClass)]
          /\ (p.kind \notin {"stap", "empty", "malformed"} => Len(p.nals) = 1)
      BY PayloadsAssumption DEF PayloadsAssumption, Payload
    <2>2. p.kind \in {"fuStart"} => p.nals[1] \in NalClass
      BY <2>1
    <2>3. nals \in Seq(NalClass)
      <3>1. CASE p.kind \in {"single", "stap"}
        BY <2>1, <3>1 DEF NalsOf
      <3>2. CASE p.kind = "fuEnd"
        <4>1. fu \in NalClass
          BY <1>0, <1>2, <3>2 DEF Push, Undecodable, FuState
        <4> QED BY <3>2, <4>1 DEF NalsOf
      <3>3. CASE p.kind \notin {"single", "stap", "fuEnd"}
        BY <3>3 DEF NalsOf
      <3> QED BY <3>1, <3>2, <3>3
    <2>4. fu' \in FuState
      BY <1>0, <1>2, <2>2 DEF Push, FuAfter, FuState
    <2>5. /\ gate' = GateAfter(gate, nals) /\ out' = GateOutput(gate, nals)
          /\ refGate' = PushNals(gate, nals).gate /\ refOut' = PushNals(gate, nals).out
      BY <1>0, <1>2 DEF Push
    <2> HIDE DEF nals
    <2>6. gate' \in Gate /\ gate' = refGate' /\ out' = Elements(refOut')
      BY <1>0, <2>3, <2>5, LoopAgrees
    <2> QED BY <2>4, <2>6 DEF GateInv, ClosedFormAgrees, Elements
  <1>3. CASE UNCHANGED loopVars
    BY <1>3 DEF loopVars, GateInv, ClosedFormAgrees
  <1> QED BY <1>1, <1>2, <1>3 DEF LoopNext

\* For every payload that may arrive, and aggregation packets of any length: the
\* operators that treat a packet at once compute what the loop of run_stream_v2
\* computes with push_nal.
THEOREM ClosedFormAlwaysAgrees ==
    LoopSpec => []ClosedFormAgrees
  <1>1. GateInv => ClosedFormAgrees
    BY DEF GateInv
  <1>2. GateInv /\ [LoopNext]_loopVars => GateInv'
    BY GateStep
  <1> QED BY <1>1, <1>2, GateInit, PTL DEF LoopSpec

-----------------------------------------------------------------------------
(***************************************************************************)
(* The deadlines of the recorder.                                          *)
(***************************************************************************)

\* While a clip is recorded, its age and the time left until a deadline make up
\* what the deadline was set for.
DeadlineInv ==
    st = "recording" =>
        /\ stopIn # None => age + stopIn >= MinClip
        /\ hardIn # None => age + hardIn >= MaxClip

\* The inductive invariant of the recorder.
RecorderInv == TypeOK /\ DeadlineInv

\* The longest span of time the recorder tells apart covers each of its deadlines.
LEMMA SpanFacts ==
    MaxSpan \in Nat /\ MaxSpan >= MinClip /\ MaxSpan >= MaxClip /\ MaxSpan > ArmTimeout
  <1> DEFINE S == {MinClip, MaxClip, ArmTimeout + 1}
             Covers(t) == t >= MinClip /\ t >= MaxClip /\ t > ArmTimeout
  <1>1. MinClip \in Nat /\ MaxClip \in Nat /\ ArmTimeout \in Nat
    BY RecorderAssumption
  <1>2. \E t \in S : Covers(t)
    BY <1>1
  <1>3. MaxSpan = CHOOSE t \in S : Covers(t)
    BY DEF MaxSpan
  <1>4. MaxSpan \in S /\ Covers(MaxSpan)
    <2> HIDE DEF S, Covers
    <2> QED BY <1>2, <1>3
  <1> QED BY <1>1, <1>4

\* An active motion has a first rule: ids of it are ids.
LEMMA FirstFacts ==
    ASSUME NEW m \in [Rules -> 0 .. MaxIds], Active(m)
    PROVE  First(m) \in 1 .. MaxIds
  <1> DEFINE T == {r \in Rules : m[r] # 0}
             Is(r) == m[r] # 0 /\ \A q \in Rules : m[q] # 0 => r <= q
  <1>1. T \subseteq Nat /\ T # {} /\ MaxIds \in Nat
    BY RecorderAssumption DEF Active
  <1>2. \E r \in T : \A q \in T : r <= q
    BY <1>1, LeastNatural
  <1>3. \E r \in Rules : Is(r)
    BY <1>2
  <1> DEFINE r == CHOOSE r \in Rules : Is(r)
  <1>4. r \in Rules /\ Is(r)
    <2> HIDE DEF Is
    <2> QED BY <1>3
  <1>5. First(m) = m[r]
    BY DEF First
  <1> HIDE DEF r
  <1> QED BY <1>1, <1>4, <1>5

\* The invariant holds at first.
LEMMA RecorderInit == Init => RecorderInv /\ MinDuration
  <1> SUFFICES ASSUME Init
               PROVE  RecorderInv /\ MinDuration
    OBVIOUS
  <1> USE RecorderAssumption DEF Init
  <1>1. TypeOK
    <2>1. MaxSpan \in Nat /\ MaxIds \in Nat /\ None \in Times /\ MetaCap \in Nat
      BY SpanFacts DEF None, Times
    <2>2. NoMotion \in [Rules -> 0 .. MaxIds]
      BY DEF NoMotion
    <2>3. motion \in [Rules -> 0 .. MaxIds] /\ lastMotion \in [Rules -> 0 .. MaxIds]
      BY <2>2
    <2>4. (ev # 0) = (st \in {"armed", "recording"})
      OBVIOUS
    <2>5. /\ made \in 0 .. MaxIds /\ ev \in 0 .. MaxIds /\ sticky \in 0 .. MaxIds
          /\ age \in 0 .. MaxSpan /\ metas \in 0 .. MetaCap /\ size \in Nat
      BY <2>1
    <2>6. stopIn \in Times /\ hardIn \in Times
      BY <2>1
    <2> QED BY <2>3, <2>4, <2>5, <2>6 DEF TypeOK
  <1>2. DeadlineInv
    BY DEF DeadlineInv
  <1>3. MinDuration
    BY DEF MinDuration, NoEnd
  <1> QED BY <1>1, <1>2, <1>3 DEF RecorderInv

\* A step that ends no clip.
LEMMA NothingEnds == NoClipGone => MinDuration'
  BY DEF NoClipGone, MinDuration, NoEnd

\* The steps around the recorder, and those of it that leave the clip alone.
LEMMA AsideKeeps ==
    ASSUME RecorderInv,
           \/ \E r \in Rules : MotionStarts(r) \/ MotionEnds(r)
           \/ TakeMeta \/ CleanupTick \/ OnNalIgnored \/ OnNal
           \/ \E nal \in {"sps", "pps"} : OnParameterSet(nal)
    PROVE  RecorderInv' /\ MinDuration'
  <1> USE RecorderAssumption
  <1>0. TypeOK /\ DeadlineInv
    BY DEF RecorderInv
  <1>1. /\ UNCHANGED <<st, ev, age, stopIn, hardIn>>
        /\ lastClip' = NoEnd
    BY DEF MotionStarts, MotionEnds, TakeMeta, CleanupTick, OnNalIgnored, OnNal, OnParameterSet,
           clip, NoClipGone
  <1>2. MinDuration' /\ DeadlineInv'
    BY <1>0, <1>1 DEF MinDuration, NoEnd, DeadlineInv
  <1>3. TypeOK'
    <2>0. MaxIds \in Nat /\ MetaCap \in Nat
      OBVIOUS
    <2>1. ASSUME NEW r \in Rules, MotionStarts(r) \/ MotionEnds(r)
          PROVE  TypeOK'
      <3>1. made' \in 0 .. MaxIds /\ motion' \in [Rules -> 0 .. MaxIds] /\ changed' = TRUE
        BY <1>0, <2>0, <2>1 DEF MotionStarts, MotionEnds, TypeOK
      <3> QED BY <1>0, <1>1, <2>1, <3>1 DEF MotionStarts, MotionEnds, TypeOK, clip, disk
    <2>2. CASE TakeMeta
      BY <1>0, <1>1, <2>0, <2>2 DEF TakeMeta, TypeOK, clip, bus
    <2>3. CASE CleanupTick \/ OnNalIgnored
      BY <1>0, <1>1, <2>3 DEF CleanupTick, OnNalIgnored, TypeOK, clip, bus, disk
    <2>4. Grown \in Nat
      BY <1>0 DEF Grown, TypeOK
    <2>5. CASE OnNal
      BY <1>0, <1>1, <2>4, <2>5 DEF OnNal, TypeOK, clip, bus, disk
    <2>6. ASSUME NEW nal \in {"sps", "pps"}, OnParameterSet(nal)
          PROVE  TypeOK'
      <3>1. size' \in Nat /\ sets' \subseteq {"sps", "pps"}
        BY <1>0, <2>4, <2>6 DEF OnParameterSet, TypeOK
      <3> QED BY <1>0, <1>1, <2>6, <3>1 DEF OnParameterSet, TypeOK, clip, bus, disk
    <2> QED BY <2>1, <2>2, <2>3, <2>5, <2>6
  <1> QED BY <1>2, <1>3 DEF RecorderInv

\* A tick: the clip grows older as its deadlines come nearer.
LEMMA TimeKeeps ==
    ASSUME RecorderInv, Time
    PROVE  RecorderInv' /\ MinDuration'
  <1> USE RecorderAssumption
  <1>0. TypeOK /\ DeadlineInv
    BY DEF RecorderInv
  <1>1. age \in 0 .. MaxSpan /\ stopIn \in Times /\ hardIn \in Times
    BY <1>0 DEF TypeOK
  <1>2. /\ age' \in 0 .. MaxSpan
        /\ age' = age + 1 \/ (age' = age /\ age = MaxSpan)
    BY <1>1, SpanFacts DEF Time, Older
  <1>3. /\ stopIn' \in Times /\ (stopIn' # None => stopIn # None /\ stopIn' >= stopIn - 1 /\ stopIn' >= 0)
        /\ hardIn' \in Times /\ (hardIn' # None => hardIn # None /\ hardIn' >= hardIn - 1 /\ hardIn' >= 0)
    BY <1>1 DEF Time, Later, Times, None
  <1>4. TypeOK'
    BY <1>0, <1>2, <1>3 DEF Time, TypeOK, bus
  <1>5. DeadlineInv'
    <2> SUFFICES ASSUME st = "recording"
                 PROVE  /\ stopIn' # None => age' + stopIn' >= MinClip
                        /\ hardIn' # None => age' + hardIn' >= MaxClip
      BY DEF DeadlineInv, Time
    <2>1. /\ stopIn # None => age + stopIn >= MinClip
          /\ hardIn # None => age + hardIn >= MaxClip
      BY <1>0 DEF DeadlineInv
    <2>2. {age, age', stopIn, stopIn', hardIn, hardIn', MinClip, MaxClip} \subseteq Int
      BY <1>1, <1>2, <1>3, SpanFacts DEF Times, None
    <2> QED BY <1>2, <1>3, <2>1, <2>2, SpanFacts
  <1> QED BY <1>4, <1>5, NothingEnds DEF Time, RecorderInv

\* Arming and disarming leave a recorder without deadlines.
LEMMA ArmKeeps ==
    ASSUME RecorderInv, \/ Disarm
                        \/ \E id \in 1 .. MaxIds : Arm(id),
           motion' \in [Rules -> 0 .. MaxIds], changed' \in BOOLEAN, made' \in 0 .. MaxIds,
           sets' \subseteq {"sps", "pps"}, lastMotion' \in [Rules -> 0 .. MaxIds],
           sticky' \in 0 .. MaxIds, loop' \in {"busy", "calm", "due"}, metas' \in 0 .. MetaCap,
           seen' \subseteq Ids
    PROVE  RecorderInv'
  <1> USE RecorderAssumption
  <1>1. /\ st' \in {"idle", "armed"} /\ ev' \in 0 .. MaxIds /\ (ev' # 0) = (st' = "armed")
        /\ age' = 0 /\ stopIn' = None /\ hardIn' = None /\ size' = 0
    BY DEF Arm, Disarm
  <1>2. 0 \in 0 .. MaxSpan /\ None \in Times
    BY SpanFacts DEF Times, None
  <1>3. TypeOK'
    BY <1>1, <1>2 DEF TypeOK
  <1>4. DeadlineInv'
    BY <1>1 DEF DeadlineInv
  <1> QED BY <1>3, <1>4 DEF RecorderInv

\* A change of the motion arms, disarms or moves the deadline of the clip: it is
\* never moved to before MinClip.
LEMMA ChangeKeeps ==
    ASSUME RecorderInv, OnMotionStateChange
    PROVE  RecorderInv' /\ MinDuration'
  <1> USE RecorderAssumption
  <1>0. TypeOK /\ DeadlineInv
    BY DEF RecorderInv
  <1>1. /\ motion' = motion /\ made' = made /\ sets' = sets /\ metas' = metas
        /\ changed' = FALSE /\ lastMotion' = motion /\ sticky' = Stick /\ loop' = "busy"
    BY DEF OnMotionStateChange, disk
  <1>2. Stick \in 0 .. MaxIds /\ (Active(motion) => Stick \in 1 .. MaxIds)
    <2>1. motion \in [Rules -> 0 .. MaxIds] /\ sticky \in 0 .. MaxIds /\ MaxIds \in Nat
      BY <1>0 DEF TypeOK
    <2>2. Active(motion) => First(motion) \in 1 .. MaxIds
      BY <2>1, FirstFacts
    <2> QED BY <2>1, <2>2 DEF Stick
  <1>3. seen' \subseteq Ids
    <2>1. {motion[r] : r \in Rules} \ {0} \subseteq Ids
      BY <1>0 DEF TypeOK, Ids
    <2> QED BY <1>0, <2>1 DEF OnMotionStateChange, TypeOK
  <1>4. /\ motion' \in [Rules -> 0 .. MaxIds] /\ changed' \in BOOLEAN /\ made' \in 0 .. MaxIds
        /\ sets' \subseteq {"sps", "pps"} /\ lastMotion' \in [Rules -> 0 .. MaxIds]
        /\ sticky' \in 0 .. MaxIds /\ loop' \in {"busy", "calm", "due"} /\ metas' \in 0 .. MetaCap
    BY <1>0, <1>1, <1>2 DEF TypeOK
  <1>5. CASE Disarm \/ \E id \in 1 .. MaxIds : Arm(id)
    BY <1>3, <1>4, <1>5, ArmKeeps, NothingEnds DEF OnMotionStateChange
  <1>6. CASE UNCHANGED <<st, clip>>
    <2>1. TypeOK'
      BY <1>0, <1>3, <1>4, <1>6 DEF TypeOK, clip
    <2>2. DeadlineInv'
      BY <1>0, <1>6 DEF DeadlineInv, clip
    <2> QED BY <2>1, <2>2, NothingEnds DEF OnMotionStateChange, RecorderInv
  <1>7. CASE /\ st = "recording"
             /\ stopIn' = IF Active(motion) THEN None ELSE AfterMotion
             /\ UNCHANGED <<st, ev, age, hardIn, size>>
    <2>1. age \in Nat /\ stopIn \in Times
      BY <1>0, SpanFacts DEF TypeOK
    <2>2. AfterMotion \in Times /\ (AfterMotion # None => age + AfterMotion >= MinClip)
      BY <1>0, <1>7, <2>1 DEF AfterMotion, DeadlineInv, Times, None
    <2>3. stopIn' \in Times /\ (stopIn' # None => age + stopIn' >= MinClip)
      BY <1>7, <2>2 DEF Times, None
    <2>4. TypeOK'
      BY <1>0, <1>3, <1>4, <1>7, <2>3 DEF TypeOK
    <2>5. DeadlineInv'
      BY <1>0, <1>7, <2>3 DEF DeadlineInv
    <2> QED BY <2>4, <2>5, NothingEnds DEF OnMotionStateChange, RecorderInv
  <1>8. \/ st = "idle" /\ Active(motion) /\ Arm(Stick)
        \/ st = "armed" /\ Active(motion) /\ Arm(ev)
        \/ Disarm
        \/ /\ st = "recording"
           /\ stopIn' = IF Active(motion) THEN None ELSE AfterMotion
           /\ UNCHANGED <<st, ev, age, hardIn, size>>
        \/ UNCHANGED <<st, clip>>
    BY DEF OnMotionStateChange
  <1>9. st = "armed" => ev \in 1 .. MaxIds
    BY <1>0 DEF TypeOK
  <1> QED BY <1>2, <1>5, <1>6, <1>7, <1>8, <1>9

\* A new clip has its deadlines ahead of it; a file that cannot be opened has none.
LEMMA StartKeeps ==
    ASSUME RecorderInv, NEW opened \in BOOLEAN, StartClip(opened)
    PROVE  RecorderInv' /\ MinDuration'
  <1> USE RecorderAssumption
  <1>0. TypeOK
    BY DEF RecorderInv
  <1>1. ev # 0 /\ ev \in 0 .. MaxIds /\ MaxIds \in Nat
    BY <1>0 DEF StartClip, TypeOK
  <1>2. /\ age' = 0 /\ size' \in Nat
        /\ \/ st' = "recording" /\ ev' = ev /\ stopIn' = MinClip
              /\ hardIn' = IF MaxClip = 0 THEN None ELSE MaxClip
           \/ st' = "failed" /\ ev' = 0 /\ stopIn' = None /\ hardIn' = None
    BY DEF StartClip
  <1>3. age' \in 0 .. MaxSpan /\ stopIn' \in Times /\ hardIn' \in Times
    BY <1>2, SpanFacts DEF Times, None
  <1>4. TypeOK'
    BY <1>0, <1>1, <1>2, <1>3 DEF StartClip, TypeOK, bus, disk
  <1>5. DeadlineInv'
    BY <1>2 DEF DeadlineInv, None
  <1> QED BY <1>4, <1>5, NothingEnds DEF StartClip, RecorderInv

\* The end of a clip, at its last NAL unit or at a deadline.
LEMMA StopKeeps ==
    ASSUME RecorderInv,
           \/ \E why \in {"size", "write"}, saved \in BOOLEAN : OnNalLast(why, saved)
           \/ Deadline
    PROVE  RecorderInv' /\ MinDuration'
  <1> USE RecorderAssumption
  <1>0. TypeOK /\ DeadlineInv
    BY DEF RecorderInv
  <1>a. age \in Nat
    BY <1>0, SpanFacts DEF TypeOK
  <1>1. /\ UNCHANGED <<bus, sets, lastMotion, sticky, seen>>
        /\ loop' \in {"busy", "calm"} /\ metas' \in 0 .. MetaCap
    BY <1>0 DEF OnNalLast, Deadline, MaybeStopOnDeadline, StopRecording, disk, TypeOK
  <1>2. Disarm \/ \E id \in 1 .. MaxIds : Arm(id)
    <2>1. /\ lastMotion \in [Rules -> 0 .. MaxIds] /\ sticky \in 0 .. MaxIds /\ MaxIds \in Nat
      BY <1>0 DEF TypeOK
    <2>2. Active(lastMotion) => First(lastMotion) \in 1 .. MaxIds
      BY <2>1, FirstFacts
    <2>3. RearmIfMotionActive => Disarm \/ \E id \in 1 .. MaxIds : Arm(id)
      BY <2>1, <2>2 DEF RearmIfMotionActive
    <2> QED BY <2>3 DEF OnNalLast, Deadline, MaybeStopOnDeadline
  <1>3. RecorderInv'
    BY <1>0, <1>1, <1>2, ArmKeeps DEF TypeOK, bus
  <1>4. MinDuration'
    <2>1. CASE Deadline
      <3>1. /\ st = "recording" /\ (stopIn = 0 \/ hardIn = 0)
            /\ lastClip' = [why |-> IF hardIn = 0 THEN "hard" ELSE "deadline", span |-> age]
        BY <2>1 DEF Deadline, MaybeStopOnDeadline, StopRecording, Due
      <3>2. /\ stopIn = 0 => age >= MinClip
            /\ hardIn = 0 => age >= MaxClip
        BY <1>0, <1>a, <3>1 DEF DeadlineInv, None
      <3> QED BY <3>1, <3>2 DEF MinDuration
    <2>2. CASE ~Deadline
      <3>1. lastClip'.why \in {"size", "write"}
        BY <2>2 DEF OnNalLast, StopRecording
      <3> QED BY <3>1 DEF MinDuration
    <2> QED BY <2>1, <2>2
  <1> QED BY <1>3, <1>4

\* Every step preserves the invariant.
LEMMA RecorderStep == RecorderInv /\ MinDuration /\ [Next]_vars => RecorderInv' /\ MinDuration'
  <1> SUFFICES ASSUME RecorderInv, MinDuration, [Next]_vars
               PROVE  RecorderInv' /\ MinDuration'
    OBVIOUS
  <1>1. CASE UNCHANGED vars
    BY <1>1 DEF vars, bus, clip, disk, RecorderInv, TypeOK, DeadlineInv, MinDuration
  <1>2. CASE Next
    BY <1>2, AsideKeeps, TimeKeeps, ChangeKeeps, StartKeeps, StopKeeps DEF Next, Nal
  <1> QED BY <1>1, <1>2

\* A clip that ended at a deadline has the length the deadline was set for.
THEOREM DurationAlwaysKept == Spec => [](TypeOK /\ MinDuration)
  <1>1. RecorderInv => TypeOK
    BY DEF RecorderInv
  <1> QED BY <1>1, RecorderInit, RecorderStep, PTL DEF Spec

-----------------------------------------------------------------------------
(***************************************************************************)
(* The clean-up of the directory.                                          *)
(***************************************************************************)
\* A file of the directory: its length and its age.
Clip == [size : Nat, age : 0 .. MaxAge + 1]

\* The order in which the directory listing is sorted.
OldestFirst(fs) == \A i, j \in 1 .. Len(fs) : i < j => fs[i].age >= fs[j].age

\* The recursive definition of Sums has a solution, and Sums is one.
LEMMA SumsDef ==
    ASSUME NEW fs \in Seq(Clip)
    PROVE  Sums(fs) = [i \in 0 .. Len(fs) |->
                          IF i = 0 THEN 0 ELSE Sums(fs)[i - 1] + fs[i].size]
  <1> DEFINE Is(g, n) == g = [i \in 0 .. n |-> IF i = 0 THEN 0 ELSE g[i - 1] + fs[i].size]
             S == {n \in 0 .. Len(fs) : \E g : Is(g, n)}
  <1>0. Len(fs) \in Nat
    BY LenProperties
  <1>1. 0 \in S
    <2> DEFINE g == [i \in 0 .. 0 |-> 0]
    <2>1. Is(g, 0)
      OBVIOUS
    <2>2. \E f : Is(f, 0)
      BY <2>1
    <2> QED BY <1>0, <2>2
  <1>2. ASSUME NEW n \in 0 .. Len(fs) - 1, n \in S
        PROVE  n + 1 \in S
    <2>1. PICK g : Is(g, n)
      BY <1>2
    <2> DEFINE h == [i \in 0 .. n + 1 |-> IF i <= n THEN g[i] ELSE g[n] + fs[n + 1].size]
    <2>2. ASSUME NEW i \in 0 .. n + 1
          PROVE  h[i] = IF i = 0 THEN 0 ELSE h[i - 1] + fs[i].size
      <3>1. CASE i = 0
        BY <1>0, <2>1, <3>1
      <3>2. CASE i \in 1 .. n
        <4>1. h[i] = g[i] /\ h[i - 1] = g[i - 1] /\ i \in 0 .. n /\ i # 0
          BY <1>0, <3>2
        <4>2. g[i] = g[i - 1] + fs[i].size
          BY <2>1, <4>1
        <4> QED BY <4>1, <4>2
      <3>3. CASE i = n + 1
        BY <1>0, <3>3
      <3> QED BY <1>0, <3>1, <3>2, <3>3
    <2>3. Is(h, n + 1)
      BY <2>2
    <2>4. \E f : Is(f, n + 1)
      BY <2>3
    <2> QED BY <1>0, <2>4
  <1>3. Len(fs) \in S
    <2> HIDE DEF S
    <2>1. 0 .. Len(fs) \subseteq S
      BY <1>0, <1>1, <1>2, UpTo
    <2> QED BY <1>0, <2>1
  <1>4. \E g : Is(g, Len(fs))
    BY <1>3
  <1>5. Sums(fs) = CHOOSE g : Is(g, Len(fs))
    BY DEF Sums
  <1>6. Is(Sums(fs), Len(fs))
    <2> HIDE DEF Is
    <2> QED BY <1>4, <1>5
  <1> QED BY <1>6

\* What the sums are, one by one.
LEMMA SumsFacts ==
    ASSUME NEW fs \in Seq(Clip)
    PROVE  /\ Sums(fs)[0] = 0
           /\ \A i \in 1 .. Len(fs) : Sums(fs)[i] = Sums(fs)[i - 1] + fs[i].size
           /\ \A i \in 0 .. Len(fs) : Sums(fs)[i] \in Nat
  <1>0. Len(fs) \in Nat
    BY LenProperties
  <1> DEFINE s == Sums(fs)
             S == {i \in 0 .. Len(fs) : s[i] \in Nat}
  <1>1. s[0] = 0
    BY <1>0, SumsDef
  <1>2. \A i \in 1 .. Len(fs) : s[i] = s[i - 1] + fs[i].size
    <2> SUFFICES ASSUME NEW i \in 1 .. Len(fs)
                 PROVE  s[i] = s[i - 1] + fs[i].size
      OBVIOUS
    <2>1. i \in 0 .. Len(fs) /\ i # 0
      BY <1>0
    <2> QED BY <2>1, SumsDef
  <1>3. \A i \in 1 .. Len(fs) : fs[i].size \in Nat
    <2>1. \A i \in 1 .. Len(fs) : fs[i] \in Clip
      BY ElementOfSeq
    <2> QED BY <2>1 DEF Clip
  <1> HIDE DEF s
  <1>4. 0 .. Len(fs) \subseteq S
    <2>1. 0 \in S
      BY <1>0, <1>1
    <2>2. ASSUME NEW i \in 0 .. Len(fs) - 1, i \in S
          PROVE  i + 1 \in S
      <3>1. i + 1 \in 1 .. Len(fs) /\ i + 1 - 1 = i
        BY <1>0
      <3> QED BY <1>0, <1>2, <1>3, <2>2, <3>1
    <2> HIDE DEF S
    <2> QED BY <1>0, <2>1, <2>2, UpTo
  <1> QED BY <1>1, <1>2, <1>4 DEF s

\* The sums of a stretch of clips are differences of sums.
LEMMA SumsOfStretch ==
    ASSUME NEW fs \in Seq(Clip), NEW k \in 0 .. Len(fs), NEW m \in k .. Len(fs)
    PROVE  /\ SubSeq(fs, k + 1, m) \in Seq(Clip)
           /\ Len(SubSeq(fs, k + 1, m)) = m - k
           /\ \A i \in 1 .. m - k : SubSeq(fs, k + 1, m)[i] = fs[k + i]
           /\ \A i \in 0 .. m - k : Sums(SubSeq(fs, k + 1, m))[i] = Sums(fs)[k + i] - Sums(fs)[k]
  <1>0. Len(fs) \in Nat
    BY LenProperties
  <1> DEFINE gs == SubSeq(fs, k + 1, m)
             s == Sums(fs)
             t == Sums(gs)
             S == {i \in 0 .. m - k : t[i] = s[k + i] - s[k]}
  <1>1. gs \in Seq(Clip) /\ Len(gs) = m - k /\ \A i \in 1 .. m - k : gs[i] = fs[k + i]
    <2>1. \A i \in k + 1 .. m : fs[i] \in Clip
      BY <1>0, ElementOfSeq
    <2>2. /\ gs \in Seq(Clip)
          /\ Len(gs) = IF k + 1 <= m THEN m - (k + 1) + 1 ELSE 0
          /\ \A i \in 1 .. m - (k + 1) + 1 : gs[i] = fs[k + 1 + i - 1]
      BY <1>0, <2>1, SubSeqProperties
    <2> QED BY <1>0, <2>2
  <1> HIDE DEF gs
  <1>2. /\ t[0] = 0
        /\ \A i \in 1 .. m - k : t[i] = t[i - 1] + gs[i].size
    BY <1>1, SumsFacts
  <1>3. /\ \A i \in 1 .. Len(fs) : s[i] = s[i - 1] + fs[i].size
        /\ \A i \in 0 .. Len(fs) : s[i] \in Nat
    BY SumsFacts
  <1>4. \A i \in 1 .. Len(fs) : fs[i].size \in Nat
    <2>1. \A i \in 1 .. Len(fs) : fs[i] \in Clip
      BY ElementOfSeq
    <2> QED BY <2>1 DEF Clip
  <1> HIDE DEF s, t
  <1>5. 0 \in S
    BY <1>0, <1>2, <1>3
  <1>6. ASSUME NEW i \in 0 .. m - k - 1, i \in S
        PROVE  i + 1 \in S
    <2>1. /\ i + 1 \in 1 .. m - k /\ i + 1 - 1 = i
          /\ k + (i + 1) \in 1 .. Len(fs) /\ k + (i + 1) - 1 = k + i /\ k + i \in 0 .. Len(fs)
      BY <1>0
    <2>2. t[i + 1] = t[i] + fs[k + (i + 1)].size
      BY <1>1, <1>2, <2>1
    <2>3. s[k + (i + 1)] = s[k + i] + fs[k + (i + 1)].size
      <3>1. s[k + (i + 1)] = s[k + (i + 1) - 1] + fs[k + (i + 1)].size
        BY <1>3, <2>1
      <3> QED BY <2>1, <3>1
    <2>4. t[i] = s[k + i] - s[k] /\ s[k + i] \in Nat /\ s[k] \in Nat
      BY <1>0, <1>3, <1>6, <2>1
    <2>5. fs[k + (i + 1)].size \in Nat
      BY <1>4, <2>1
    <2>6. t[i + 1] = s[k + (i + 1)] - s[k]
      BY <2>2, <2>3, <2>4, <2>5
    <2>7. i + 1 \in 0 .. m - k
      BY <1>0
    <2> QED BY <2>6, <2>7
  <1>7. 0 .. m - k \subseteq S
    <2> HIDE DEF S
    <2>1. m - k \in Nat
      BY <1>0
    <2> QED BY <1>5, <1>6, <2>1, UpTo
  <1> QED BY <1>1, <1>7 DEF gs, s, t

\* The clips that are too old are the first ones.
LEMMA OldClips ==
    ASSUME NEW fs \in Seq(Clip), OldestFirst(fs)
    PROVE  \E m \in 0 .. Len(fs) :
              /\ Cardinality({i \in DOMAIN fs : fs[i].age > MaxAge}) = m
              /\ \A i \in 1 .. Len(fs) : fs[i].age > MaxAge <=> i <= m
  <1> DEFINE n == Len(fs)
             T == {i \in 1 .. n + 1 : i = n + 1 \/ fs[i].age <= MaxAge}
  <1>0. n \in Nat /\ DOMAIN fs = 1 .. n /\ MaxAge \in Nat
    BY LenProperties, RecorderAssumption
  <1>1. \A i \in 1 .. n : fs[i].age \in Nat
    <2>1. \A i \in 1 .. n : fs[i] \in Clip
      BY ElementOfSeq
    <2>2. \A i \in 1 .. n : fs[i].age \in 0 .. MaxAge + 1
      BY <2>1 DEF Clip
    <2> QED BY <1>0, <2>2
  <1> HIDE DEF n
  <1>2. T \subseteq Nat /\ n + 1 \in T
    BY <1>0
  <1>3. PICK x \in T : \A y \in T : x <= y
    BY <1>2, LeastNatural
  <1> DEFINE m == x - 1
  <1>4. m \in 0 .. n
    BY <1>0, <1>3
  <1>5. ASSUME NEW i \in 1 .. n
        PROVE  fs[i].age > MaxAge <=> i <= m
    <2>1. CASE i <= m
      <3>1. i \notin T
        BY <1>0, <1>3, <2>1
      <3> QED BY <1>0, <1>1, <2>1, <3>1
    <2>2. CASE i > m
      <3>1. x \in 1 .. n /\ fs[x].age <= MaxAge /\ x <= i
        BY <1>0, <1>3, <2>2
      <3>2. fs[x].age >= fs[i].age
        BY <1>0, <1>1, <3>1 DEF OldestFirst, n
      <3> QED BY <1>0, <1>1, <2>2, <3>1, <3>2
    <2> QED BY <1>0, <1>4, <2>1, <2>2
  <1>6. {i \in DOMAIN fs : fs[i].age > MaxAge} = 1 .. m
    BY <1>0, <1>4, <1>5
  <1>7. Cardinality(1 .. m) = m
    <2>1. Cardinality(1 .. m) = IF 1 > m THEN 0 ELSE m - 1 + 1
      BY <1>0, <1>4, FS_Interval
    <2> QED BY <1>0, <1>4, <2>1
  <1> QED BY <1>4, <1>5, <1>6, <1>7 DEF n

\* Dropping the first k clips.
LEMMA WithoutFacts ==
    ASSUME NEW fs \in Seq(Clip), NEW k \in 0 .. Len(fs)
    PROVE  /\ Without(fs, k) \in Seq(Clip)
           /\ Len(Without(fs, k)) = Len(fs) - k
           /\ \A i \in 1 .. Len(fs) - k : Without(fs, k)[i] = fs[k + i]
           /\ \A i \in 0 .. Len(fs) - k :
                 Sums(Without(fs, k))[i] = Sums(fs)[k + i] - Sums(fs)[k]
           /\ Total(Without(fs, k)) = Sums(fs)[Len(fs)] - Sums(fs)[k]
  <1>0. Len(fs) \in Nat /\ Len(fs) \in k .. Len(fs)
    BY LenProperties
  <1>1. /\ Without(fs, k) \in Seq(Clip)
        /\ Len(Without(fs, k)) = Len(fs) - k
        /\ \A i \in 1 .. Len(fs) - k : Without(fs, k)[i] = fs[k + i]
        /\ \A i \in 0 .. Len(fs) - k :
              Sums(Without(fs, k))[i] = Sums(fs)[k + i] - Sums(fs)[k]
    BY <1>0, SumsOfStretch DEF Without
  <1>2. Total(Without(fs, k)) = Sums(fs)[Len(fs)] - Sums(fs)[k]
    <2>1. Len(fs) - k \in 0 .. Len(fs) - k /\ k + (Len(fs) - k) = Len(fs)
      BY <1>0
    <2>2. Sums(Without(fs, k))[Len(fs) - k] = Sums(fs)[k + (Len(fs) - k)] - Sums(fs)[k]
      BY <1>1, <2>1
    <2> QED BY <1>1, <2>1, <2>2 DEF Total
  <1> QED BY <1>1, <1>2

\* The limits, in terms of how many of the oldest clips go.
LEMMA LimitsFacts ==
    ASSUME NEW fs \in Seq(Clip), NEW m \in 0 .. Len(fs),
           \A i \in 1 .. Len(fs) : fs[i].age > MaxAge <=> i <= m,
           NEW k \in 0 .. Len(fs)
    PROVE  WithinLimits(Without(fs, k))
             <=> /\ m <= k
                 /\ Len(fs) - k <= MaxFiles
                 /\ Sums(fs)[Len(fs)] - Sums(fs)[k] <= MaxTotal
  <1> DEFINE n == Len(fs)
             gs == Without(fs, k)
  <1>0. n \in Nat /\ MaxAge \in Nat
    BY LenProperties, RecorderAssumption
  <1>1. /\ gs \in Seq(Clip) /\ Len(gs) = n - k
        /\ \A i \in 1 .. n - k : gs[i] = fs[k + i]
        /\ Total(gs) = Sums(fs)[n] - Sums(fs)[k]
    BY WithoutFacts
  <1>2. DOMAIN gs = 1 .. n - k
    BY <1>1, LenProperties
  <1>3. \A i \in 1 .. n : fs[i].age \in Nat
    <2>1. \A i \in 1 .. n : fs[i] \in Clip
      BY ElementOfSeq
    <2> QED BY <1>0, <2>1 DEF Clip
  <1> HIDE DEF gs, n
  <1>4. (\A i \in DOMAIN gs : gs[i].age <= MaxAge) <=> m <= k
    <2>1. ASSUME m <= k, NEW i \in DOMAIN gs
          PROVE  gs[i].age <= MaxAge
      <3>1. k + i \in 1 .. n /\ ~(k + i <= m) /\ gs[i] = fs[k + i]
        BY <1>0, <1>1, <1>2, <2>1 DEF n
      <3> QED BY <1>0, <1>3, <3>1 DEF n
    <2>2. ASSUME ~(m <= k)
          PROVE  1 \in DOMAIN gs /\ ~(gs[1].age <= MaxAge)
      <3>1. k + 1 \in 1 .. n /\ k + 1 <= m /\ 1 \in 1 .. n - k
        BY <1>0, <2>2 DEF n
      <3>2. fs[k + 1].age > MaxAge /\ gs[1] = fs[k + 1] /\ fs[k + 1].age \in Nat
        BY <1>1, <1>3, <3>1 DEF n
      <3> QED BY <1>0, <1>2, <3>1, <3>2
    <2> QED BY <2>1, <2>2
  <1> QED BY <1>1, <1>4 DEF WithinLimits, n, gs

\* The three passes of cleanup_old_clips, one after the other, come to the least
\* number of clips whose removal satisfies all three limits.
LEMMA CleanupExact ==
    ASSUME NEW fs \in Seq(Clip), OldestFirst(fs)
    PROVE  /\ CleanupOldClips(fs) \in 0 .. Len(fs)
           /\ CleanupOldClips(fs) = Needed(fs)
  <1> DEFINE n == Len(fs)
             s == Sums(fs)
             old == Cardinality({i \in DOMAIN fs : fs[i].age > MaxAge})
             rest == Without(fs, old)
             excess == IF Len(rest) > MaxFiles THEN Len(rest) - MaxFiles ELSE 0
             kept == Without(rest, excess)
             over == Total(kept) - MaxTotal
             first(k) == Total(SubSeq(kept, 1, k))
             Enough(k) == first(k) >= over /\ \A j \in 0 .. k - 1 : first(j) < over
             more == IF over <= 0 THEN 0 ELSE CHOOSE k \in 0 .. Len(kept) : Enough(k)
             b == old + excess
  <1>0. n \in Nat /\ MaxFiles \in Nat /\ MaxTotal \in Nat
    BY LenProperties, RecorderAssumption
  <1>1. \A i \in 0 .. n : s[i] \in Nat
    BY SumsFacts
  <1>2. CleanupOldClips(fs) = old + excess + more
    BY DEF CleanupOldClips
  <1>3. old \in 0 .. n /\ \A i \in 1 .. n : fs[i].age > MaxAge <=> i <= old
    BY OldClips
  <1> HIDE DEF old
  <1>4. rest \in Seq(Clip) /\ Len(rest) = n - old /\ \A i \in 0 .. n - old : Sums(rest)[i] = s[old + i] - s[old]
    BY <1>3, WithoutFacts
  <1> HIDE DEF rest
  <1>5. /\ excess \in 0 .. n - old /\ b \in old .. n
        /\ n - b <= MaxFiles
        /\ excess # 0 => n - b = MaxFiles
    BY <1>0, <1>3, <1>4
  <1> HIDE DEF excess
  <1>6. /\ kept \in Seq(Clip) /\ Len(kept) = n - b
        /\ \A i \in 0 .. n - b : Sums(kept)[i] = s[b + i] - s[b]
    <2>1. /\ kept \in Seq(Clip) /\ Len(kept) = (n - old) - excess
          /\ \A i \in 0 .. (n - old) - excess :
                Sums(kept)[i] = Sums(rest)[excess + i] - Sums(rest)[excess]
      <3>1. rest \in Seq(Clip) /\ Len(rest) = n - old /\ excess \in 0 .. Len(rest)
        BY <1>4, <1>5
      <3> QED BY <3>1, WithoutFacts
    <2>2. (n - old) - excess = n - b
      BY <1>0, <1>3, <1>5
    <2>3. ASSUME NEW i \in 0 .. n - b
          PROVE  Sums(kept)[i] = s[b + i] - s[b]
      <3>1. /\ excess + i \in 0 .. n - old /\ old + (excess + i) = b + i
            /\ b + i \in 0 .. n /\ b \in 0 .. n
        <4>1. n \in Nat /\ old \in Nat /\ excess \in Nat /\ i \in Nat
          BY <1>0, <1>3, <1>5
        <4>2. old <= n /\ excess <= n - old /\ i <= n - b
          BY <1>0, <1>3, <1>5
        <4> HIDE DEF n
        <4> QED BY <4>1, <4>2
      <3>2. Sums(rest)[excess + i] = s[b + i] - s[old] /\ Sums(rest)[excess] = s[b] - s[old]
        BY <1>4, <1>5, <3>1
      <3>3. s[b + i] \in Nat /\ s[b] \in Nat /\ s[old] \in Nat
        BY <1>1, <1>3, <3>1
      <3>4. Sums(kept)[i] = Sums(rest)[excess + i] - Sums(rest)[excess]
        BY <2>1, <2>2
      <3> HIDE DEF s, b, kept
      <3> QED BY <3>2, <3>3, <3>4
    <2> QED BY <2>1, <2>2, <2>3
  <1>7. Total(kept) = s[n] - s[b]
    <2>1. n - b \in 0 .. n - b /\ b + (n - b) = n
      <3> HIDE DEF n, b
      <3>1. n \in Nat /\ b \in Nat /\ b <= n
        BY <1>0, <1>3, <1>5
      <3> QED BY <3>1
    <2>2. Total(kept) = Sums(kept)[n - b]
      BY <1>6 DEF Total
    <2>3. Sums(kept)[n - b] = s[b + (n - b)] - s[b]
      BY <1>6, <2>1
    <2> QED BY <2>1, <2>2, <2>3
  <1>8. \A k \in 0 .. n - b : first(k) = s[b + k] - s[b]
    <2> SUFFICES ASSUME NEW k \in 0 .. n - b
                 PROVE  first(k) = s[b + k] - s[b]
      OBVIOUS
    <2>1. 0 \in 0 .. Len(kept) /\ k \in 0 .. Len(kept) /\ k - 0 = k /\ 0 + 1 = 1 /\ 0 + k = k
      BY <1>0, <1>3, <1>5, <1>6
    <2>2. /\ Len(SubSeq(kept, 1, k)) = k
          /\ Sums(SubSeq(kept, 1, k))[k] = Sums(kept)[k] - Sums(kept)[0]
      <3>1. /\ Len(SubSeq(kept, 0 + 1, k)) = k - 0
            /\ \A i \in 0 .. k - 0 : Sums(SubSeq(kept, 0 + 1, k))[i] = Sums(kept)[0 + i] - Sums(kept)[0]
        <4> HIDE DEF kept
        <4> QED BY <1>6, <2>1, SumsOfStretch
      <3>2. k \in 0 .. k - 0
        BY <2>1
      <3> QED BY <2>1, <3>1, <3>2
    <2>3. Sums(kept)[0] = 0
      BY <1>6, SumsFacts
    <2>4. Sums(kept)[k] = s[b + k] - s[b] /\ s[b + k] \in Nat /\ s[b] \in Nat
      BY <1>0, <1>1, <1>3, <1>5, <1>6
    <2> HIDE DEF s, b, kept
    <2> QED BY <2>2, <2>3, <2>4 DEF Total
  <1> HIDE DEF kept, b
  <1>9. (\A k \in 0 .. n - b : first(k) \in Int) /\ over \in Int
    <2>1. b \in 0 .. n /\ s[b] \in Nat /\ s[n] \in Nat
      BY <1>0, <1>1, <1>3, <1>5
    <2>2. ASSUME NEW k \in 0 .. n - b
          PROVE  first(k) \in Int
      <3>1. b + k \in 0 .. n
        BY <1>0, <2>1
      <3>2. s[b + k] \in Nat
        BY <1>1, <3>1
      <3> HIDE DEF s, first
      <3> QED BY <1>8, <2>1, <3>2
    <2>3. over \in Int
      <3> HIDE DEF s
      <3> QED BY <1>0, <1>7, <2>1
    <2> QED BY <2>2, <2>3
  <1> HIDE DEF first
  <1>10. /\ more \in 0 .. n - b
         /\ s[n] - s[b + more] <= MaxTotal
         /\ \A j \in 0 .. more - 1 : s[n] - s[b + j] > MaxTotal
    <2>1. s[n] \in Nat /\ s[b] \in Nat /\ n - b \in Nat /\ over = s[n] - s[b] - MaxTotal
      BY <1>0, <1>1, <1>3, <1>5, <1>7
    <2>2. CASE over <= 0
      <3>1. more = 0 /\ b + 0 = b /\ 0 .. 0 - 1 = {}
        BY <1>0, <1>3, <1>5, <2>2
      <3> HIDE DEF more, over
      <3>2. s[n] - s[b + more] <= MaxTotal
        BY <1>0, <2>1, <2>2, <3>1
      <3> QED BY <1>0, <2>1, <3>1, <3>2
    <2>3. CASE ~(over <= 0)
      <3> DEFINE T == {k \in 0 .. n - b : first(k) >= over}
      <3>1. n - b \in T /\ T \subseteq Nat
        <4>1. n - b \in 0 .. n - b /\ b + (n - b) = n
          BY <1>0, <1>3, <1>5
        <4>2. first(n - b) = s[n] - s[b]
          BY <1>8, <4>1
        <4> QED BY <1>0, <2>1, <4>1, <4>2
      <3>2. PICK x \in T : \A y \in T : x <= y
        BY <3>1, LeastNatural
      <3>3. Enough(x) /\ x \in 0 .. n - b
        <4>1. ASSUME NEW j \in 0 .. x - 1
              PROVE  first(j) < over
          <5>1. j \in 0 .. n - b
            BY <2>1, <3>2
          <5>2. j \notin T
            BY <2>1, <3>2
          <5> QED BY <1>9, <5>1, <5>2
        <4> QED BY <3>2, <4>1
      <3>4. more \in 0 .. n - b /\ Enough(more)
        <4>1. more = CHOOSE k \in 0 .. n - b : Enough(k)
          BY <1>6, <2>3
        <4> HIDE DEF Enough, more
        <4> QED BY <3>3, <4>1
      <3> HIDE DEF more
      <3>5. s[n] - s[b + more] <= MaxTotal
        <4>1. first(more) = s[b + more] - s[b] /\ first(more) >= over /\ s[b + more] \in Nat
          BY <1>0, <1>1, <1>3, <1>5, <1>8, <3>4
        <4> HIDE DEF s, over
        <4> QED BY <1>0, <2>1, <4>1
      <3>6. ASSUME NEW j \in 0 .. more - 1
            PROVE  s[n] - s[b + j] > MaxTotal
        <4>1. j \in 0 .. n - b
          BY <2>1, <3>4
        <4>2. first(j) = s[b + j] - s[b] /\ first(j) < over /\ s[b + j] \in Nat
          BY <1>0, <1>1, <1>3, <1>5, <1>8, <3>4, <4>1
        <4> HIDE DEF s, over
        <4> QED BY <1>0, <2>1, <4>2
      <3> QED BY <3>4, <3>5, <3>6
    <2> QED BY <2>2, <2>3
  <1> HIDE DEF more, over
  <1> DEFINE W(k) == WithinLimits(Without(fs, k))
             a == b + more
  <1>11. a \in 0 .. n
    BY <1>0, <1>3, <1>5, <1>10
  <1>12. \A k \in 0 .. n : W(k) <=> old <= k /\ n - k <= MaxFiles /\ s[n] - s[k] <= MaxTotal
    BY <1>3, LimitsFacts
  <1>13. W(a)
    <2>1. old <= a /\ n - a <= MaxFiles
      BY <1>0, <1>3, <1>5, <1>10
    <2> HIDE DEF W
    <2> QED BY <1>10, <1>11, <1>12, <2>1
  <1>14. ASSUME NEW j \in 0 .. a - 1
         PROVE  ~W(j)
    <2>0. j \in 0 .. n
      BY <1>0, <1>11
    <2> HIDE DEF W
    <2>1. CASE j < old
      BY <1>0, <1>3, <1>12, <2>0, <2>1
    <2>2. CASE old <= j /\ j < b
      <3>1. b # old
        BY <1>3, <1>5, <2>2
      <3>2. excess # 0
        BY <1>3, <1>5, <3>1 DEF b
      <3>3. n - j > MaxFiles
        BY <1>0, <1>3, <1>5, <2>2, <3>2
      <3> QED BY <1>0, <1>12, <2>0, <3>3
    <2>3. CASE b <= j
      <3>1. j - b \in 0 .. more - 1 /\ b + (j - b) = j
        BY <1>0, <1>3, <1>5, <1>10, <2>3
      <3>2. s[n] - s[b + (j - b)] > MaxTotal
        BY <1>10, <3>1
      <3>3. s[n] - s[j] > MaxTotal /\ s[n] \in Nat /\ s[j] \in Nat
        BY <1>0, <1>1, <2>0, <3>1, <3>2
      <3> HIDE DEF s
      <3>4. ~(s[n] - s[j] <= MaxTotal)
        BY <1>0, <3>3
      <3> QED BY <1>12, <2>0, <3>4
    <2> QED BY <1>0, <1>3, <1>5, <2>1, <2>2, <2>3
  <1>15. Needed(fs) = a
    <2> DEFINE Smallest(k) == W(k) /\ \A j \in 0 .. k - 1 : ~W(j)
    <2>1. Needed(fs) = CHOOSE k \in 0 .. n : Smallest(k)
      BY DEF Needed
    <2>2. Smallest(a)
      BY <1>13, <1>14
    <2>3. ASSUME NEW k \in 0 .. n, Smallest(k)
          PROVE  k = a
      <3> HIDE DEF W, a
      <3>1. ~(a \in 0 .. k - 1) /\ ~(k \in 0 .. a - 1)
        BY <2>2, <2>3
      <3> QED BY <1>0, <1>11, <3>1
    <2> HIDE DEF Smallest, a
    <2> QED BY <1>11, <2>1, <2>2, <2>3
  <1>16. CleanupOldClips(fs) = a
    BY <1>2 DEF b
  <1> QED BY <1>11, <1>15, <1>16

\* What the clean-up finds: clips, the oldest first.
FilesInv == files \in Seq(Clip) /\ OldestFirst(files)

\* A clean-up of clips in order leaves clips in order, and as many as it should.
LEMMA CleanedKeeps ==
    ASSUME NEW fs \in Seq(Clip), OldestFirst(fs), Cleaned(fs)
    PROVE  FilesInv' /\ Retention'
  <1> DEFINE k == CleanupOldClips(fs)
             n == Len(fs)
  <1>1. files' = Without(fs, k) /\ dropped' = [k |-> k, needed |-> Needed(fs)]
    BY DEF Cleaned
  <1>2. k \in 0 .. n /\ k = Needed(fs) /\ n \in Nat
    BY CleanupExact, LenProperties
  <1> HIDE DEF k
  <1>3. Retention'
    BY <1>1, <1>2 DEF Retention
  <1>4. /\ files' \in Seq(Clip) /\ Len(files') = n - k
        /\ \A i \in 1 .. n - k : files'[i] = fs[k + i]
    BY <1>1, <1>2, WithoutFacts
  <1>5. OldestFirst(files')
    <2> SUFFICES ASSUME NEW i \in 1 .. n - k, NEW j \in 1 .. n - k, i < j
                 PROVE  files'[i].age >= files'[j].age
      BY <1>4 DEF OldestFirst
    <2>1. k + i \in 1 .. n /\ k + j \in 1 .. n /\ k + i < k + j
      BY <1>2
    <2> QED BY <1>4, <2>1 DEF OldestFirst
  <1> QED BY <1>3, <1>4, <1>5 DEF FilesInv

\* There are no clips at first.
LEMMA FilesInit == Init => FilesInv /\ Retention
  BY DEF Init, FilesInv, Retention, NoDrop, OldestFirst

\* Every step keeps the clips in order and deletes no more than it has to.
LEMMA FilesStep == RecorderInv /\ FilesInv /\ Retention /\ [Next]_vars => FilesInv' /\ Retention'
  <1> SUFFICES ASSUME RecorderInv, FilesInv, Retention, [Next]_vars
               PROVE  FilesInv' /\ Retention'
    OBVIOUS
  <1>0. TypeOK /\ files \in Seq(Clip) /\ OldestFirst(files)
    BY DEF RecorderInv, FilesInv
  <1>1. ASSUME UNCHANGED files, dropped' = NoDrop \/ UNCHANGED dropped
        PROVE  FilesInv' /\ Retention'
    BY <1>1 DEF FilesInv, Retention, NoDrop
  <1>2. CASE Time
    <2> DEFINE n == Len(files)
    <2>1. n \in Nat /\ DOMAIN files = 1 .. n /\ MaxAge \in Nat
      BY <1>0, LenProperties, RecorderAssumption
    <2>2. \A i \in 1 .. n : files[i] \in Clip
      BY <1>0, ElementOfSeq
    <2>3. files' = [i \in 1 .. n |-> [files[i] EXCEPT !.age = Older(@, MaxAge + 1)]]
      BY <1>2, <2>1 DEF Time
    <2>4. ASSUME NEW i \in 1 .. n
          PROVE  /\ files'[i] \in Clip
                 /\ files'[i].age = Older(files[i].age, MaxAge + 1)
                 /\ files[i].age \in 0 .. MaxAge + 1
      BY <2>1, <2>2, <2>3 DEF Clip, Older
    <2>5. files' \in Seq(Clip) /\ Len(files') = n
      <3>1. files' \in [1 .. n -> Clip]
        BY <2>3, <2>4
      <3> QED BY <2>1, <3>1, IsASeq, LenProperties
    <2>6. OldestFirst(files')
      <3> SUFFICES ASSUME NEW i \in 1 .. n, NEW j \in 1 .. n, i < j
                   PROVE  files'[i].age >= files'[j].age
        BY <2>5 DEF OldestFirst
      <3>1. files[i].age >= files[j].age
        BY <1>0 DEF OldestFirst
      <3> HIDE DEF n
      <3> QED BY <2>1, <2>4, <3>1 DEF Older
    <2> QED BY <1>2, <2>5, <2>6 DEF Time, NoClipGone, FilesInv, Retention, NoDrop
  <1>3. CASE CleanupTick
    BY <1>0, <1>3, CleanedKeeps DEF CleanupTick
  <1>4. ASSUME NEW saved \in BOOLEAN, NEW why, NEW bytes \in Nat, StopRecording(saved, why, bytes)
        PROVE  FilesInv' /\ Retention'
    <2>1. CASE ~saved
      BY <1>1, <1>4, <2>1 DEF StopRecording, disk
    <2>2. CASE saved
      <3> DEFINE new == [size |-> bytes, age |-> 0]
                 fs == Append(files, new)
                 n == Len(files)
      <3>0. n \in Nat /\ MaxAge \in Nat
        BY <1>0, LenProperties, RecorderAssumption
      <3>1. new \in Clip
        BY <3>0 DEF Clip
      <3>2. /\ fs \in Seq(Clip) /\ Len(fs) = n + 1
            /\ \A i \in 1 .. n : fs[i] = files[i]
            /\ fs[n + 1] = new
        <4> HIDE DEF new
        <4> QED BY <1>0, <3>1, AppendProperties
      <3>3. OldestFirst(fs)
        <4> SUFFICES ASSUME NEW i \in 1 .. n + 1, NEW j \in 1 .. n + 1, i < j
                     PROVE  fs[i].age >= fs[j].age
          BY <3>2 DEF OldestFirst
        <4>1. i \in 1 .. n /\ fs[i] = files[i] /\ files[i] \in Clip
          BY <1>0, <3>0, <3>2, ElementOfSeq
        <4>2. CASE j \in 1 .. n
          BY <1>0, <3>2, <4>1, <4>2 DEF OldestFirst
        <4>3. CASE j = n + 1
          BY <3>0, <3>2, <4>1, <4>3 DEF Clip
        <4> QED BY <3>0, <4>2, <4>3
      <3>4. Cleaned(fs)
        BY <1>4, <2>2 DEF StopRecording
      <3> HIDE DEF fs
      <3> QED BY <3>2, <3>3, <3>4, CleanedKeeps
    <2> QED BY <2>1, <2>2
  <1>5. size \in Nat /\ Grown \in Nat
    BY <1>0 DEF TypeOK, Grown
  <1>6. ASSUME NEW why \in {"size", "write"}, NEW saved \in BOOLEAN, OnNalLast(why, saved)
        PROVE  FilesInv' /\ Retention'
    BY <1>4, <1>5, <1>6 DEF OnNalLast
  <1>7. CASE Deadline
    BY <1>4, <1>5, <1>7 DEF Deadline, MaybeStopOnDeadline
  <1>8. ASSUME \/ \E r \in Rules : MotionStarts(r) \/ MotionEnds(r)
               \/ TakeMeta \/ OnMotionStateChange \/ OnNalIgnored \/ OnNal
               \/ \E nal \in {"sps", "pps"} : OnParameterSet(nal)
               \/ \E opened \in BOOLEAN : StartClip(opened)
        PROVE  UNCHANGED files /\ dropped' = NoDrop
    BY <1>8 DEF MotionStarts, MotionEnds, TakeMeta, OnMotionStateChange, OnNalIgnored, OnNal,
                OnParameterSet, StartClip, NoClipGone, disk
  <1>9. CASE UNCHANGED vars
    BY <1>1, <1>9 DEF vars, disk
  <1> QED BY <1>1, <1>2, <1>3, <1>6, <1>7, <1>8, <1>9 DEF Next, Nal

\* A clean-up deletes as many of the oldest clips as the limits ask for, no more.
THEOREM RetentionAlwaysExact == Spec => []Retention
  <1>1. Init => RecorderInv /\ FilesInv /\ Retention
    BY RecorderInit, FilesInit
  <1>2. (RecorderInv /\ MinDuration) /\ (FilesInv /\ Retention) /\ [Next]_vars
          => (RecorderInv /\ MinDuration)' /\ (FilesInv /\ Retention)'
    BY RecorderStep, FilesStep
  <1> QED BY <1>1, <1>2, RecorderInit, PTL DEF Spec

-----------------------------------------------------------------------------
(***************************************************************************)
(* The settings of the camera: the region sync, the night vision sync and   *)
(* the probe.                                                              *)
(***************************************************************************)

\* The first of some positions is one of them, and comes first.
LEMMA FirstOfFacts ==
    ASSUME NEW S, S \subseteq Nat, S # {}
    PROVE  FirstOf(S) \in S /\ \A j \in S : FirstOf(S) <= j
  BY LeastNatural, Zenon DEF FirstOf

\* The last of some positions is one of them.
LEMMA LastOfFacts ==
    ASSUME NEW n \in Nat, NEW S, S \subseteq 1 .. n, S # {}
    PROVE  LastOf(S) \in S
  <1> DEFINE T == {n - i : i \in S}
  <1>1. T \subseteq Nat /\ T # {}
    <2>1. \A i \in S : n - i \in Nat
      OBVIOUS
    <2>2. T \subseteq Nat
      BY <2>1
    <2>3. T # {}
      OBVIOUS
    <2> QED BY <2>2, <2>3
  <1> HIDE DEF T
  <1>2. PICK x \in T : \A y \in T : x <= y
    BY <1>1, LeastNatural
  <1> USE DEF T
  <1>3. PICK i \in S : x = n - i
    OBVIOUS
  <1>4. \A j \in S : j <= i
    BY <1>2, <1>3
  <1> QED BY <1>4, Zenon DEF LastOf

\* What the cameras are, and that each camera of the syncs is one of them.
LEMMA DeviceFacts ==
    /\ Len(Cams) \in Nat \ {0} /\ \A k \in 1 .. Len(Cams) : Cams[k] \in CamSet
    /\ \A c \in CamSet :
         /\ c \in DOMAIN Device
         /\ Device[c].services \in Seq([ns : Namespaces, xaddr : Text])
         /\ Device[c].profiles \in Seq([source : Text, analytics : Text])
         /\ Device[c].caps \in Seq(Text)
         /\ Device[c].fault200 \in BOOLEAN
         /\ Listed(Device[c].elements)
  <1>1. Cams \in Seq(DOMAIN Device) /\ Cams # <<>>
    BY SettingsAssumption DEF SettingsAssumption
  <1>2. Len(Cams) \in Nat \ {0} /\ \A k \in 1 .. Len(Cams) : Cams[k] \in DOMAIN Device
    BY <1>1, EmptySeq, LenProperties, ElementOfSeq
  <1>3. \A c \in CamSet : c \in DOMAIN Device
    BY <1>2 DEF CamSet
  <1>4. \A k \in 1 .. Len(Cams) : Cams[k] \in CamSet
    BY DEF CamSet
  <1> QED BY <1>2, <1>3, <1>4, SettingsAssumption DEF SettingsAssumption

\* The element the sync finds is one that fits, and it finds one if there is one.
LEMMA FindFacts ==
    ASSUME NEW s, Len(s) \in Nat
    PROVE  /\ FindTarget(s) = <<>> <=> \A i \in 1 .. Len(s) : ~Fits(s[i])
           /\ FindTarget(s) # <<>> =>
                \E i \in 1 .. Len(s) : FindTarget(s) = <<s[i]>> /\ Fits(s[i])
  <1> DEFINE at == {i \in 1 .. Len(s) : Fits(s[i])}
  <1>1. at \subseteq Nat
    OBVIOUS
  <1>2. FindTarget(s) = IF at = {} THEN <<>> ELSE <<s[FirstOf(at)]>>
    BY DEF FindTarget
  <1>3. at # {} => FirstOf(at) \in at
    <2> HIDE DEF at
    <2> QED BY <1>1, FirstOfFacts
  <1>4. at = {} <=> \A i \in 1 .. Len(s) : ~Fits(s[i])
    OBVIOUS
  <1>5. at # {} => FirstOf(at) \in 1 .. Len(s) /\ Fits(s[FirstOf(at)])
    BY <1>3
  <1> HIDE DEF at
  <1> QED BY <1>2, <1>4, <1>5

\* The probe finds a rule if one counts.
LEMMA ProbeFinds ==
    ASSUME NEW s, Len(s) \in Nat
    PROVE  ProbeTarget(s) = <<>>
             <=> \A i \in 1 .. Len(s) : ~(s[i].motionregion /\ PointCount(s[i]) > 0)
  BY DEF ProbeTarget

\* What the cameras answer.
LEMMA BodyFacts ==
    ASSUME NEW c
    PROVE  /\ BodyOf(c, "GetServices") = Device[c].services
           /\ BodyOf(c, "GetCapabilities") = Device[c].caps
           /\ BodyOf(c, "GetProfiles") = Device[c].profiles
           /\ BodyOf(c, "GetRules") = elements[c]["Rule"]
           /\ BodyOf(c, "GetAnalyticsModules") = elements[c]["AnalyticsModule"]
  BY DEF BodyOf

\* What a call of the syncs and one of the probe make of an answer.
LEMMA ReplyFacts ==
    ASSUME NEW c \in CamSet, NEW url, NEW ns, NEW op, NEW r \in Replies(c, url, ns, op)
    PROVE  /\ r.cut \in BOOLEAN
           /\ ~r.cut => (SoapCallOk(r) <=> Serves(c, url, ns))
           /\ SoapCallOk(r) /\ ~r.cut => ReadBody(r) = BodyOf(c, op)
           /\ r.cut => ReadBody(r) = <<>>
           /\ ~r.cut /\ Serves(c, url, ns) => SoapPostOk(r)
           /\ SoapPostOk(r) /\ ~r.cut /\ Serves(c, url, ns) => ReadBody(r) = BodyOf(c, op)
           /\ SoapPostOk(r) /\ ~Serves(c, url, ns) => Device[c].fault200 /\ ReadBody(r) = <<>>
  <1>0. Device[c].fault200 \in BOOLEAN
    BY DeviceFacts
  <1>1. CASE r = NoAnswer
    <2>1. ~SoapCallOk(r) /\ ~SoapPostOk(r) /\ r.cut = TRUE /\ ReadBody(r) = <<>>
      BY <1>1 DEF NoAnswer, SoapCallOk, SoapPostOk, ReadBody
    <2> QED BY <2>1
  <1>2. CASE r = Read(c, url, ns, op) /\ Serves(c, url, ns)
    <2>1. r = Answer(BodyOf(c, op))
      BY <1>2 DEF Read
    <2>2. r.cut = FALSE /\ SoapCallOk(r) /\ SoapPostOk(r) /\ ReadBody(r) = BodyOf(c, op)
      BY <2>1 DEF Answer, SoapCallOk, SoapPostOk, ReadBody
    <2> QED BY <1>2, <2>2
  <1>3. CASE r = Read(c, url, ns, op) /\ ~Serves(c, url, ns)
    <2>1. r = FaultOf(c)
      BY <1>3 DEF Read
    <2>2. ~SoapCallOk(r) /\ ReadBody(r) = <<>> /\ r.cut = FALSE
      BY <2>1 DEF FaultOf, SoapCallOk, ReadBody
    <2>3. SoapPostOk(r) => Device[c].fault200
      BY <1>0, <2>1 DEF FaultOf, SoapPostOk
    <2> QED BY <1>3, <2>2, <2>3
  <1>4. CASE r = Cut(Read(c, url, ns, op))
    <2>1. r.cut = TRUE /\ ReadBody(r) = <<>>
      BY <1>4 DEF Cut, Read, Answer, FaultOf, ReadBody
    <2>2. SoapPostOk(r) /\ ~Serves(c, url, ns) => Device[c].fault200
      <3>1. CASE ~Serves(c, url, ns)
        <4>1. r = Cut(FaultOf(c))
          BY <1>4, <3>1 DEF Read
        <4> QED BY <1>0, <4>1 DEF Cut, FaultOf, SoapPostOk
      <3> QED BY <3>1
    <2> QED BY <2>1, <2>2
  <1> QED BY <1>1, <1>2, <1>3, <1>4 DEF Replies

\* Failed calls are counted up to their bound.
LEMMA LostCounted ==
    ASSUME SettingsTypeOK
    PROVE  /\ \A c, url, ns, op : \A r \in Replies(c, url, ns, op) :
                CountLost(r) => /\ lost' \in 0 .. MaxLost
                                /\ lost' = 0 => lost = 0 /\ ~r.cut
           /\ \A end \in Ends :
                CountLostEnd(end) => /\ lost' \in 0 .. MaxLost
                                     /\ lost' = 0 => lost = 0 /\ end = "answered"
  <1>0. lost \in 0 .. MaxLost /\ MaxLost \in Nat
    BY SettingsAssumption DEF SettingsAssumption, SettingsTypeOK
  <1>1. ASSUME NEW c, NEW url, NEW ns, NEW op, NEW r \in Replies(c, url, ns, op), CountLost(r)
        PROVE  lost' \in 0 .. MaxLost /\ (lost' = 0 => lost = 0 /\ ~r.cut)
    <2>1. Read(c, url, ns, op).cut = FALSE
      BY DEF Read, Answer, FaultOf
    <2>2. r.cut => lost < MaxLost
      BY <2>1 DEF Replies
    <2> QED BY <1>0, <1>1, <2>2 DEF CountLost
  <1>2. ASSUME NEW end \in Ends, CountLostEnd(end)
        PROVE  lost' \in 0 .. MaxLost /\ (lost' = 0 => lost = 0 /\ end = "answered")
    <2>1. end # "answered" => lost < MaxLost
      BY DEF Ends
    <2> QED BY <1>0, <1>2, <2>1 DEF CountLostEnd
  <1> QED BY <1>1, <1>2

\* The texts the code itself puts in.
LEMMA TextFacts ==
    /\ Missing \in Text /\ ServiceUrl \in Text /\ Points \in Text
    /\ {"some", "not probed", "changed"} \subseteq Text
  BY SettingsAssumption DEF SettingsAssumption

\* Addresses and tokens are text.
LEMMA ParsedText ==
    /\ \A kinds : \A s \in Seq([ns : Namespaces, xaddr : Text]) :
         ParseServiceEndpoint(s, kinds) \in Text
    /\ \A s \in Seq([source : Text, analytics : Text]) :
         ParseFirstVideoSourceToken(s) \in Text /\ ParseAnalyticsToken(s) \in Text
    /\ ParseAnalyticsToken(<<>>) = Missing /\ ParseFirstVideoSourceToken(<<>>) = Missing
  <1>1. ASSUME NEW s \in Seq([ns : Namespaces, xaddr : Text]), NEW kinds
        PROVE  ParseServiceEndpoint(s, kinds) \in Text
    <2> DEFINE at == {i \in 1 .. Len(s) : s[i].ns \in kinds}
    <2>1. at # {} => FirstOf(at) \in at
      <3>1. at \subseteq Nat
        OBVIOUS
      <3> HIDE DEF at
      <3> QED BY <3>1, FirstOfFacts
    <2>2. \A i \in 1 .. Len(s) : s[i].xaddr \in Text
      <3>1. \A i \in 1 .. Len(s) : s[i] \in [ns : Namespaces, xaddr : Text]
        BY ElementOfSeq
      <3> QED BY <3>1
    <2>3. at # {} => s[FirstOf(at)].xaddr \in Text
      BY <2>1, <2>2
    <2>4. ParseServiceEndpoint(s, kinds) = IF at = {} \/ s[FirstOf(at)].xaddr = Missing
                                           THEN ServiceUrl ELSE s[FirstOf(at)].xaddr
      BY DEF ParseServiceEndpoint
    <2> HIDE DEF at
    <2> QED BY <2>3, <2>4, TextFacts
  <1>2. ASSUME NEW s \in Seq([source : Text, analytics : Text])
        PROVE  ParseFirstVideoSourceToken(s) \in Text /\ ParseAnalyticsToken(s) \in Text
    <2>1. \A i \in 1 .. Len(s) : s[i].source \in Text /\ s[i].analytics \in Text
      <3>1. \A i \in 1 .. Len(s) : s[i] \in [source : Text, analytics : Text]
        BY ElementOfSeq
      <3> QED BY <3>1
    <2>2. ASSUME NEW at, at \subseteq 1 .. Len(s), at # {}
          PROVE  FirstOf(at) \in 1 .. Len(s)
      <3>1. at \subseteq Nat
        BY <2>2
      <3> QED BY <2>2, <3>1, FirstOfFacts
    <2>3. ParseFirstVideoSourceToken(s) \in Text
      <3> DEFINE at == {i \in 1 .. Len(s) : s[i].source # Missing}
      <3>1. at \subseteq 1 .. Len(s)
        OBVIOUS
      <3>2. ParseFirstVideoSourceToken(s) = IF at = {} THEN Missing ELSE s[FirstOf(at)].source
        BY DEF ParseFirstVideoSourceToken
      <3> HIDE DEF at
      <3> QED BY <2>1, <2>2, <3>1, <3>2, TextFacts
    <2>4. ParseAnalyticsToken(s) \in Text
      <3> DEFINE at == {i \in 1 .. Len(s) : s[i].analytics # Missing}
      <3>1. at \subseteq 1 .. Len(s)
        OBVIOUS
      <3>2. ParseAnalyticsToken(s) = IF at = {} THEN Missing ELSE s[FirstOf(at)].analytics
        BY DEF ParseAnalyticsToken
      <3> HIDE DEF at
      <3> QED BY <2>1, <2>2, <3>1, <3>2, TextFacts
    <2> QED BY <2>3, <2>4
  <1>3. ParseAnalyticsToken(<<>>) = Missing /\ ParseFirstVideoSourceToken(<<>>) = Missing
    BY DEF ParseAnalyticsToken, ParseFirstVideoSourceToken
  <1> QED BY <1>1, <1>2, <1>3

\* Both syncs are at a camera until they are done, and the region sync has told
\* how it went with every earlier one.
TurnInv ==
    /\ night.pc = "done" <=> night.k = Len(Cams) + 1
    /\ region.pc = "done" <=> region.k = Len(Cams) + 1
    /\ Len(outcomes) = region.k - 1

\* The night vision sync goes on to its next request or to the next camera.
LEMMA NightStep ==
    ASSUME SettingsTypeOK, TurnInv, Night
    PROVE  SettingsTypeOK' /\ TurnInv'
  <1>0. Len(Cams) \in Nat \ {0} /\ lost \in 0 .. MaxLost
    BY DeviceFacts DEF SettingsTypeOK
  <1> DEFINE NightType == [k : 1 .. Len(Cams) + 1, pc : {"services", "profiles", "set", "done"},
                           media : Text, imaging : Text, token : Text]
  <1>1. night \in NightType
    BY DEF SettingsTypeOK
  <1>2. night.pc # "done" => NightCam \in CamSet
    BY <1>0, <1>1, DeviceFacts DEF TurnInv, NightCam
  <1>3. ASSUME night.pc # "done", NightNext
        PROVE  night' \in NightType /\ (night'.pc = "done" <=> night'.k = Len(Cams) + 1)
    <2>1. night.k \in 1 .. Len(Cams) /\ night.k + 1 \in 1 .. Len(Cams) + 1
      BY <1>0, <1>1, <1>3 DEF TurnInv
    <2>2. night' = [k |-> night.k + 1, pc |-> IF night.k = Len(Cams) THEN "done" ELSE "services",
                    media |-> Missing, imaging |-> Missing, token |-> Missing]
      BY <1>3 DEF NightNext
    <2>3. night' \in NightType
      BY <2>1, <2>2, TextFacts
    <2> QED BY <1>0, <2>1, <2>2, <2>3
  <1>4. SUFFICES /\ night' \in NightType
                 /\ night'.pc = "done" <=> night'.k = Len(Cams) + 1
                 /\ filter' \in [CamSet -> {"factory", "Auto", "Off", "On"}]
                 /\ lost' \in 0 .. MaxLost
    BY DEF Night, NightServices, NightProfiles, NightSet, SettingsTypeOK, TurnInv, RegionCam
  <1>5. CASE NightServices
    <2>1. PICK r \in Replies(NightCam, ServiceUrl, "device", "GetServices") :
             /\ CountLost(r)
             /\ IF SoapCallOk(r)
                THEN night' = [night EXCEPT !.pc = "profiles",
                                 !.media = ParseServiceEndpoint(ReadBody(r), {"media1", "media2"}),
                                 !.imaging = ParseServiceEndpoint(ReadBody(r), {"imaging"})]
                ELSE NightNext
      BY <1>5 DEF NightServices
    <2>2. lost' \in 0 .. MaxLost
      BY <2>1, LostCounted
    <2>3. NightCam \in CamSet /\ night.pc # "done"
      BY <1>2, <1>5 DEF NightServices
    <2>4. CASE SoapCallOk(r)
      <3>1. ReadBody(r) \in Seq([ns : Namespaces, xaddr : Text])
        <4>1. ReadBody(r) = BodyOf(NightCam, "GetServices") \/ ReadBody(r) = <<>>
          BY <2>1, <2>3, <2>4, ReplyFacts
        <4>2. BodyOf(NightCam, "GetServices") \in Seq([ns : Namespaces, xaddr : Text])
          BY <2>3, BodyFacts, DeviceFacts
        <4>3. <<>> \in Seq([ns : Namespaces, xaddr : Text])
          OBVIOUS
        <4> QED BY <4>1, <4>2, <4>3
      <3> DEFINE media == ParseServiceEndpoint(ReadBody(r), {"media1", "media2"})
                 imaging == ParseServiceEndpoint(ReadBody(r), {"imaging"})
      <3>2. media \in Text /\ imaging \in Text
        BY <3>1, ParsedText
      <3>3. night' = [night EXCEPT !.pc = "profiles", !.media = media, !.imaging = imaging]
        BY <2>1, <2>4
      <3> HIDE DEF media, imaging
      <3>4. night' \in NightType /\ night'.pc = "profiles" /\ night'.k = night.k
        BY <1>1, <3>2, <3>3
      <3> QED BY <1>5, <2>2, <2>3, <3>4 DEF NightServices, SettingsTypeOK, TurnInv
    <2>5. CASE ~SoapCallOk(r)
      BY <1>3, <1>5, <2>1, <2>2, <2>3, <2>5 DEF NightServices, SettingsTypeOK
    <2> QED BY <2>4, <2>5
  <1>6. CASE NightProfiles
    <2>1. PICK r \in Replies(NightCam, night.media, "media1", "GetProfiles") :
             /\ CountLost(r)
             /\ IF SoapCallOk(r) /\ ParseFirstVideoSourceToken(ReadBody(r)) # Missing
                THEN night' = [night EXCEPT !.pc = "set",
                                 !.token = ParseFirstVideoSourceToken(ReadBody(r))]
                ELSE NightNext
      BY <1>6 DEF NightProfiles
    <2>2. lost' \in 0 .. MaxLost
      BY <2>1, LostCounted
    <2>3. NightCam \in CamSet /\ night.pc # "done"
      BY <1>2, <1>6 DEF NightProfiles
    <2>4. CASE SoapCallOk(r) /\ ParseFirstVideoSourceToken(ReadBody(r)) # Missing
      <3>1. ReadBody(r) \in Seq([source : Text, analytics : Text])
        <4>1. ReadBody(r) = BodyOf(NightCam, "GetProfiles")
          BY <2>1, <2>3, <2>4, ReplyFacts, ParsedText
        <4> QED BY <2>3, <4>1, BodyFacts, DeviceFacts
      <3> DEFINE token == ParseFirstVideoSourceToken(ReadBody(r))
      <3>2. token \in Text
        BY <3>1, ParsedText
      <3>3. night' = [night EXCEPT !.pc = "set", !.token = token]
        BY <2>1, <2>4
      <3> HIDE DEF token
      <3>4. night' \in NightType /\ night'.pc = "set" /\ night'.k = night.k
        BY <1>1, <3>2, <3>3
      <3> QED BY <1>6, <2>2, <2>3, <3>4 DEF NightProfiles, SettingsTypeOK, TurnInv
    <2>5. CASE ~(SoapCallOk(r) /\ ParseFirstVideoSourceToken(ReadBody(r)) # Missing)
      BY <1>3, <1>6, <2>1, <2>2, <2>3, <2>5 DEF NightProfiles, SettingsTypeOK
    <2> QED BY <2>4, <2>5
  <1>7. CASE NightSet
    <2>1. night.pc # "done" /\ NightNext
      BY <1>7 DEF NightSet
    <2>2. lost' \in 0 .. MaxLost
      BY <1>7, LostCounted DEF NightSet
    <2>3. IrCutFilter(Mode) \in {"Auto", "Off", "On"}
      BY SettingsAssumption DEF SettingsAssumption, IrCutFilter
    <2>4. filter' \in [CamSet -> {"factory", "Auto", "Off", "On"}]
      BY <1>7, <2>3 DEF NightSet, SettingsTypeOK
    <2> QED BY <1>3, <2>1, <2>2, <2>4
  <1> QED BY <1>5, <1>6, <1>7 DEF Night

\* What the region sync knows is its camera's: the addresses, as long as no call was
\* lost, and in front of the last request the element, as it is there unless someone
\* has changed the camera.
RegionInv ==
    /\ region.pc \in {"profiles", "rules", "modules", "modify"} /\ lost = 0 =>
         region.ends[1] = DiscoverServices(Device[RegionCam].services)
    /\ region.pc = "modify" =>
         \E e \in Element :
            /\ region.target = <<e>> /\ Fits(e)
            /\ RegionCam \notin dirty =>
                 \E i \in 1 .. Len(elements[RegionCam][e.kind]) :
                    elements[RegionCam][e.kind][i] = e

\* Without edits by others the elements are the cameras' own, but for the region.
EditInv ==
    edits = 0 =>
      /\ dirty = {}
      /\ \A c \in CamSet, kind \in Kinds :
           LET own == Device[c].elements[kind]
               now == elements[c][kind]
           IN  /\ Len(now) = Len(own)
               /\ \A i \in 1 .. Len(own) :
                    \/ now[i] = own[i]
                    \/ Fits(own[i]) /\ now[i] = [own[i] EXCEPT !.polygon = Points]

\* A camera whose region the sync can set.
Settable(c) ==
    LET ends == DiscoverServices(Device[c].services)
        rules == Device[c].elements["Rule"]
    IN  /\ Serves(c, ServiceUrl, "device")
        /\ Serves(c, ends.media, ends.flavor)
        /\ ParseAnalyticsToken(Device[c].profiles) # Missing
        /\ Serves(c, ends.analytics, "analytics")
        /\ \E i \in 1 .. Len(rules) : Fits(rules[i])

Undisturbed == Points # Missing /\ lost = 0 /\ edits = 0

\* An undisturbed sync sets every camera it can set, by one of its rules.
KeptInv ==
    Undisturbed =>
      /\ \A j \in 1 .. Len(outcomes) : Settable(Cams[j]) => outcomes[j] = "success"
      /\ region.pc = "modules" => ~Settable(RegionCam)

RegionType ==
    [k : 1 .. Len(Cams) + 1,
     pc : {"services", "profiles", "rules", "modules", "modify", "done"},
     ends : {<<>>, <<DiscoverServices(<<>>)>>}
              \cup {<<DiscoverServices(Device[c].services)>> : c \in CamSet},
     token : Text, target : {<<>>} \cup {<<e>> : e \in Element}]

\* The sync tells how it went with a camera and goes on to the next.
LEMMA RegionGoesOn ==
    ASSUME SettingsTypeOK, TurnInv, KeptInv, region.pc # "done",
           NEW status \in {"success", "failed"}, RegionNext(status),
           edits' = edits, lost' = 0 => lost = 0,
           Undisturbed' /\ Settable(RegionCam) => status = "success"
    PROVE  /\ region' \in RegionType /\ outcomes' \in Seq({"success", "failed"})
           /\ region'.pc = "done" <=> region'.k = Len(Cams) + 1
           /\ Len(outcomes') = region'.k - 1
           /\ RegionInv' /\ KeptInv'
  <1>0. Len(Cams) \in Nat \ {0} /\ region \in RegionType
    BY DeviceFacts DEF SettingsTypeOK, RegionType
  <1>1. region.k \in 1 .. Len(Cams) /\ region.k + 1 \in 1 .. Len(Cams) + 1
    BY <1>0 DEF TurnInv, RegionType
  <1>2. region' = [k |-> region.k + 1, pc |-> IF region.k = Len(Cams) THEN "done" ELSE "services",
                   ends |-> <<>>, token |-> Missing, target |-> <<>>]
    BY DEF RegionNext
  <1>3. region' \in RegionType
    BY <1>1, <1>2, TextFacts DEF RegionType
  <1>4. /\ region'.k = region.k + 1 /\ region'.pc \in {"done", "services"}
        /\ region'.pc = "done" <=> region'.k = Len(Cams) + 1
    BY <1>0, <1>1, <1>2
  <1>5. outcomes \in Seq({"success", "failed"}) /\ outcomes' = Append(outcomes, status)
    BY DEF SettingsTypeOK, RegionNext
  <1>6. /\ outcomes' \in Seq({"success", "failed"}) /\ Len(outcomes') = Len(outcomes) + 1
        /\ \A j \in 1 .. Len(outcomes) : outcomes'[j] = outcomes[j]
        /\ outcomes'[Len(outcomes) + 1] = status
    BY <1>5, AppendProperties
  <1>7. Len(outcomes) = region.k - 1
    BY DEF TurnInv
  <1>8. RegionInv'
    BY <1>4 DEF RegionInv
  <1>9. ASSUME Undisturbed', NEW j \in 1 .. Len(outcomes'), Settable(Cams[j])
        PROVE  outcomes'[j] = "success"
    <2>1. Undisturbed
      BY <1>9 DEF Undisturbed
    <2>2. CASE j \in 1 .. Len(outcomes)
      BY <1>6, <1>9, <2>1, <2>2 DEF KeptInv
    <2>3. CASE j = Len(outcomes) + 1
      <3>1. j = region.k
        BY <1>1, <1>7, <2>3
      <3> QED BY <1>6, <1>9, <2>3, <3>1 DEF RegionCam
    <2>4. Len(outcomes) \in Nat
      BY <1>5, LenProperties
    <2> QED BY <1>6, <2>2, <2>3, <2>4
  <1>10. KeptInv'
    BY <1>4, <1>9 DEF KeptInv, Settable, Serves
  <1> QED BY <1>1, <1>3, <1>4, <1>6, <1>7, <1>8, <1>10

\* The sync is at one of the cameras.
LEMMA RegionCamera ==
    ASSUME SettingsTypeOK, TurnInv, region.pc # "done"
    PROVE  RegionCam \in CamSet /\ Listed(elements[RegionCam])
  <1>1. Len(Cams) \in Nat /\ region.k \in 1 .. Len(Cams) + 1 /\ region.k # Len(Cams) + 1
    BY DeviceFacts DEF SettingsTypeOK, TurnInv
  <1>2. region.k \in 1 .. Len(Cams)
    BY <1>1
  <1> QED BY <1>2, DeviceFacts DEF RegionCam, SettingsTypeOK

SyncInv == TurnInv /\ RegionInv /\ EditInv /\ KeptInv

\* What a request of the region sync has to leave behind.
LEMMA RegionRead ==
    ASSUME SettingsTypeOK, SyncInv, UNCHANGED <<night, probe, report, filter, elements, edits>>,
           dirty' \subseteq dirty, lost' \in 0 .. MaxLost,
           region' \in RegionType, outcomes' \in Seq({"success", "failed"}),
           region'.pc = "done" <=> region'.k = Len(Cams) + 1,
           Len(outcomes') = region'.k - 1, RegionInv', KeptInv'
    PROVE  SettingsTypeOK' /\ SyncInv'
  <1>1. SettingsTypeOK'
    BY DEF SettingsTypeOK, RegionType
  <1>2. EditInv'
    BY DEF SyncInv, EditInv, Fits, HasPolygon
  <1>3. TurnInv'
    BY DEF SyncInv, TurnInv
  <1> QED BY <1>1, <1>2, <1>3 DEF SyncInv

\* GetServices of the region sync.
LEMMA RegionServicesStep ==
    ASSUME SettingsTypeOK, SyncInv, RegionServices
    PROVE  SettingsTypeOK' /\ SyncInv'
  <1>0. region.pc = "services" /\ RegionCam \in CamSet /\ region \in RegionType
    BY RegionCamera DEF RegionServices, SyncInv, SettingsTypeOK, RegionType
  <1>1. PICK r \in Replies(RegionCam, ServiceUrl, "device", "GetServices") :
          /\ CountLost(r)
          /\ \/ /\ SoapCallOk(r)
                /\ region' = [region EXCEPT !.pc = "profiles", !.ends = <<DiscoverServices(ReadBody(r))>>]
                /\ UNCHANGED outcomes
             \/ ~SoapCallOk(r) /\ RegionNext("failed")
    BY DEF RegionServices
  <1>2. lost' \in 0 .. MaxLost /\ (lost' = 0 => lost = 0 /\ ~r.cut)
    BY <1>1, LostCounted
  <1>3. UNCHANGED <<night, probe, report, filter, elements, dirty, edits>>
    BY DEF RegionServices
  <1>4. CASE SoapCallOk(r)
    <2> DEFINE ends == <<DiscoverServices(ReadBody(r))>>
    <2>1. /\ ReadBody(r) = Device[RegionCam].services \/ ReadBody(r) = <<>>
          /\ ~r.cut => ReadBody(r) = Device[RegionCam].services
      BY <1>0, <1>4, ReplyFacts, BodyFacts
    <2>2. ends \in {<<>>, <<DiscoverServices(<<>>)>>}
                    \cup {<<DiscoverServices(Device[c].services)>> : c \in CamSet}
      BY <1>0, <2>1
    <2>3. region' = [region EXCEPT !.pc = "profiles", !.ends = ends] /\ outcomes' = outcomes
      BY <1>1, <1>4
    <2> HIDE DEF ends
    <2>4. /\ region' \in RegionType /\ region'.k = region.k /\ region'.pc = "profiles"
          /\ region'.ends = ends
      BY <1>0, <2>2, <2>3 DEF RegionType
    <2>5. RegionInv'
      <3>1. RegionCam' = RegionCam
        BY <2>4 DEF RegionCam
      <3>2. lost' = 0 => ends = <<DiscoverServices(Device[RegionCam].services)>>
        BY <1>2, <2>1 DEF ends
      <3> QED BY <2>4, <3>1, <3>2 DEF RegionInv
    <2>6. KeptInv'
      BY <1>2, <1>3, <2>3, <2>4 DEF SyncInv, KeptInv, Undisturbed, Settable, Serves
    <2>7. outcomes' \in Seq({"success", "failed"}) /\ Len(outcomes') = region'.k - 1
          /\ region'.pc # "done" /\ region'.k # Len(Cams) + 1
      BY <1>0, <2>3, <2>4 DEF SettingsTypeOK, SyncInv, TurnInv
    <2> QED BY <1>2, <1>3, <2>4, <2>5, <2>6, <2>7, RegionRead
  <1>5. CASE ~SoapCallOk(r)
    <2>1. Undisturbed' => ~Settable(RegionCam)
      BY <1>0, <1>2, <1>5, ReplyFacts DEF Undisturbed, Settable
    <2>2. RegionNext("failed") /\ region.pc # "done"
      BY <1>0, <1>1, <1>5
    <2> QED BY <1>2, <1>3, <2>1, <2>2, RegionGoesOn, RegionRead DEF SyncInv
  <1> QED BY <1>4, <1>5

\* GetProfiles of the region sync.
LEMMA RegionProfilesStep ==
    ASSUME SettingsTypeOK, SyncInv, RegionProfiles
    PROVE  SettingsTypeOK' /\ SyncInv'
  <1>0. region.pc = "profiles" /\ RegionCam \in CamSet /\ region \in RegionType
    BY RegionCamera DEF RegionProfiles, SyncInv, SettingsTypeOK, RegionType
  <1> DEFINE ends == region.ends[1]
             profiles == Device[RegionCam].profiles
  <1>e. lost = 0 => ends = DiscoverServices(Device[RegionCam].services)
    BY <1>0 DEF SyncInv, RegionInv
  <1> HIDE DEF ends
  <1>1. PICK r \in Replies(RegionCam, ends.media, ends.flavor, "GetProfiles") :
          \E token \in {IF SoapCallOk(r) THEN ParseAnalyticsToken(ReadBody(r)) ELSE Missing} :
            /\ CountLost(r)
            /\ \/ /\ token # Missing
                  /\ region' = [region EXCEPT !.pc = "rules", !.token = token]
                  /\ UNCHANGED outcomes
               \/ token = Missing /\ RegionNext("failed")
    BY DEF RegionProfiles, ends
  <1>2. lost' \in 0 .. MaxLost /\ (lost' = 0 => lost = 0 /\ ~r.cut)
    BY <1>1, LostCounted
  <1>3. UNCHANGED <<night, probe, report, filter, elements, dirty, edits>>
    BY DEF RegionProfiles
  <1>b. /\ SoapCallOk(r) /\ ~r.cut => ReadBody(r) = profiles
        /\ r.cut => ParseAnalyticsToken(ReadBody(r)) = Missing
    BY <1>0, ReplyFacts, BodyFacts, ParsedText
  <1>4. CASE SoapCallOk(r) /\ ~r.cut /\ ParseAnalyticsToken(profiles) # Missing
    <2> DEFINE token == ParseAnalyticsToken(profiles)
    <2>1. token \in Text
      BY <1>0, DeviceFacts, ParsedText
    <2>2. region' = [region EXCEPT !.pc = "rules", !.token = token] /\ outcomes' = outcomes
      BY <1>1, <1>4, <1>b
    <2> HIDE DEF token
    <2>4. /\ region' \in RegionType /\ region'.k = region.k /\ region'.pc = "rules"
          /\ region'.ends = region.ends
      BY <1>0, <2>1, <2>2 DEF RegionType
    <2>5. RegionInv'
      <3>1. RegionCam' = RegionCam
        BY <2>4 DEF RegionCam
      <3> QED BY <1>2, <1>e, <2>4, <3>1 DEF RegionInv, ends
    <2>6. KeptInv'
      BY <1>2, <1>3, <2>2, <2>4 DEF SyncInv, KeptInv, Undisturbed, Settable, Serves
    <2>7. outcomes' \in Seq({"success", "failed"}) /\ Len(outcomes') = region'.k - 1
          /\ region'.pc # "done" /\ region'.k # Len(Cams) + 1
      BY <1>0, <2>2, <2>4 DEF SettingsTypeOK, SyncInv, TurnInv
    <2> QED BY <1>2, <1>3, <2>4, <2>5, <2>6, <2>7, RegionRead
  <1>5. CASE ~(SoapCallOk(r) /\ ~r.cut /\ ParseAnalyticsToken(profiles) # Missing)
    <2>1. Undisturbed' => ~Settable(RegionCam)
      <3>1. ASSUME Undisturbed', Serves(RegionCam, ends.media, ends.flavor)
            PROVE  SoapCallOk(r) /\ ~r.cut
        BY <1>0, <1>2, <3>1, ReplyFacts DEF Undisturbed
      <3>2. Undisturbed' => ends = DiscoverServices(Device[RegionCam].services)
        BY <1>2, <1>e DEF Undisturbed
      <3> QED BY <1>5, <3>1, <3>2 DEF Settable
    <2>2. RegionNext("failed") /\ region.pc # "done"
      BY <1>0, <1>1, <1>5, <1>b
    <2> QED BY <1>2, <1>3, <2>1, <2>2, RegionGoesOn, RegionRead DEF SyncInv
  <1> QED BY <1>4, <1>5

\* What the lists of a camera hold.
LEMMA ListedFacts ==
    ASSUME NEW els, Listed(els), NEW kind \in Kinds
    PROVE  /\ els[kind] \in Seq(Element) /\ Len(els[kind]) \in Nat
           /\ \A i \in 1 .. Len(els[kind]) : els[kind][i] \in Element /\ els[kind][i].kind = kind
           /\ \A i, j \in 1 .. Len(els[kind]) : els[kind][i].name = els[kind][j].name => i = j
  <1>1. els[kind] \in Seq(Element)
    BY DEF Listed
  <1>2. Len(els[kind]) \in Nat /\ \A i \in 1 .. Len(els[kind]) : els[kind][i] \in Element
    BY <1>1, LenProperties, ElementOfSeq
  <1> QED BY <1>1, <1>2 DEF Listed

\* Without edits by others the elements that fit are those that fitted at first.
LEMMA OwnFits ==
    ASSUME EditInv, edits = 0, NEW c \in CamSet, NEW kind \in Kinds
    PROVE  LET own == Device[c].elements[kind]
               now == elements[c][kind]
           IN  /\ Len(now) = Len(own)
               /\ \A i \in 1 .. Len(own) :
                    /\ Fits(now[i]) => Fits(own[i])
                    /\ Points # Missing /\ Fits(own[i]) => Fits(now[i])
  <1> DEFINE own == Device[c].elements[kind]
             now == elements[c][kind]
  <1>1. /\ Len(now) = Len(own)
        /\ \A i \in 1 .. Len(own) :
             now[i] = own[i] \/ (Fits(own[i]) /\ now[i] = [own[i] EXCEPT !.polygon = Points])
    BY DEF EditInv
  <1>2. \A i \in 1 .. Len(own) : own[i] \in Element
    BY DeviceFacts, ListedFacts
  <1>3. ASSUME NEW e \in Element, Fits(e), Points # Missing
        PROVE  Fits([e EXCEPT !.polygon = Points])
    <2> DEFINE f == [e EXCEPT !.polygon = Points]
    <2>1. f.polygon = Points /\ f.motionregion = e.motionregion
      BY DEF Element
    <2>2. Points # "broken"
      BY SettingsAssumption DEF SettingsAssumption
    <2> HIDE DEF f
    <2>3. Fits(f)
      BY <1>3, <2>1, <2>2 DEF Fits, HasPolygon
    <2> QED BY <2>3 DEF f
  <1> QED BY <1>1, <1>2, <1>3

\* GetRules, or GetAnalyticsModules when no rule fits.
LEMMA RegionTargetStep ==
    ASSUME SettingsTypeOK, SyncInv, NEW at, NEW op, NEW otherwise, NEW kind \in Kinds,
           \/ at = "rules" /\ op = "GetRules" /\ otherwise = "modules" /\ kind = "Rule"
           \/ /\ at = "modules" /\ op = "GetAnalyticsModules" /\ otherwise = "fail"
              /\ kind = "AnalyticsModule",
           RegionTarget(at, op, otherwise)
    PROVE  SettingsTypeOK' /\ SyncInv'
  <1>0. /\ region.pc = at /\ region.pc \in {"rules", "modules"} /\ RegionCam \in CamSet
        /\ region \in RegionType /\ Listed(elements[RegionCam])
    BY RegionCamera DEF RegionTarget, SyncInv, SettingsTypeOK, RegionType
  <1> DEFINE ends == region.ends[1]
             list == elements[RegionCam][kind]
  <1>e. lost = 0 => ends = DiscoverServices(Device[RegionCam].services)
    BY <1>0 DEF SyncInv, RegionInv
  <1> HIDE DEF ends
  <1>1. PICK r \in Replies(RegionCam, ends.analytics, "analytics", op) :
          \E target \in {FindTarget(ReadBody(r))} :
            /\ CountLost(r)
            /\ \/ /\ SoapCallOk(r) /\ target # <<>>
                  /\ region' = [region EXCEPT !.pc = "modify", !.target = target]
                  /\ UNCHANGED outcomes
               \/ /\ SoapCallOk(r) /\ ~r.cut /\ target = <<>> /\ otherwise = "modules"
                  /\ region' = [region EXCEPT !.pc = "modules"]
                  /\ UNCHANGED outcomes
               \/ /\ ~SoapCallOk(r) \/ r.cut \/ (target = <<>> /\ otherwise = "fail")
                  /\ RegionNext("failed")
    BY DEF RegionTarget, ends
  <1>2. lost' \in 0 .. MaxLost /\ (lost' = 0 => lost = 0 /\ ~r.cut)
    BY <1>1, LostCounted
  <1>3. /\ UNCHANGED <<night, probe, report, filter, elements, edits>>
        /\ dirty' = dirty \ {RegionCam} /\ dirty' \subseteq dirty
    BY DEF RegionTarget
  <1>b. /\ SoapCallOk(r) /\ ~r.cut => ReadBody(r) = list
        /\ r.cut => FindTarget(ReadBody(r)) = <<>>
    <2>1. FindTarget(<<>>) = <<>>
      BY DEF FindTarget
    <2> QED BY <1>0, <2>1, ReplyFacts, BodyFacts
  <1>l. Len(list) \in Nat /\ \A i \in 1 .. Len(list) : list[i] \in Element /\ list[i].kind = kind
    BY <1>0, ListedFacts
  <1>r. ASSUME at = "rules", FindTarget(list) = <<>>, Undisturbed'
        PROVE  ~Settable(RegionCam)
    <2>1. Undisturbed /\ kind = "Rule"
      BY <1>2, <1>3, <1>r DEF Undisturbed
    <2>2. \A i \in 1 .. Len(list) : ~Fits(list[i])
      BY <1>l, <1>r, FindFacts
    <2>3. LET own == Device[RegionCam].elements["Rule"]
          IN  \A i \in 1 .. Len(own) : ~Fits(own[i])
      BY <1>0, <2>1, <2>2, OwnFits DEF SyncInv, Undisturbed
    <2> QED BY <2>3 DEF Settable
  <1>4. CASE SoapCallOk(r) /\ ~r.cut /\ FindTarget(list) # <<>>
    <2>1. PICK i \in 1 .. Len(list) : FindTarget(list) = <<list[i]>> /\ Fits(list[i])
      BY <1>4, <1>l, FindFacts
    <2> DEFINE e == list[i]
    <2>2. e \in Element /\ e.kind = kind /\ Fits(e) /\ e = list[i]
      BY <1>l, <2>1
    <2>3. region' = [region EXCEPT !.pc = "modify", !.target = <<e>>] /\ outcomes' = outcomes
      BY <1>1, <1>4, <1>b, <2>1
    <2> HIDE DEF e
    <2>4. /\ region' \in RegionType /\ region'.k = region.k /\ region'.pc = "modify"
          /\ region'.ends = region.ends /\ region'.target = <<e>>
      BY <1>0, <2>2, <2>3 DEF RegionType
    <2>5. RegionInv'
      <3>1. RegionCam' = RegionCam
        BY <2>4 DEF RegionCam
      <3>2. elements'[RegionCam][e.kind] = list
        BY <1>3, <2>2
      <3>3. \E j \in 1 .. Len(elements'[RegionCam][e.kind]) : elements'[RegionCam][e.kind][j] = e
        BY <2>2, <3>2
      <3> QED BY <1>2, <1>e, <2>2, <2>4, <3>1, <3>3 DEF RegionInv, ends, Fits, HasPolygon
    <2>6. KeptInv'
      BY <1>2, <1>3, <2>3, <2>4 DEF SyncInv, KeptInv, Undisturbed, Settable, Serves
    <2>7. outcomes' \in Seq({"success", "failed"}) /\ Len(outcomes') = region'.k - 1
          /\ region'.pc # "done" /\ region'.k # Len(Cams) + 1
      BY <1>0, <2>3, <2>4 DEF SettingsTypeOK, SyncInv, TurnInv
    <2> QED BY <1>2, <1>3, <2>4, <2>5, <2>6, <2>7, RegionRead
  <1>5. CASE SoapCallOk(r) /\ ~r.cut /\ FindTarget(list) = <<>> /\ otherwise = "modules"
    <2>1. region' = [region EXCEPT !.pc = "modules"] /\ outcomes' = outcomes
      BY <1>1, <1>5, <1>b
    <2>2. /\ region' \in RegionType /\ region'.k = region.k /\ region'.pc = "modules"
          /\ region'.ends = region.ends
      BY <1>0, <2>1 DEF RegionType
    <2>3. RegionCam' = RegionCam
      BY <2>2 DEF RegionCam
    <2>4. RegionInv'
      BY <1>2, <1>e, <2>2, <2>3 DEF RegionInv, ends
    <2>5. Undisturbed' => ~Settable(RegionCam)
      BY <1>0, <1>5, <1>r
    <2>6. KeptInv'
      BY <1>2, <1>3, <2>1, <2>3, <2>5 DEF SyncInv, KeptInv, Undisturbed, Settable, Serves
    <2>7. outcomes' \in Seq({"success", "failed"}) /\ Len(outcomes') = region'.k - 1
          /\ region'.pc # "done" /\ region'.k # Len(Cams) + 1
      BY <1>0, <2>1, <2>2 DEF SettingsTypeOK, SyncInv, TurnInv
    <2> QED BY <1>2, <1>3, <2>2, <2>4, <2>6, <2>7, RegionRead
  <1>6. CASE ~SoapCallOk(r) \/ r.cut \/ (FindTarget(list) = <<>> /\ otherwise = "fail")
    <2>1. ASSUME Undisturbed'
          PROVE  ~Settable(RegionCam)
      <3>1. CASE SoapCallOk(r)
        <4>1. region.pc = "modules" /\ Undisturbed
          BY <1>0, <1>2, <1>3, <1>6, <2>1, <3>1 DEF Undisturbed
        <4> QED BY <4>1 DEF SyncInv, KeptInv
      <3>2. CASE ~SoapCallOk(r)
        <4>1. ~Serves(RegionCam, ends.analytics, "analytics")
          BY <1>0, <1>2, <2>1, <3>2, ReplyFacts DEF Undisturbed
        <4>2. ends = DiscoverServices(Device[RegionCam].services)
          BY <1>2, <1>e, <2>1 DEF Undisturbed
        <4> QED BY <4>1, <4>2 DEF Settable
      <3> QED BY <3>1, <3>2
    <2>2. RegionNext("failed") /\ region.pc # "done"
      BY <1>0, <1>1, <1>6, <1>b
    <2> QED BY <1>2, <1>3, <2>1, <2>2, RegionGoesOn, RegionRead DEF SyncInv
  <1>7. otherwise \in {"modules", "fail"}
    OBVIOUS
  <1> QED BY <1>4, <1>5, <1>6, <1>7

\* An element replaced by another one of the same kind and name.
LEMMA ReplacedListed ==
    ASSUME NEW els, Listed(els), NEW kind \in Kinds, NEW i \in 1 .. Len(els[kind]),
           NEW f \in Element, f.kind = kind, f.name = els[kind][i].name
    PROVE  Listed([els EXCEPT ![kind] = [els[kind] EXCEPT ![i] = f]])
  <1> DEFINE new == [els[kind] EXCEPT ![i] = f]
             all == [els EXCEPT ![kind] = new]
  <1>1. new \in Seq(Element) /\ Len(new) = Len(els[kind])
    BY ListedFacts, ExceptSeq
  <1>2. \A j \in 1 .. Len(new) : new[j] = IF j = i THEN f ELSE els[kind][j]
    BY <1>1, ListedFacts
  <1> HIDE DEF new
  <1>3. all \in [Kinds -> Seq(Element)]
    BY <1>1 DEF Listed
  <1>4. ASSUME NEW k \in Kinds, NEW a \in 1 .. Len(all[k]), NEW b \in 1 .. Len(all[k])
        PROVE  all[k][a].kind = k /\ (all[k][a].name = all[k][b].name => a = b)
    <2>1. CASE k = kind
      <3>1. all[k] = new
        BY <2>1 DEF Listed
      <3>2. /\ new[a].kind = kind /\ new[a].name = els[kind][a].name
            /\ new[b].name = els[kind][b].name
        BY <1>1, <1>2, <1>4, <3>1, ListedFacts
      <3> QED BY <1>1, <1>4, <2>1, <3>1, <3>2, ListedFacts
    <2>2. CASE k # kind
      <3>1. all[k] = els[k]
        BY <2>2 DEF Listed
      <3> QED BY <1>4, <3>1, ListedFacts
    <2> QED BY <2>1, <2>2
  <1>5. Listed(all)
    BY <1>3, <1>4 DEF Listed
  <1> QED BY <1>5 DEF new

\* A name occurs once, so that a request changes one element.
LEMMA ModifiedOne ==
    ASSUME NEW els, Listed(els), NEW kind \in Kinds, NEW i \in 1 .. Len(els[kind]),
           NEW f \in Element, f.name = els[kind][i].name
    PROVE  Modified(els[kind], f) = [els[kind] EXCEPT ![i] = f]
  <1> DEFINE old == els[kind]
             new == [old EXCEPT ![i] = f]
             mod == Modified(old, f)
  <1>1. /\ old \in Seq(Element) /\ Len(old) \in Nat
        /\ \A j \in 1 .. Len(old) : old[j].name = old[i].name => j = i
    BY ListedFacts
  <1>2. DOMAIN old = 1 .. Len(old)
    BY <1>1, LenProperties
  <1>3. mod = [j \in 1 .. Len(old) |-> IF old[j].name = f.name THEN f ELSE old[j]]
    BY DEF Modified
  <1>4. new = [j \in 1 .. Len(old) |-> IF j = i THEN f ELSE old[j]]
    BY <1>2
  <1>5. \A j \in 1 .. Len(old) : old[j].name = f.name <=> j = i
    BY <1>1
  <1> HIDE DEF old, mod, new
  <1>6. mod = new
    BY <1>3, <1>4, <1>5
  <1> QED BY <1>6 DEF mod, new, old

\* Whether the sync takes what it gets of the camera's last answer for a success.
Heard(can, end) ==
    SoapCallOk(Got(end, IF can THEN Answer(<<>>) ELSE FaultOf(RegionCam)))

\* An answer that was read says what the camera did; one that was not is taken for
\* a success if its status is one.
LEMMA HeardFacts ==
    ASSUME NEW end \in Ends, NEW can \in BOOLEAN, RegionCam \in CamSet
    PROVE  /\ can /\ end = "answered" => Heard(can, end)
           /\ Heard(can, end) => end \in {"answered", "cut"}
           /\ Heard(can, end) /\ ~can => Device[RegionCam].fault200 /\ end = "cut"
  <1>0. Device[RegionCam].fault200 \in BOOLEAN
    BY DeviceFacts
  <1>1. end \in {"answered", "cut", "lost after", "lost before"}
    BY DEF Ends
  <1>2. CASE can
    <2>1. Heard(can, end) <=> SoapCallOk(Got(end, Answer(<<>>)))
      BY <1>2 DEF Heard
    <2> QED BY <1>1, <1>2, <2>1 DEF Got, Cut, Answer, NoAnswer, SoapCallOk
  <1>3. CASE ~can
    <2>1. Heard(can, end) <=> SoapCallOk(Got(end, FaultOf(RegionCam)))
      BY <1>3 DEF Heard
    <2> QED BY <1>0, <1>1, <1>3, <2>1 DEF Got, Cut, FaultOf, NoAnswer, SoapCallOk
  <1> QED BY <1>2, <1>3

\* What ModifyRules and ModifyAnalyticsModules do to the cameras.
LEMMA ModifyFacts ==
    ASSUME SettingsTypeOK, SyncInv, RegionModify
    PROVE  LET e == region.target[1]
               kind == e.kind
               body == [e EXCEPT !.polygon = Points]
           IN  /\ e \in Element /\ Fits(e) /\ kind \in Kinds /\ body \in Element
               /\ body.kind = kind /\ body.name = e.name /\ body.polygon = Points
               /\ RegionCam \in CamSet /\ Listed(elements[RegionCam])
               /\ RegionCam \notin dirty =>
                    \E i \in 1 .. Len(elements[RegionCam][kind]) : elements[RegionCam][kind][i] = e
               /\ \E end \in Ends :
                    /\ CountLostEnd(end)
                    /\ \/ /\ CanModify(RegionCam, body) /\ end # "lost before"
                          /\ elements' = [elements EXCEPT ![RegionCam][kind] = Modified(@, body)]
                       \/ ~CanModify(RegionCam, body) /\ elements' = elements
                       \/ end = "lost before" /\ elements' = elements
                    /\ RegionNext(IF Heard(CanModify(RegionCam, body), end)
                                  THEN "success" ELSE "failed")
  <1>0. region.pc = "modify"
    BY DEF RegionModify
  <1>1. RegionCam \in CamSet /\ Listed(elements[RegionCam])
    BY <1>0, RegionCamera DEF SyncInv
  <1>2. PICK e \in Element :
          /\ region.target = <<e>> /\ Fits(e)
          /\ RegionCam \notin dirty =>
               \E i \in 1 .. Len(elements[RegionCam][e.kind]) : elements[RegionCam][e.kind][i] = e
    BY <1>0 DEF SyncInv, RegionInv
  <1>3. region.target[1] = e
    BY <1>2
  <1> DEFINE body == [e EXCEPT !.polygon = Points]
  <1>4. /\ body \in Element /\ body.kind = e.kind /\ body.name = e.name /\ body.polygon = Points
        /\ e.kind \in Kinds
    BY TextFacts DEF Element
  <1>5. PICK end \in Ends :
          /\ CountLostEnd(end)
          /\ elements' = IF CanModify(RegionCam, body) /\ end # "lost before"
                         THEN [elements EXCEPT ![RegionCam][body.kind] = Modified(@, body)]
                         ELSE elements
          /\ RegionNext(IF Heard(CanModify(RegionCam, body), end)
                        THEN "success" ELSE "failed")
    BY <1>3 DEF RegionModify, ModifyBody, Heard
  <1> HIDE DEF body
  <1>6. body = [region.target[1] EXCEPT !.polygon = Points]
    BY <1>3 DEF body
  <1> QED BY <1>1, <1>2, <1>3, <1>4, <1>5, <1>6

\* The element a request changes is the one that was read, unless someone has
\* changed the camera.
LEMMA ChangedOne ==
    ASSUME NEW c, Listed(elements[c]), NEW e \in Element, NEW f \in Element, f.kind = e.kind,
           f.name = e.name, CanModify(c, f),
           c \notin dirty => \E i \in 1 .. Len(elements[c][e.kind]) : elements[c][e.kind][i] = e
    PROVE  \E i \in 1 .. Len(elements[c][e.kind]) :
             /\ elements[c][e.kind][i].name = f.name
             /\ Modified(elements[c][e.kind], f) = [elements[c][e.kind] EXCEPT ![i] = f]
             /\ c \notin dirty => elements[c][e.kind][i] = e
  <1>0. e.kind \in Kinds
    BY DEF Element
  <1>1. PICK i \in 1 .. Len(elements[c][e.kind]) : elements[c][e.kind][i].name = f.name
    BY DEF CanModify
  <1>2. Modified(elements[c][e.kind], f) = [elements[c][e.kind] EXCEPT ![i] = f]
    BY <1>0, <1>1, ModifiedOne
  <1>3. ASSUME c \notin dirty
        PROVE  elements[c][e.kind][i] = e
    <2>1. PICK j \in 1 .. Len(elements[c][e.kind]) : elements[c][e.kind][j] = e
      BY <1>3
    <2>2. j = i
      BY <1>0, <1>1, <2>1, ListedFacts
    <2> QED BY <2>1, <2>2
  <1> QED BY <1>1, <1>2, <1>3

\* The last request of the region sync.
LEMMA RegionModifyStep ==
    ASSUME SettingsTypeOK, SyncInv, RegionModify
    PROVE  SettingsTypeOK' /\ SyncInv'
  <1> DEFINE c == RegionCam
             e == region.target[1]
             kind == e.kind
             body == [e EXCEPT !.polygon = Points]
             can == CanModify(c, body)
  <1>0. /\ region.pc = "modify" /\ c \in CamSet /\ Listed(elements[c]) /\ region \in RegionType
        /\ e \in Element /\ Fits(e) /\ kind \in Kinds /\ body \in Element
        /\ body.kind = e.kind /\ body.name = e.name
        /\ c \notin dirty => \E i \in 1 .. Len(elements[c][kind]) : elements[c][kind][i] = e
    BY ModifyFacts DEF RegionModify, SettingsTypeOK, RegionType
  <1>1. PICK end \in Ends :
          /\ CountLostEnd(end)
          /\ \/ /\ can /\ end # "lost before"
                /\ elements' = [elements EXCEPT ![c][kind] = Modified(@, body)]
             \/ ~can /\ elements' = elements
             \/ end = "lost before" /\ elements' = elements
          /\ RegionNext(IF Heard(can, end) THEN "success" ELSE "failed")
    BY ModifyFacts
  <1>2. lost' \in 0 .. MaxLost /\ (lost' = 0 => lost = 0 /\ end = "answered")
    BY <1>1, LostCounted
  <1>3. UNCHANGED <<night, probe, report, filter, dirty, edits>>
    BY DEF RegionModify
  <1>t. DOMAIN elements = CamSet /\ \A d \in CamSet : Listed(elements[d])
    BY DEF SettingsTypeOK
  <1>4. /\ DOMAIN elements' = CamSet /\ \A d \in CamSet : Listed(elements'[d])
        /\ EditInv'
    <2>1. CASE elements' = elements
      BY <1>3, <1>t, <2>1 DEF SyncInv, EditInv, Fits, HasPolygon
    <2>2. CASE can /\ elements' = [elements EXCEPT ![c][kind] = Modified(@, body)]
      <3>1. PICK i \in 1 .. Len(elements[c][kind]) :
              /\ elements[c][kind][i].name = body.name
              /\ Modified(elements[c][kind], body) = [elements[c][kind] EXCEPT ![i] = body]
              /\ c \notin dirty => elements[c][kind][i] = e
        BY <1>0, <2>2, ChangedOne
      <3> DEFINE new == [elements[c][kind] EXCEPT ![i] = body]
                 all == [elements[c] EXCEPT ![kind] = new]
      <3>2. elements' = [elements EXCEPT ![c] = all]
        BY <1>t, <2>2, <3>1
      <3>3. Listed(all)
        BY <1>0, <3>1, ReplacedListed
      <3>4. DOMAIN elements' = CamSet /\ \A d \in CamSet : Listed(elements'[d])
        <4> HIDE DEF all
        <4> QED BY <1>t, <3>2, <3>3
      <3>5. ASSUME edits' = 0
            PROVE  EditInv'
        <4>1. edits = 0 /\ dirty = {} /\ EditInv
          BY <1>3, <3>5 DEF SyncInv, EditInv
        <4>2. elements[c][kind][i] = e
          BY <3>1, <4>1
        <4> DEFINE own == Device[c].elements[kind]
                   now == elements[c][kind]
        <4>3. /\ Len(now) = Len(own) /\ i \in 1 .. Len(own)
              /\ \A j \in 1 .. Len(own) :
                   now[j] = own[j] \/ (Fits(own[j]) /\ now[j] = [own[j] EXCEPT !.polygon = Points])
          BY <1>0, <4>1 DEF EditInv
        <4>4. own[i] \in Element
          BY <1>0, <4>3, DeviceFacts, ListedFacts
        <4>5. Fits(own[i]) /\ body = [own[i] EXCEPT !.polygon = Points]
          <5>1. CASE now[i] = own[i]
            BY <1>0, <4>2, <5>1
          <5>2. CASE Fits(own[i]) /\ now[i] = [own[i] EXCEPT !.polygon = Points]
            BY <4>2, <4>4, <5>2 DEF Element
          <5> QED BY <4>3, <5>1, <5>2
        <4>6. /\ Len(new) = Len(now)
              /\ \A j \in 1 .. Len(now) : new[j] = IF j = i THEN body ELSE now[j]
          BY <1>0, ListedFacts, ExceptSeq
        <4>7. elements'[c][kind] = new
          BY <1>0, <1>t, <3>2 DEF Listed
        <4>8. ASSUME NEW d \in CamSet, NEW k \in Kinds, d # c \/ k # kind
              PROVE  elements'[d][k] = elements[d][k]
          BY <1>0, <1>t, <3>2, <4>8 DEF Listed
        <4> HIDE DEF new
        <4>9. /\ Len(elements'[c][kind]) = Len(own)
              /\ \A j \in 1 .. Len(own) :
                   \/ elements'[c][kind][j] = own[j]
                   \/ /\ Fits(own[j])
                      /\ elements'[c][kind][j] = [own[j] EXCEPT !.polygon = Points]
          BY <4>3, <4>5, <4>6, <4>7
        <4> HIDE DEF own, now
        <4>10. ASSUME NEW d \in CamSet, NEW k \in Kinds
               PROVE  /\ Len(elements'[d][k]) = Len(Device[d].elements[k])
                      /\ \A j \in 1 .. Len(Device[d].elements[k]) :
                           \/ elements'[d][k][j] = Device[d].elements[k][j]
                           \/ /\ Fits(Device[d].elements[k][j])
                              /\ elements'[d][k][j] =
                                   [Device[d].elements[k][j] EXCEPT !.polygon = Points]
          <5>1. CASE d = c /\ k = kind
            BY <4>9, <5>1 DEF own
          <5>2. CASE d # c \/ k # kind
            BY <4>1, <4>8, <5>2 DEF EditInv
          <5> QED BY <5>1, <5>2
        <4> QED BY <1>3, <4>1, <4>10 DEF EditInv, Fits, HasPolygon
      <3>6. EditInv'
        BY <3>5 DEF EditInv
      <3> QED BY <3>4, <3>6
    <2> QED BY <1>1, <2>1, <2>2
  <1>5. Undisturbed' /\ Settable(c) => can /\ end = "answered"
    <2> SUFFICES ASSUME Undisturbed', Settable(c)
                 PROVE  can
      BY <1>2 DEF Undisturbed
    <2>1. dirty = {}
      BY <1>3 DEF Undisturbed, SyncInv, EditInv
    <2>2. \E i \in 1 .. Len(elements[c][kind]) : elements[c][kind][i].name = body.name
      BY <1>0, <2>1
    <2>3. region.ends[1] = DiscoverServices(Device[c].services)
      BY <1>0, <1>2 DEF SyncInv, RegionInv, Undisturbed
    <2> QED BY <1>0, <2>2, <2>3 DEF CanModify, Settable
  <1>6. /\ region' \in RegionType /\ outcomes' \in Seq({"success", "failed"})
        /\ region'.pc = "done" <=> region'.k = Len(Cams) + 1
        /\ Len(outcomes') = region'.k - 1
        /\ RegionInv' /\ KeptInv'
    <2> DEFINE status == IF Heard(can, end) THEN "success" ELSE "failed"
    <2>1. status \in {"success", "failed"} /\ RegionNext(status)
      BY <1>1
    <2>2. Undisturbed' /\ Settable(RegionCam) => status = "success"
      <3>1. can \in BOOLEAN
        BY DEF CanModify
      <3> QED BY <1>0, <1>5, <3>1, HeardFacts
    <2> HIDE DEF status
    <2> QED BY <1>0, <1>2, <1>3, <2>1, <2>2, RegionGoesOn DEF SyncInv
  <1>7. SettingsTypeOK'
    BY <1>2, <1>3, <1>4, <1>6 DEF SettingsTypeOK, RegionType
  <1>8. TurnInv'
    BY <1>3, <1>6 DEF SyncInv, TurnInv
  <1> QED BY <1>4, <1>6, <1>7, <1>8 DEF SyncInv

\* A list with one element taken out.
LEMMA RemovedListed ==
    ASSUME NEW els, Listed(els), NEW kind \in Kinds, NEW i \in 1 .. Len(els[kind])
    PROVE  Listed([els EXCEPT ![kind] = Removed(els[kind], i)])
  <1> DEFINE old == els[kind]
             new == Removed(old, i)
             all == [els EXCEPT ![kind] = new]
  <1>1. /\ Len(old) \in Nat /\ \A j \in 1 .. Len(old) : old[j] \in Element /\ old[j].kind = kind
        /\ \A a, b \in 1 .. Len(old) : old[a].name = old[b].name => a = b
    BY ListedFacts
  <1>2. /\ new = [j \in 1 .. Len(old) - 1 |-> IF j < i THEN old[j] ELSE old[j + 1]]
        /\ Len(old) - 1 \in Nat
    BY <1>1 DEF Removed
  <1> HIDE DEF old, new
  <1>3. \A j \in 1 .. Len(old) - 1 : new[j] \in Element
    BY <1>1, <1>2
  <1>4. new \in Seq(Element) /\ Len(new) = Len(old) - 1
    BY <1>2, <1>3, SeqDef
  <1>5. all \in [Kinds -> Seq(Element)]
    BY <1>4 DEF Listed
  <1>6. ASSUME NEW k \in Kinds, NEW a \in 1 .. Len(all[k]), NEW b \in 1 .. Len(all[k])
        PROVE  all[k][a].kind = k /\ (all[k][a].name = all[k][b].name => a = b)
    <2>1. CASE k = kind
      <3>1. all[k] = new
        BY <2>1 DEF Listed
      <3>2. a \in 1 .. Len(old) - 1 /\ b \in 1 .. Len(old) - 1
        BY <1>4, <1>6, <3>1
      <3> DEFINE At(j) == IF j < i THEN j ELSE j + 1
      <3>3. /\ At(a) \in 1 .. Len(old) /\ At(b) \in 1 .. Len(old)
            /\ At(a) = At(b) => a = b
        BY <1>1, <3>2 DEF old
      <3>4. new[a] = old[At(a)] /\ new[b] = old[At(b)]
        BY <1>2, <3>2
      <3> HIDE DEF At
      <3> QED BY <1>1, <2>1, <3>1, <3>3, <3>4
    <2>2. CASE k # kind
      <3>1. all[k] = els[k]
        BY <2>2 DEF Listed
      <3> QED BY <1>6, <3>1, ListedFacts
    <2> QED BY <2>1, <2>2
  <1>7. Listed(all)
    BY <1>5, <1>6 DEF Listed
  <1> QED BY <1>7 DEF new, old

\* Someone changes or removes an element.
LEMMA SomeoneEditsStep ==
    ASSUME SettingsTypeOK, SyncInv, SomeoneEdits
    PROVE  SettingsTypeOK' /\ SyncInv'
  <1>0. /\ edits < MaxEdits /\ edits' = edits + 1 /\ edits \in 0 .. MaxEdits /\ MaxEdits \in Nat
        /\ UNCHANGED <<night, region, outcomes, probe, report, filter, lost>>
    BY SettingsAssumption DEF SomeoneEdits, SettingsTypeOK, SettingsAssumption
  <1>1. PICK c \in CamSet, kind \in Kinds : \E i \in 1 .. Len(elements[c][kind]) :
          /\ dirty' = dirty \cup {c}
          /\ \/ elements' = [elements EXCEPT ![c][kind] = Removed(@, i)]
             \/ elements' = [elements EXCEPT ![c][kind][i].rest = "changed"]
    BY DEF SomeoneEdits
  <1>2. PICK i \in 1 .. Len(elements[c][kind]) :
          /\ dirty' = dirty \cup {c}
          /\ \/ elements' = [elements EXCEPT ![c][kind] = Removed(@, i)]
             \/ elements' = [elements EXCEPT ![c][kind][i].rest = "changed"]
    BY <1>1
  <1>t. DOMAIN elements = CamSet /\ \A d \in CamSet : Listed(elements[d])
    BY DEF SettingsTypeOK
  <1> DEFINE old == elements[c][kind]
             f == [old[i] EXCEPT !.rest = "changed"]
  <1>3. PICK all : elements' = [elements EXCEPT ![c] = all] /\ Listed(all)
    <2>1. old[i] \in Element /\ old[i].kind = kind
      BY <1>t, ListedFacts
    <2>2. f \in Element /\ f.kind = kind /\ f.name = old[i].name
      BY <2>1, TextFacts DEF Element
    <2>3. CASE elements' = [elements EXCEPT ![c][kind] = Removed(@, i)]
      <3>1. elements' = [elements EXCEPT ![c] = [elements[c] EXCEPT ![kind] = Removed(old, i)]]
        BY <1>t, <2>3
      <3>2. Listed([elements[c] EXCEPT ![kind] = Removed(old, i)])
        BY <1>t, RemovedListed
      <3> QED BY <3>1, <3>2
    <2>4. CASE elements' = [elements EXCEPT ![c][kind][i].rest = "changed"]
      <3>1. elements' = [elements EXCEPT ![c] = [elements[c] EXCEPT ![kind] = [old EXCEPT ![i] = f]]]
        BY <1>t, <2>4
      <3> HIDE DEF f
      <3>2. Listed([elements[c] EXCEPT ![kind] = [old EXCEPT ![i] = f]])
        BY <1>t, <2>2, ReplacedListed
      <3> QED BY <3>1, <3>2
    <2> QED BY <1>2, <2>3, <2>4
  <1>5. /\ DOMAIN elements' = CamSet /\ \A d \in CamSet : Listed(elements'[d])
        /\ \A d \in CamSet \ {c} : elements'[d] = elements[d]
    BY <1>t, <1>3
  <1>6. SettingsTypeOK'
    <2>1. edits' \in 0 .. MaxEdits /\ lost' \in 0 .. MaxLost
      BY <1>0 DEF SettingsTypeOK
    <2>2. dirty' \subseteq CamSet
      BY <1>2 DEF SettingsTypeOK
    <2> QED BY <1>0, <1>5, <2>1, <2>2 DEF SettingsTypeOK
  <1>7. TurnInv'
    BY <1>0 DEF SyncInv, TurnInv
  <1>8. RegionInv'
    <2>1. RegionCam' = RegionCam /\ region' = region
      BY <1>0 DEF RegionCam
    <2>2. ASSUME region.pc = "modify", RegionCam \notin dirty'
          PROVE  RegionCam \notin dirty /\ elements'[RegionCam] = elements[RegionCam]
      <3>1. RegionCam \in CamSet
        BY <2>2, RegionCamera DEF SyncInv
      <3> QED BY <1>2, <1>5, <2>2, <3>1
    <2> QED BY <1>0, <2>1, <2>2 DEF SyncInv, RegionInv, Fits, HasPolygon
  <1>9. edits' # 0
    BY <1>0
  <1> QED BY <1>6, <1>7, <1>8, <1>9 DEF SyncInv, EditInv, KeptInv, Undisturbed

\* What the steps of the others leave to the syncs.
LEMMA SyncFrame ==
    ASSUME SyncInv, UNCHANGED <<region, outcomes, elements, dirty, edits>>, TurnInv',
           lost' = 0 => lost = 0
    PROVE  SyncInv'
  <1>1. RegionInv'
    BY DEF SyncInv, RegionInv, RegionCam, Fits, HasPolygon
  <1>2. EditInv'
    BY DEF SyncInv, EditInv, Fits, HasPolygon
  <1>3. KeptInv'
    BY DEF SyncInv, KeptInv, Undisturbed, RegionCam, Settable, Serves
  <1> QED BY <1>1, <1>2, <1>3 DEF SyncInv

\* A lost call stays counted.
LEMMA NightLost ==
    ASSUME SettingsTypeOK, Night
    PROVE  lost' = 0 => lost = 0
  <1>1. CASE NightServices
    BY <1>1, LostCounted DEF NightServices
  <1>2. CASE NightProfiles
    BY <1>2, LostCounted DEF NightProfiles
  <1>3. CASE NightSet
    BY <1>3, LostCounted DEF NightSet
  <1> QED BY <1>1, <1>2, <1>3 DEF Night

\* The same of the region sync.
LEMMA RegionLost ==
    ASSUME SettingsTypeOK, Region
    PROVE  lost' = 0 => lost = 0
  <1>1. CASE RegionServices
    BY <1>1, LostCounted DEF RegionServices
  <1>2. CASE RegionProfiles
    BY <1>2, LostCounted DEF RegionProfiles
  <1>3. CASE RegionRules \/ RegionModules
    BY <1>3, LostCounted DEF RegionRules, RegionModules, RegionTarget
  <1>4. CASE RegionModify
    BY <1>4, LostCounted DEF RegionModify
  <1> QED BY <1>1, <1>2, <1>3, <1>4 DEF Region

\* The night vision sync does not disturb the region sync.
LEMMA NightKeeps ==
    ASSUME SettingsTypeOK, SyncInv, Night
    PROVE  SettingsTypeOK' /\ SyncInv'
  <1>1. SettingsTypeOK' /\ TurnInv'
    BY NightStep DEF SyncInv
  <1>2. UNCHANGED <<region, outcomes, elements, dirty, edits>>
    BY DEF Night, NightServices, NightProfiles, NightSet
  <1> QED BY <1>1, <1>2, NightLost, SyncFrame

ProbeType ==
    [cam : CamSet,
     pc : {"device", "services", "capabilities", "media", "events", "ptz",
           "analytics", "rules", "done"},
     services : {<<>>} \cup {Device[c].services : c \in CamSet},
     caps : SUBSET Text, token : Text, unread : BOOLEAN]

ReportType ==
    [done : BOOLEAN, ok : BOOLEAN, media : Text, events : Text, ptz : Text,
     motion : [supported : BOOLEAN, failed : BOOLEAN, name : Text],
     errors : SUBSET ({"media", "events", "ptz", "analytics"} \X Operations)]

\* A camera that gave the probe its analytics token.
Tokened(c) ==
    /\ Serves(c, ServiceUrl, "device")
    /\ Serves(c, Xaddr(Device[c].services, "media"), "media1")
    /\ ParseAnalyticsToken(Device[c].profiles) # Missing

\* Until its end the probe says nothing about the region; what it knows is what its
\* camera has told it, which without a device service is nothing, and which is all
\* as long as no call was lost.
ProbeReads ==
    /\ probe.pc # "done" => ~report.ok
    /\ probe.pc \notin {"rules", "done"} => probe.token = Missing
    /\ \/ probe.services = <<>> /\ probe.caps = {}
       \/ Serves(ProbeCam, ServiceUrl, "device")
    /\ probe.pc \in {"capabilities", "media", "events", "ptz", "analytics", "rules"}
         /\ Serves(ProbeCam, ServiceUrl, "device") /\ lost = 0 =>
            probe.services = Device[ProbeCam].services
    /\ probe.pc = "rules" /\ lost = 0 => Tokened(ProbeCam)

\* A report that says the region is supported, if no call was lost, comes from the
\* camera's analytics service, and from a rule the sync would take if both read
\* rules alike.
ProbeTells ==
    report.ok /\ report.motion.supported /\ lost = 0 =>
      /\ Tokened(ProbeCam)
      /\ Serves(ProbeCam, Xaddr(Device[ProbeCam].services, "analytics"), "analytics")
      /\ edits = 0 /\ WellFormed(ProbeCam) =>
           \E i \in 1 .. Len(Device[ProbeCam].elements["Rule"]) :
              Fits(Device[ProbeCam].elements["Rule"][i])

ProbeInv == ProbeReads /\ ProbeTells /\ (Points # Missing => ProbeRight)

\* What the steps of the others leave to the probe.
LEMMA ProbeFrame ==
    ASSUME ProbeInv, UNCHANGED <<probe, report>>, edits' = 0 => edits = 0,
           lost' = 0 => lost = 0
    PROVE  ProbeInv'
  <1>1. ProbeReads'
    BY DEF ProbeInv, ProbeReads, ProbeCam, Tokened, Serves
  <1>2. ProbeTells'
    BY DEF ProbeInv, ProbeTells, ProbeCam, Tokened, Serves, WellFormed, Fits, HasPolygon
  <1>3. Points # Missing => ProbeRight'
    BY DEF ProbeInv, ProbeRight, ProbeCam, Wanted
  <1> QED BY <1>1, <1>2, <1>3 DEF ProbeInv

\* What a request of the probe has to leave behind.
LEMMA ProbeGoesOn ==
    ASSUME SettingsTypeOK, SyncInv,
           UNCHANGED <<night, region, outcomes, filter, elements, dirty, edits>>,
           probe' \in ProbeType, report' \in ReportType,
           lost' \in 0 .. MaxLost, lost' = 0 => lost = 0
    PROVE  SettingsTypeOK' /\ SyncInv'
  <1>1. SettingsTypeOK'
    BY DEF SettingsTypeOK, ProbeType, ReportType
  <1>2. TurnInv'
    BY DEF SyncInv, TurnInv
  <1> QED BY <1>1, <1>2, SyncFrame

\* As long as the report says nothing about the region it says nothing wrong.
LEMMA NothingTold ==
    ASSUME ~report.ok
    PROVE  ProbeTells /\ ProbeRight
  BY DEF ProbeTells, ProbeRight

\* The same of the next state.
LEMMA NothingToldNext ==
    ASSUME ~report'.ok
    PROVE  ProbeTells' /\ ProbeRight'
  BY DEF ProbeTells, ProbeRight

\* The calls the probe cannot do without.
LEMMA ProbeMandatoryStep ==
    ASSUME SettingsTypeOK, SyncInv, ProbeInv, ProbeDevice \/ ProbeServices \/ ProbeCapabilities
    PROVE  SettingsTypeOK' /\ SyncInv' /\ ProbeInv'
  <1>0. /\ probe \in ProbeType /\ report \in ReportType /\ ProbeCam \in CamSet
        /\ probe.pc \in {"device", "services", "capabilities"}
        /\ ~report.ok /\ probe.token = Missing
    BY DEF SettingsTypeOK, ProbeType, ReportType, ProbeInv, ProbeReads, ProbeCam,
           ProbeDevice, ProbeServices, ProbeCapabilities, ProbeMandatory
  <1>1. PICK op \in {"GetDeviceInformation", "GetServices", "GetCapabilities"} :
          \E r \in Replies(ProbeCam, ServiceUrl, "device", op) :
            /\ CountLost(r)
            /\ \/ /\ SoapPostOk(r) /\ UNCHANGED report
                  /\ \/ /\ probe.pc = "device" /\ op = "GetDeviceInformation"
                        /\ probe' = [probe EXCEPT !.pc = "services"]
                     \/ /\ probe.pc = "services" /\ op = "GetServices"
                        /\ probe' = [probe EXCEPT !.pc = "capabilities", !.services = ReadBody(r)]
                     \/ /\ probe.pc = "capabilities" /\ op = "GetCapabilities"
                        /\ probe' = [probe EXCEPT !.pc = "media",
                                       !.caps = {ReadBody(r)[i] : i \in 1 .. Len(ReadBody(r))}]
               \/ /\ ~SoapPostOk(r)
                  /\ probe' = [probe EXCEPT !.pc = "done"]
                  /\ report' = [report EXCEPT !.done = TRUE]
    <2>1. CASE ProbeDevice
      BY <2>1 DEF ProbeDevice, ProbeMandatory
    <2>2. CASE ProbeServices
      BY <2>2 DEF ProbeServices, ProbeMandatory
    <2>3. CASE ProbeCapabilities
      BY <2>3 DEF ProbeCapabilities, ProbeMandatory
    <2> QED BY <2>1, <2>2, <2>3
  <1>2. PICK r \in Replies(ProbeCam, ServiceUrl, "device", op) :
            /\ CountLost(r)
            /\ \/ /\ SoapPostOk(r) /\ UNCHANGED report
                  /\ \/ /\ probe.pc = "device" /\ op = "GetDeviceInformation"
                        /\ probe' = [probe EXCEPT !.pc = "services"]
                     \/ /\ probe.pc = "services" /\ op = "GetServices"
                        /\ probe' = [probe EXCEPT !.pc = "capabilities", !.services = ReadBody(r)]
                     \/ /\ probe.pc = "capabilities" /\ op = "GetCapabilities"
                        /\ probe' = [probe EXCEPT !.pc = "media",
                                       !.caps = {ReadBody(r)[i] : i \in 1 .. Len(ReadBody(r))}]
               \/ /\ ~SoapPostOk(r)
                  /\ probe' = [probe EXCEPT !.pc = "done"]
                  /\ report' = [report EXCEPT !.done = TRUE]
    BY <1>1
  <1>3. lost' \in 0 .. MaxLost /\ (lost' = 0 => lost = 0 /\ ~r.cut)
    BY <1>2, LostCounted
  <1>4. UNCHANGED <<night, region, outcomes, filter, elements, dirty, edits>>
    BY DEF ProbeDevice, ProbeServices, ProbeCapabilities, ProbeMandatory
  <1>5. report' \in ReportType /\ ~report'.ok
    BY <1>0, <1>2 DEF ReportType
  <1>6. SUFFICES probe' \in ProbeType /\ ProbeReads'
    BY <1>3, <1>4, <1>5, ProbeGoesOn, NothingToldNext DEF ProbeInv
  <1>7. CASE ~SoapPostOk(r)
    <2>1. /\ probe' \in ProbeType /\ probe'.cam = probe.cam /\ probe'.pc = "done"
          /\ probe'.services = probe.services /\ probe'.caps = probe.caps
      BY <1>0, <1>2, <1>7 DEF ProbeType
    <2> QED BY <2>1 DEF ProbeInv, ProbeReads, ProbeCam, Serves
  <1>8. CASE SoapPostOk(r) /\ probe.pc = "device"
    <2>1. probe' = [probe EXCEPT !.pc = "services"]
      BY <1>2, <1>8
    <2>2. /\ probe' \in ProbeType /\ probe'.cam = probe.cam /\ probe'.pc = "services"
          /\ probe'.services = probe.services /\ probe'.caps = probe.caps
          /\ probe'.token = probe.token
      BY <1>0, <2>1 DEF ProbeType
    <2> QED BY <1>0, <1>5, <2>2 DEF ProbeInv, ProbeReads, ProbeCam, Serves
  <1>9. CASE SoapPostOk(r) /\ probe.pc = "services"
    <2>1. probe' = [probe EXCEPT !.pc = "capabilities", !.services = ReadBody(r)] /\ op = "GetServices"
      BY <1>2, <1>9
    <2>2. CASE Serves(ProbeCam, ServiceUrl, "device")
      <3>1. /\ ReadBody(r) = Device[ProbeCam].services \/ ReadBody(r) = <<>>
            /\ lost' = 0 => ReadBody(r) = Device[ProbeCam].services
        BY <1>0, <1>3, <1>9, <2>1, <2>2, ReplyFacts, BodyFacts
      <3>2. /\ probe' \in ProbeType /\ probe'.cam = probe.cam /\ probe'.pc = "capabilities"
            /\ probe'.services = ReadBody(r) /\ probe'.token = probe.token
        BY <1>0, <2>1, <3>1 DEF ProbeType
      <3> QED BY <1>0, <1>5, <2>2, <3>1, <3>2 DEF ProbeReads, ProbeCam, Serves
    <2>3. CASE ~Serves(ProbeCam, ServiceUrl, "device")
      <3>1. ReadBody(r) = <<>>
        BY <1>0, <1>9, <2>3, ReplyFacts
      <3>2. /\ probe' \in ProbeType /\ probe'.cam = probe.cam /\ probe'.pc = "capabilities"
            /\ probe'.services = <<>> /\ probe'.caps = probe.caps /\ probe'.token = probe.token
        BY <1>0, <2>1, <3>1 DEF ProbeType
      <3> QED BY <1>0, <1>5, <2>3, <3>2 DEF ProbeInv, ProbeReads, ProbeCam, Serves
    <2> QED BY <2>2, <2>3
  <1>10. CASE SoapPostOk(r) /\ probe.pc = "capabilities"
    <2> DEFINE caps == {ReadBody(r)[i] : i \in 1 .. Len(ReadBody(r))}
    <2>1. probe' = [probe EXCEPT !.pc = "media", !.caps = caps] /\ op = "GetCapabilities"
      BY <1>2, <1>10
    <2>2. CASE Serves(ProbeCam, ServiceUrl, "device")
      <3>1. ReadBody(r) = Device[ProbeCam].caps \/ ReadBody(r) = <<>>
        BY <1>0, <1>10, <2>1, <2>2, ReplyFacts, BodyFacts
      <3>2. caps \subseteq Text
        <4>1. Device[ProbeCam].caps \in Seq(Text) /\ <<>> \in Seq(Text)
          BY <1>0, DeviceFacts
        <4>2. ReadBody(r) \in Seq(Text)
          BY <3>1, <4>1
        <4> QED BY <4>2, ElementOfSeq
      <3> HIDE DEF caps
      <3>3. /\ probe' \in ProbeType /\ probe'.cam = probe.cam /\ probe'.pc = "media"
            /\ probe'.services = probe.services /\ probe'.token = probe.token
        BY <1>0, <2>1, <3>2 DEF ProbeType
      <3> QED BY <1>0, <1>3, <1>5, <1>10, <2>2, <3>3 DEF ProbeInv, ProbeReads, ProbeCam, Serves
    <2>3. CASE ~Serves(ProbeCam, ServiceUrl, "device")
      <3>1. ReadBody(r) = <<>>
        BY <1>0, <1>10, <2>3, ReplyFacts
      <3>2. caps = {}
        BY <3>1
      <3> HIDE DEF caps
      <3>3. /\ probe' \in ProbeType /\ probe'.cam = probe.cam /\ probe'.pc = "media"
            /\ probe'.services = probe.services /\ probe'.caps = {}
            /\ probe'.token = probe.token
        BY <1>0, <2>1, <3>2 DEF ProbeType
      <3> QED BY <1>0, <1>5, <1>10, <2>3, <3>3 DEF ProbeInv, ProbeReads, ProbeCam, Serves
    <2> QED BY <2>2, <2>3
  <1> QED BY <1>0, <1>7, <1>8, <1>9, <1>10

\* The sections of the report: at most the calls of one service fail.
LEMMA ProbeSectionStep ==
    ASSUME SettingsTypeOK, SyncInv, ProbeInv, NEW key, NEW ns, NEW ops, NEW next,
           key \in {"media", "events", "ptz"}, next \in {"events", "ptz", "analytics"},
           ops \subseteq Operations, IsFiniteSet(ops), ProbeSection(key, ns, ops, next)
    PROVE  SettingsTypeOK' /\ SyncInv' /\ ProbeInv'
  <1>0. /\ probe \in ProbeType /\ report \in ReportType /\ probe.pc = key /\ ~report.ok
        /\ probe.token = Missing /\ lost \in 0 .. MaxLost /\ MaxLost \in Nat
    BY SettingsAssumption DEF SettingsTypeOK, ProbeType, ReportType, ProbeInv, ProbeReads,
                              ProbeSection, SettingsAssumption
  <1>1. UNCHANGED <<night, region, outcomes, filter, elements, dirty, edits>>
    BY DEF ProbeSection
  <1>2. probe' = [probe EXCEPT !.pc = next]
    BY DEF ProbeSection
  <1>3. /\ probe' \in ProbeType /\ probe'.cam = probe.cam /\ probe'.pc = next
        /\ probe'.services = probe.services /\ probe'.caps = probe.caps
        /\ probe'.token = probe.token
    BY <1>0, <1>2 DEF ProbeType
  <1>4. /\ report' \in ReportType /\ ~report'.ok
        /\ lost' \in 0 .. MaxLost /\ (lost' = 0 => lost = 0)
    <2>1. CASE UNCHANGED <<report, lost>>
      BY <1>0, <2>1
    <2>2. CASE ~UNCHANGED <<report, lost>>
      <3>1. PICK failing \in SUBSET ops :
              \E ok \in {{op \in ops \ failing :
                            SoapPostOk(Read(ProbeCam, Xaddr(probe.services, key), ns, op))}} :
                 /\ lost + Cardinality(failing) <= MaxLost
                 /\ lost' = lost + Cardinality(failing)
                 /\ report' = [report EXCEPT
                                 ![key] = IF ok = {} THEN Missing ELSE "some",
                                 !.errors = @ \cup {<<key, op>> : op \in ops \ ok}]
        BY <2>2 DEF ProbeSection
      <3>2. Cardinality(failing) \in Nat
        BY FS_Subset, FS_CardinalityType
      <3>3. lost' \in 0 .. MaxLost /\ (lost' = 0 => lost = 0)
        <4> DEFINE n == Cardinality(failing)
        <4>1. lost + n <= MaxLost /\ lost' = lost + n
          BY <3>1
        <4> HIDE DEF n
        <4>2. n \in Nat
          BY <3>2 DEF n
        <4> QED BY <1>0, <4>1, <4>2
      <3> DEFINE Some(ok) == IF ok = {} THEN Missing ELSE "some"
                 Failed(ok) == {<<key, op>> : op \in ops \ ok}
      <3>4. PICK ok : report' = [report EXCEPT ![key] = Some(ok), !.errors = @ \cup Failed(ok)]
        BY <3>1
      <3>5. Some(ok) \in Text
        BY TextFacts
      <3>6. Failed(ok) \subseteq {"media", "events", "ptz", "analytics"} \X Operations
        OBVIOUS
      <3> HIDE DEF Some, Failed
      <3>7. report' \in ReportType /\ report'.ok = report.ok
        <4>1. CASE key = "media"
          BY <1>0, <3>4, <3>5, <3>6, <4>1 DEF ReportType
        <4>2. CASE key = "events"
          BY <1>0, <3>4, <3>5, <3>6, <4>2 DEF ReportType
        <4>3. CASE key = "ptz"
          BY <1>0, <3>4, <3>5, <3>6, <4>3 DEF ReportType
        <4> QED BY <4>1, <4>2, <4>3
      <3> QED BY <1>0, <3>3, <3>7
    <2> QED BY <2>1, <2>2
  <1>5. ProbeReads'
    BY <1>0, <1>3, <1>4 DEF ProbeInv, ProbeReads, ProbeCam, Serves
  <1> QED BY <1>1, <1>3, <1>4, <1>5, ProbeGoesOn, NothingToldNext DEF ProbeInv

\* The end of the probe.
LEMMA ProbeEndsTypes ==
    ASSUME SettingsTypeOK, NEW summary \in [supported : BOOLEAN, failed : BOOLEAN, name : Text],
           NEW errors \in SUBSET ({"media", "events", "ptz", "analytics"} \X Operations),
           NEW unread \in BOOLEAN, ProbeEnds(summary, errors, unread)
    PROVE  /\ probe' \in ProbeType /\ report' \in ReportType
           /\ probe'.cam = probe.cam /\ probe'.pc = "done" /\ probe'.token = probe.token
           /\ probe'.services = probe.services /\ probe'.caps = probe.caps
           /\ report'.ok = TRUE /\ report'.motion = summary /\ probe'.unread = unread
  <1>0. probe \in ProbeType /\ report \in ReportType
    BY DEF SettingsTypeOK, ProbeType, ReportType
  <1>1. /\ probe' = [probe EXCEPT !.pc = "done", !.unread = unread]
        /\ report' = [report EXCEPT !.done = TRUE, !.ok = TRUE, !.motion = summary,
                                    !.errors = @ \cup errors]
    BY DEF ProbeEnds
  <1>2. /\ probe' \in ProbeType /\ probe'.cam = probe.cam /\ probe'.pc = "done"
        /\ probe'.token = probe.token /\ probe'.unread = unread
        /\ probe'.services = probe.services /\ probe'.caps = probe.caps
    BY <1>0, <1>1 DEF ProbeType
  <1>3. report' \in ReportType /\ report'.ok = TRUE /\ report'.motion = summary
    BY <1>0, <1>1 DEF ReportType
  <1> QED BY <1>2, <1>3

\* The summaries the probe may end with.
LEMMA SummaryFacts ==
    LET Summary == [supported : BOOLEAN, failed : BOOLEAN, name : Text]
        Failed == [Unsupported EXCEPT !.failed = TRUE]
    IN  /\ Unsupported \in Summary /\ ~Unsupported.supported
        /\ NotProbed \in Summary /\ ~NotProbed.supported
        /\ Failed \in Summary /\ ~Failed.supported /\ Failed # Unsupported
        /\ \A name \in Text : [supported |-> TRUE, failed |-> FALSE, name |-> name] \in Summary
        /\ {<<"media", "GetProfiles">>, <<"analytics", "GetRules">>}
             \subseteq {"media", "events", "ptz", "analytics"} \X Operations
  <1> DEFINE Summary == [supported : BOOLEAN, failed : BOOLEAN, name : Text]
             Failed == [Unsupported EXCEPT !.failed = TRUE]
  <1>1. Unsupported \in Summary /\ ~Unsupported.supported
    BY TextFacts DEF Unsupported
  <1>2. NotProbed \in Summary /\ ~NotProbed.supported
    BY TextFacts DEF Unsupported, NotProbed
  <1>3. Failed \in Summary /\ ~Failed.supported /\ Failed # Unsupported
    BY TextFacts DEF Unsupported
  <1>4. \A name \in Text : [supported |-> TRUE, failed |-> FALSE, name |-> name] \in Summary
    OBVIOUS
  <1>5. {<<"media", "GetProfiles">>, <<"analytics", "GetRules">>}
          \subseteq {"media", "events", "ptz", "analytics"} \X Operations
    BY DEF Operations
  <1> QED BY <1>1, <1>2, <1>3, <1>4, <1>5

\* Without the analytics token the probe does not look at rules.
LEMMA ProbeAnalyticsStep ==
    ASSUME SettingsTypeOK, SyncInv, ProbeInv, ProbeAnalytics
    PROVE  SettingsTypeOK' /\ SyncInv' /\ ProbeInv'
  <1> DEFINE c == ProbeCam
             url == Xaddr(probe.services, "media")
             Failed == [Unsupported EXCEPT !.failed = TRUE]
  <1>0. /\ probe \in ProbeType /\ report \in ReportType /\ c \in CamSet
        /\ probe.pc = "analytics" /\ ~report.ok /\ probe.token = Missing
        /\ lost \in 0 .. MaxLost
    BY DEF SettingsTypeOK, ProbeType, ReportType, ProbeInv, ProbeReads, ProbeCam, ProbeAnalytics
  <1>1. UNCHANGED <<night, region, outcomes, filter, elements, dirty, edits>>
    BY DEF ProbeAnalytics
  <1>2. ASSUME NEW summary \in {Unsupported, NotProbed, Failed},
               NEW errors \in SUBSET ({"media", "events", "ptz", "analytics"} \X Operations),
               NEW unread \in BOOLEAN, ProbeEnds(summary, errors, unread)
        PROVE  probe' \in ProbeType /\ report' \in ReportType /\ ProbeInv'
    <2>1. summary \in [supported : BOOLEAN, failed : BOOLEAN, name : Text] /\ ~summary.supported
      BY SummaryFacts
    <2>2. /\ probe' \in ProbeType /\ report' \in ReportType
          /\ probe'.cam = probe.cam /\ probe'.pc = "done" /\ probe'.token = probe.token
          /\ probe'.services = probe.services /\ probe'.caps = probe.caps
          /\ report'.ok = TRUE /\ report'.motion = summary
      BY <1>2, <2>1, ProbeEndsTypes
    <2>3. ProbeReads'
      BY <2>2 DEF ProbeInv, ProbeReads, ProbeCam, Serves
    <2>4. ProbeTells' /\ ProbeRight'
      BY <1>0, <2>1, <2>2 DEF ProbeTells, ProbeRight
    <2> QED BY <2>2, <2>3, <2>4 DEF ProbeInv
  <1>3. CASE ~Wanted("analytics")
    <2>1. ProbeEnds(NotProbed, {}, FALSE) /\ UNCHANGED lost
      BY <1>3 DEF ProbeAnalytics
    <2>2. probe' \in ProbeType /\ report' \in ReportType /\ ProbeInv'
      BY <1>2, <2>1
    <2> QED BY <1>0, <1>1, <2>1, <2>2, ProbeGoesOn
  <1>4. CASE Wanted("analytics")
    <2>1. PICK r \in Replies(c, url, "media1", "GetProfiles") :
             /\ CountLost(r)
             /\ IF ~SoapPostOk(r)
                THEN ProbeEnds(Failed, {<<"media", "GetProfiles">>}, r.cut)
                ELSE IF ParseAnalyticsToken(ReadBody(r)) = Missing
                THEN ProbeEnds(Unsupported, {}, r.cut)
                ELSE /\ probe' = [probe EXCEPT !.pc = "rules",
                                    !.token = ParseAnalyticsToken(ReadBody(r))]
                     /\ UNCHANGED report
      BY <1>4 DEF ProbeAnalytics
    <2>2. lost' \in 0 .. MaxLost /\ (lost' = 0 => lost = 0)
      BY <2>1, LostCounted
    <2>b. r.cut \in BOOLEAN
      BY <1>0, <2>1, ReplyFacts
    <2>3. /\ Serves(c, ServiceUrl, "device")
          /\ lost = 0 => probe.services = Device[c].services
      <3>1. ~(probe.services = <<>> /\ probe.caps = {})
        BY <1>4 DEF Wanted, HasXaddr
      <3> QED BY <1>0, <3>1 DEF ProbeInv, ProbeReads
    <2>4. SUFFICES probe' \in ProbeType /\ report' \in ReportType /\ ProbeInv'
      BY <1>1, <2>2, ProbeGoesOn
    <2>5. CASE ~SoapPostOk(r)
      <3>1. {<<"media", "GetProfiles">>} \in
              SUBSET ({"media", "events", "ptz", "analytics"} \X Operations)
        BY SummaryFacts
      <3> QED BY <1>2, <2>1, <2>b, <2>5, <3>1
    <2>6. CASE SoapPostOk(r) /\ ParseAnalyticsToken(ReadBody(r)) = Missing
      BY <1>2, <2>1, <2>b, <2>6
    <2>7. CASE SoapPostOk(r) /\ ParseAnalyticsToken(ReadBody(r)) # Missing
      <3>1. Serves(c, url, "media1") /\ ~r.cut
        <4>1. ~Serves(c, url, "media1") \/ r.cut => ReadBody(r) = <<>>
          BY <1>0, <2>7, ReplyFacts
        <4> QED BY <2>7, <4>1, ParsedText
      <3>2. ReadBody(r) = Device[c].profiles
        BY <1>0, <2>7, <3>1, ReplyFacts, BodyFacts
      <3> DEFINE token == ParseAnalyticsToken(Device[c].profiles)
      <3>3. token \in Text /\ token # Missing
        BY <1>0, <2>7, <3>2, DeviceFacts, ParsedText
      <3>4. probe' = [probe EXCEPT !.pc = "rules", !.token = token] /\ report' = report
        BY <2>1, <2>7, <3>2
      <3>5. lost' = 0 => Tokened(c)
        BY <2>2, <2>3, <3>1, <3>3 DEF Tokened
      <3> HIDE DEF token
      <3>6. /\ probe' \in ProbeType /\ probe'.cam = probe.cam /\ probe'.pc = "rules"
            /\ probe'.services = probe.services /\ probe'.caps = probe.caps
        BY <1>0, <3>3, <3>4 DEF ProbeType
      <3>7. ProbeReads'
        BY <1>0, <2>2, <2>3, <3>4, <3>5, <3>6 DEF ProbeReads, ProbeCam, Serves, Tokened
      <3>8. ProbeTells' /\ ProbeRight'
        BY <1>0, <3>4, NothingToldNext
      <3> QED BY <1>0, <3>4, <3>6, <3>7, <3>8 DEF ProbeInv
    <2> QED BY <2>5, <2>6, <2>7
  <1> QED BY <1>3, <1>4

\* The rules the probe finds, and those it does not find, are the sync's.
LEMMA ProbeRulesStep ==
    ASSUME SettingsTypeOK, SyncInv, ProbeInv, ProbeRules
    PROVE  SettingsTypeOK' /\ SyncInv' /\ ProbeInv'
  <1> DEFINE c == ProbeCam
             url == Xaddr(probe.services, "analytics")
             Failed == [Unsupported EXCEPT !.failed = TRUE]
             now == elements[c]["Rule"]
             own == Device[c].elements["Rule"]
             Summary == [supported : BOOLEAN, failed : BOOLEAN, name : Text]
             Errors == SUBSET ({"media", "events", "ptz", "analytics"} \X Operations)
  <1>0. /\ probe \in ProbeType /\ report \in ReportType /\ c \in CamSet
        /\ probe.pc = "rules" /\ lost \in 0 .. MaxLost /\ Listed(elements[c])
        /\ Listed(Device[c].elements) /\ "Rule" \in Kinds
    BY DeviceFacts DEF SettingsTypeOK, ProbeType, ReportType, ProbeInv, ProbeReads, ProbeCam,
                       ProbeRules, Kinds
  <1>1. UNCHANGED <<night, region, outcomes, filter, elements, dirty, edits>>
    BY DEF ProbeRules
  <1>2. lost = 0 => Tokened(c) /\ probe.services = Device[c].services
    BY <1>0 DEF ProbeInv, ProbeReads, Tokened
  <1>3. PICK r \in Replies(c, url, "analytics", "GetRules") :
          /\ CountLost(r)
          /\ IF ~SoapPostOk(r)
             THEN ProbeEnds(Failed, {<<"analytics", "GetRules">>}, r.cut)
             ELSE IF ProbeTarget(ReadBody(r)) = <<>>
             THEN ProbeEnds(Unsupported, {}, r.cut)
             ELSE ProbeEnds([supported |-> TRUE, failed |-> FALSE,
                             name |-> ProbeTarget(ReadBody(r))[1].name], {}, r.cut)
    BY DEF ProbeRules
  <1>4. lost' \in 0 .. MaxLost /\ (lost' = 0 => lost = 0)
    BY <1>3, LostCounted
  <1>5. SUFFICES probe' \in ProbeType /\ report' \in ReportType /\ ProbeInv'
    BY <1>1, <1>4, ProbeGoesOn
  <1>b. r.cut \in BOOLEAN
    BY <1>0, ReplyFacts
  <1>6. ASSUME NEW summary \in Summary, NEW errors \in Errors, ProbeEnds(summary, errors, r.cut),
               summary.supported =>
                 /\ Serves(c, url, "analytics")
                 /\ edits = 0 /\ WellFormed(c) => \E i \in 1 .. Len(own) : Fits(own[i]),
               (/\ summary = Unsupported /\ Points # Missing /\ edits = 0
                /\ ~r.cut /\ ~Device[c].fault200) => FindTarget(own) = <<>>
        PROVE  probe' \in ProbeType /\ report' \in ReportType /\ ProbeInv'
    <2>1. /\ probe' \in ProbeType /\ report' \in ReportType
          /\ probe'.cam = probe.cam /\ probe'.pc = "done"
          /\ probe'.services = probe.services /\ probe'.caps = probe.caps
          /\ report'.ok = TRUE /\ report'.motion = summary /\ probe'.unread = r.cut
      BY <1>b, <1>6, ProbeEndsTypes
    <2>2. ProbeReads'
      BY <2>1 DEF ProbeInv, ProbeReads, ProbeCam, Serves
    <2>3. ProbeTells'
      BY <1>1, <1>2, <1>4, <1>6, <2>1 DEF ProbeTells, ProbeCam, Tokened, Serves, WellFormed, Fits, HasPolygon
    <2>4. Points # Missing => ProbeRight'
      BY <1>1, <1>6, <2>1 DEF ProbeRight, ProbeCam
    <2> QED BY <2>1, <2>2, <2>3, <2>4 DEF ProbeInv
  <1>7. CASE ~SoapPostOk(r)
    <2>1. ProbeEnds(Failed, {<<"analytics", "GetRules">>}, r.cut)
      BY <1>3, <1>7
    <2>2. Failed \in Summary /\ ~Failed.supported /\ Failed # Unsupported
          /\ {<<"analytics", "GetRules">>} \in Errors
      BY SummaryFacts
    <2> HIDE DEF Failed, Summary, Errors
    <2> QED BY <1>6, <2>1, <2>2
  <1>8. Serves(c, url, "analytics") /\ SoapPostOk(r) /\ ~r.cut => ReadBody(r) = now
    BY <1>0, ReplyFacts, BodyFacts
  <1>9. /\ Len(now) \in Nat /\ Len(own) \in Nat
        /\ \A i \in 1 .. Len(now) : now[i] \in Element
        /\ \A i \in 1 .. Len(own) : own[i] \in Element
    BY <1>0, ListedFacts
  <1>10. CASE SoapPostOk(r) /\ ProbeTarget(ReadBody(r)) = <<>>
    <2>1. ProbeEnds(Unsupported, {}, r.cut)
      BY <1>3, <1>10
    <2>2. Unsupported \in Summary /\ ~Unsupported.supported /\ {} \in Errors
      BY SummaryFacts
    <2>3. ASSUME Points # Missing, edits = 0, ~r.cut, ~Device[c].fault200
          PROVE  FindTarget(own) = <<>>
      <3>1. ReadBody(r) = now
        BY <1>0, <1>8, <1>10, <2>3, ReplyFacts
      <3>2. \A i \in 1 .. Len(now) : ~(now[i].motionregion /\ PointCount(now[i]) > 0)
        BY <1>9, <1>10, <3>1, ProbeFinds
      <3>3. \A i \in 1 .. Len(now) : ~Fits(now[i])
        BY <3>2 DEF Fits, HasPolygon, PointCount
      <3>4. \A i \in 1 .. Len(own) : ~Fits(own[i])
        BY <1>0, <2>3, <3>3, OwnFits DEF SyncInv
      <3> QED BY <1>9, <3>4, FindFacts
    <2> HIDE DEF Summary, Errors
    <2> QED BY <1>6, <2>1, <2>2, <2>3
  <1>11. CASE SoapPostOk(r) /\ ProbeTarget(ReadBody(r)) # <<>>
    <2> DEFINE at == {i \in 1 .. Len(ReadBody(r)) : ReadBody(r)[i].motionregion /\ PointCount(ReadBody(r)[i]) > 0}
    <2>1. Serves(c, url, "analytics") /\ ReadBody(r) = now
      <3>1. ~Serves(c, url, "analytics") \/ r.cut => ReadBody(r) = <<>>
        BY <1>0, <1>11, ReplyFacts
      <3>2. ProbeTarget(<<>>) = <<>>
        BY DEF ProbeTarget
      <3> QED BY <1>8, <1>11, <3>1, <3>2
    <2>2. PICK i \in 1 .. Len(now) : now[i].motionregion /\ PointCount(now[i]) > 0
      BY <1>9, <1>11, <2>1, ProbeFinds
    <2>3. ASSUME edits = 0, WellFormed(c)
          PROVE  \E j \in 1 .. Len(own) : Fits(own[j])
      <3>1. /\ i \in 1 .. Len(own)
            /\ now[i] = own[i] \/ Fits(own[i])
        BY <1>0, <2>2, <2>3 DEF SyncInv, EditInv
      <3>2. CASE now[i] = own[i]
        <4>1. ~own[i].loose /\ own[i].polygon # "broken"
          BY <2>3, <3>1 DEF WellFormed
        <4>2. Fits(own[i])
          BY <2>2, <3>2, <4>1 DEF Fits, HasPolygon, PointCount
        <4> QED BY <3>1, <4>2
      <3> QED BY <3>1, <3>2
    <2> DEFINE name == ProbeTarget(ReadBody(r))[1].name
               summary == [supported |-> TRUE, failed |-> FALSE, name |-> name]
    <2>4. name \in Text
      <3>1. ProbeTarget(ReadBody(r)) = <<now[FirstOf(at)]>> /\ at # {}
        BY <1>11, <2>1 DEF ProbeTarget
      <3>2. at \subseteq 1 .. Len(now) /\ at \subseteq Nat
        BY <1>9, <2>1
      <3> HIDE DEF at
      <3>3. now[FirstOf(at)] \in Element
        BY <1>9, <3>1, <3>2, FirstOfFacts
      <3> QED BY <3>1, <3>3 DEF Element
    <2>5. ProbeEnds(summary, {}, r.cut) /\ summary.supported
      BY <1>3, <1>11
    <2> HIDE DEF name
    <2>6. summary \in Summary /\ summary # Unsupported /\ {} \in Errors
      BY <2>4 DEF Unsupported
    <2> HIDE DEF summary, Summary, Errors
    <2> QED BY <1>6, <2>1, <2>3, <2>5, <2>6
  <1> QED BY <1>7, <1>10, <1>11

\* On a camera that lists its services as WellListed says, the sync asks the
\* analytics service the probe asked, and a media service that answers.
LEMMA AddressesAgree ==
    ASSUME NEW c \in CamSet, WellListed(c),
           Serves(c, Xaddr(Device[c].services, "media"), "media1")
    PROVE  LET ends == DiscoverServices(Device[c].services)
           IN  /\ ends.analytics = Xaddr(Device[c].services, "analytics")
               /\ Serves(c, ends.media, ends.flavor)
  <1> DEFINE list == Device[c].services
             ends == DiscoverServices(list)
             At(ns) == {i \in 1 .. Len(list) : list[i].ns = ns /\ list[i].xaddr # Missing}
             Keyed(key) == {i \in 1 .. Len(list) : Key(list[i].ns) = key}
  <1>0. Len(list) \in Nat /\ \A i \in 1 .. Len(list) : list[i].ns \in Namespaces
    <2>1. list \in Seq([ns : Namespaces, xaddr : Text])
      BY DeviceFacts
    <2>2. Len(list) \in Nat /\ \A i \in 1 .. Len(list) : list[i] \in [ns : Namespaces, xaddr : Text]
      BY <2>1, LenProperties, ElementOfSeq
    <2> QED BY <2>2
  <1>1. /\ ends.analytics = IF At("analytics") = {} THEN ServiceUrl
                            ELSE list[LastOf(At("analytics"))].xaddr
        /\ ends.media = IF At("media2") # {} THEN list[LastOf(At("media2"))].xaddr
                        ELSE IF At("media1") # {} THEN list[FirstOf(At("media1"))].xaddr
                        ELSE ServiceUrl
        /\ ends.flavor = IF At("media2") # {} THEN "media2" ELSE "media1"
    BY DEF DiscoverServices
  <1>2. \A key : Xaddr(list, key) = IF Keyed(key) = {} \/ list[LastOf(Keyed(key))].xaddr = Missing
                                    THEN ServiceUrl ELSE list[LastOf(Keyed(key))].xaddr
    BY DEF Xaddr
  <1>3. \A i \in 1 .. Len(list) :
          /\ Key(list[i].ns) = "media" <=> list[i].ns \in {"media1", "media2"}
          /\ Key(list[i].ns) = "analytics" <=> list[i].ns = "analytics"
    BY <1>0 DEF Key, Namespaces
  <1>4. \A i, j \in 1 .. Len(list) :
          /\ list[i].ns \in {"media1", "media2"} =>
               list[i].xaddr # Missing /\ Serves(c, list[i].xaddr, list[i].ns)
          /\ (list[i].ns = "analytics" /\ list[j].ns = "analytics") =>
               (list[i].xaddr = Missing <=> list[j].xaddr = Missing)
    BY DEF WellListed
  <1>5. \A ns : /\ At(ns) \subseteq 1 .. Len(list)
                /\ At(ns) # {} => LastOf(At(ns)) \in At(ns) /\ FirstOf(At(ns)) \in At(ns)
    <2> SUFFICES ASSUME NEW ns
                 PROVE  /\ At(ns) \subseteq 1 .. Len(list)
                        /\ At(ns) # {} => LastOf(At(ns)) \in At(ns) /\ FirstOf(At(ns)) \in At(ns)
      OBVIOUS
    <2>1. At(ns) \subseteq 1 .. Len(list) /\ At(ns) \subseteq Nat
      OBVIOUS
    <2> HIDE DEF At
    <2> QED BY <1>0, <2>1, FirstOfFacts, LastOfFacts
  <1>6. \A key : Keyed(key) # {} => LastOf(Keyed(key)) \in Keyed(key)
    <2> SUFFICES ASSUME NEW key, Keyed(key) # {}
                 PROVE  LastOf(Keyed(key)) \in Keyed(key)
      OBVIOUS
    <2>1. Keyed(key) \subseteq 1 .. Len(list)
      OBVIOUS
    <2> HIDE DEF Keyed
    <2> QED BY <1>0, <2>1, LastOfFacts
  <1>7. ends.analytics = Xaddr(list, "analytics")
    <2>1. CASE At("analytics") = {}
      <3>1. \A i \in Keyed("analytics") : list[i].xaddr = Missing
        BY <1>3, <2>1
      <3>2. ends.analytics = ServiceUrl
        BY <1>1, <2>1
      <3> HIDE DEF Keyed, At
      <3> QED BY <1>2, <1>6, <3>1, <3>2
    <2>2. CASE At("analytics") # {}
      <3>1. Keyed("analytics") = At("analytics")
        BY <1>3, <1>4, <2>2
      <3>2. list[LastOf(At("analytics"))].xaddr # Missing
        BY <1>5, <2>2
      <3> HIDE DEF Keyed, At
      <3> QED BY <1>1, <1>2, <2>2, <3>1, <3>2
    <2> QED BY <2>1, <2>2
  <1>8. Serves(c, ends.media, ends.flavor)
    <2>1. CASE At("media2") # {}
      <3> DEFINE i == LastOf(At("media2"))
      <3>1. i \in 1 .. Len(list) /\ list[i].ns = "media2"
        BY <1>5, <2>1
      <3>2. ends.media = list[i].xaddr /\ ends.flavor = "media2"
        BY <1>1, <2>1
      <3> HIDE DEF i
      <3> QED BY <1>4, <3>1, <3>2
    <2>2. CASE At("media2") = {} /\ At("media1") # {}
      <3> DEFINE i == FirstOf(At("media1"))
      <3>1. i \in 1 .. Len(list) /\ list[i].ns = "media1"
        BY <1>5, <2>2
      <3>2. ends.media = list[i].xaddr /\ ends.flavor = "media1"
        BY <1>1, <2>2
      <3> HIDE DEF i
      <3> QED BY <1>4, <3>1, <3>2
    <2>3. CASE At("media2") = {} /\ At("media1") = {}
      <3>1. Keyed("media") = {}
        BY <1>3, <1>4, <2>3
      <3>2. Xaddr(list, "media") = ServiceUrl
        BY <1>2, <3>1
      <3>3. ends.media = ServiceUrl /\ ends.flavor = "media1"
        BY <1>1, <2>3
      <3> QED BY <3>2, <3>3
    <2> QED BY <2>1, <2>2, <2>3
  <1> QED BY <1>7, <1>8

SettingsInv == SettingsTypeOK /\ SyncInv /\ ProbeInv

\* A promise of the probe is one the sync keeps.
LEMMA PromiseKept ==
    ASSUME SettingsInv, Points # Missing
    PROVE  ProbeKept
  <1> DEFINE i == CHOOSE i \in 1 .. Len(Cams) : Cams[i] = ProbeCam
             c == ProbeCam
  <1>1. c \in CamSet
    BY DEF SettingsInv, SettingsTypeOK, ProbeCam
  <1>2. i \in 1 .. Len(Cams) /\ Cams[i] = c
    BY <1>1, Zenon DEF CamSet
  <1> HIDE DEF i
  <1>3. ASSUME report.ok, report.motion.supported, Len(outcomes) >= i, lost = 0, edits = 0,
               WellFormed(c), WellListed(c)
        PROVE  outcomes[i] = "success"
    <2>1. /\ Tokened(c)
          /\ Serves(c, Xaddr(Device[c].services, "analytics"), "analytics")
          /\ \E j \in 1 .. Len(Device[c].elements["Rule"]) : Fits(Device[c].elements["Rule"][j])
      BY <1>3 DEF SettingsInv, ProbeInv, ProbeTells
    <2>2. LET ends == DiscoverServices(Device[c].services)
          IN  /\ ends.analytics = Xaddr(Device[c].services, "analytics")
              /\ Serves(c, ends.media, ends.flavor)
      BY <1>1, <1>3, <2>1, AddressesAgree DEF Tokened
    <2>3. Settable(Cams[i])
      BY <1>2, <2>1, <2>2 DEF Settable, Tokened
    <2>4. Undisturbed
      BY <1>3 DEF Undisturbed
    <2>5. i \in 1 .. Len(outcomes)
      <3>1. Len(outcomes) \in Nat
        BY LenProperties DEF SettingsInv, SettingsTypeOK
      <3> QED BY <1>2, <1>3, <3>1
    <2> QED BY <2>3, <2>4, <2>5 DEF SettingsInv, SyncInv, KeptInv
  <1> QED BY <1>3 DEF ProbeKept, i

\* Before anything is asked, nothing is told.
LEMMA SettingsStart ==
    ASSUME SettingsInit
    PROVE  SettingsInv
  <1>0. Len(Cams) \in Nat \ {0} /\ 1 \in 1 .. Len(Cams) + 1 /\ MaxLost \in Nat /\ MaxEdits \in Nat
    <2>1. Len(Cams) \in Nat \ {0}
      BY DeviceFacts
    <2>2. MaxLost \in Nat /\ MaxEdits \in Nat
      BY SettingsAssumption DEF SettingsAssumption
    <2> QED BY <2>1, <2>2
  <1>1. /\ night \in [k : 1 .. Len(Cams) + 1, pc : {"services", "profiles", "set", "done"},
                      media : Text, imaging : Text, token : Text]
        /\ night.k = 1 /\ night.pc = "services"
    BY <1>0, TextFacts DEF SettingsInit
  <1>2. region \in RegionType /\ region.k = 1 /\ region.pc = "services"
    BY <1>0, TextFacts DEF SettingsInit, RegionType
  <1>3. outcomes \in Seq({"success", "failed"}) /\ Len(outcomes) = 0
    BY DEF SettingsInit
  <1>4. /\ probe \in ProbeType /\ probe.pc = "device" /\ probe.services = <<>> /\ probe.caps = {}
        /\ probe.token = Missing
    BY TextFacts DEF SettingsInit, ProbeType
  <1>5. report \in ReportType /\ ~report.ok
    <2>1. NotProbed \in [supported : BOOLEAN, failed : BOOLEAN, name : Text]
      BY SummaryFacts
    <2> QED BY <2>1, TextFacts DEF SettingsInit, ReportType
  <1>6. /\ filter \in [CamSet -> {"factory", "Auto", "Off", "On"}]
        /\ elements = [c \in CamSet |-> Device[c].elements]
        /\ dirty = {} /\ lost = 0 /\ edits = 0
    BY DEF SettingsInit
  <1>7. SettingsTypeOK
    <2>1. DOMAIN elements = CamSet /\ \A c \in CamSet : Listed(elements[c])
      BY <1>6, DeviceFacts
    <2> QED BY <1>0, <1>1, <1>2, <1>3, <1>4, <1>5, <1>6, <2>1
            DEF SettingsTypeOK, RegionType, ProbeType, ReportType
  <1>8. SyncInv
    <2>1. TurnInv
      BY <1>0, <1>1, <1>2, <1>3 DEF TurnInv
    <2>2. RegionInv
      BY <1>2 DEF RegionInv
    <2>3. EditInv
      BY <1>6 DEF EditInv
    <2>4. KeptInv
      BY <1>2, <1>3 DEF KeptInv
    <2> QED BY <2>1, <2>2, <2>3, <2>4 DEF SyncInv
  <1>9. ProbeReads
    BY <1>4, <1>5 DEF ProbeReads
  <1> QED BY <1>5, <1>7, <1>8, <1>9, NothingTold DEF SettingsInv, ProbeInv

\* Every step of the syncs, of the probe and of someone else.
LEMMA SettingsStep ==
    ASSUME SettingsInv, [SettingsNext]_settingsVars
    PROVE  SettingsInv'
  <1> USE DEF SettingsInv
  <1>1. CASE Night
    <2>1. UNCHANGED <<probe, report, edits>>
      BY <1>1 DEF Night, NightServices, NightProfiles, NightSet
    <2> QED BY <1>1, <2>1, NightKeeps, NightLost, ProbeFrame
  <1>2. CASE Region
    <2>1. UNCHANGED <<probe, report, edits>>
      BY <1>2 DEF Region, RegionServices, RegionProfiles, RegionRules, RegionModules,
                  RegionTarget, RegionModify
    <2>2. SettingsTypeOK' /\ SyncInv'
      <3>1. CASE RegionServices
        BY <3>1, RegionServicesStep
      <3>2. CASE RegionProfiles
        BY <3>2, RegionProfilesStep
      <3>3. CASE RegionRules
        BY <3>3, RegionTargetStep DEF RegionRules, Kinds
      <3>4. CASE RegionModules
        BY <3>4, RegionTargetStep DEF RegionModules, Kinds
      <3>5. CASE RegionModify
        BY <3>5, RegionModifyStep
      <3> QED BY <1>2, <3>1, <3>2, <3>3, <3>4, <3>5 DEF Region
    <2> QED BY <1>2, <2>1, <2>2, RegionLost, ProbeFrame
  <1>3. CASE Probe
    <2>1. CASE ProbeDevice \/ ProbeServices \/ ProbeCapabilities
      BY <2>1, ProbeMandatoryStep
    <2>2. CASE ProbeMedia
      <3> DEFINE ops == {"GetProfiles", "GetVideoEncoderConfigurations"}
      <3>1. ops \subseteq Operations
        BY DEF Operations
      <3>2. IsFiniteSet(ops)
        <4>1. IsFiniteSet({"GetProfiles"})
          BY FS_Singleton
        <4>2. IsFiniteSet({"GetProfiles"} \cup {"GetVideoEncoderConfigurations"})
          BY <4>1, FS_AddElement
        <4>3. ops = {"GetProfiles"} \cup {"GetVideoEncoderConfigurations"}
          OBVIOUS
        <4> QED BY <4>2, <4>3
      <3>3. ProbeSection("media", "media1", ops, "events")
        BY <2>2 DEF ProbeMedia
      <3> HIDE DEF ops
      <3> QED BY <3>1, <3>2, <3>3, ProbeSectionStep
    <2>3. CASE ProbeEvents
      <3> DEFINE ops == {"GetEventProperties"}
      <3>1. ops \subseteq Operations
        BY DEF Operations
      <3>2. IsFiniteSet(ops)
        BY FS_Singleton
      <3>3. ProbeSection("events", "events", ops, "ptz")
        BY <2>3 DEF ProbeEvents
      <3> HIDE DEF ops
      <3> QED BY <3>1, <3>2, <3>3, ProbeSectionStep
    <2>4. CASE ProbePtz
      <3> DEFINE ops == {"GetNodes", "GetConfigurations"}
      <3>1. ops \subseteq Operations
        BY DEF Operations
      <3>2. IsFiniteSet(ops)
        <4>1. IsFiniteSet({"GetNodes"})
          BY FS_Singleton
        <4>2. IsFiniteSet({"GetNodes"} \cup {"GetConfigurations"})
          BY <4>1, FS_AddElement
        <4>3. ops = {"GetNodes"} \cup {"GetConfigurations"}
          OBVIOUS
        <4> QED BY <4>2, <4>3
      <3>3. ProbeSection("ptz", "ptz", ops, "analytics")
        BY <2>4 DEF ProbePtz
      <3> HIDE DEF ops
      <3> QED BY <3>1, <3>2, <3>3, ProbeSectionStep
    <2>5. CASE ProbeAnalytics
      BY <2>5, ProbeAnalyticsStep
    <2>6. CASE ProbeRules
      BY <2>6, ProbeRulesStep
    <2> QED BY <1>3, <2>1, <2>2, <2>3, <2>4, <2>5, <2>6 DEF Probe
  <1>4. CASE SomeoneEdits
    <2>1. UNCHANGED <<probe, report, lost>> /\ edits' = edits + 1 /\ edits \in Nat
      BY <1>4 DEF SomeoneEdits, SettingsTypeOK
    <2>2. edits' = 0 => edits = 0
      BY <2>1
    <2> QED BY <1>4, <2>1, <2>2, SomeoneEditsStep, ProbeFrame
  <1>5. CASE UNCHANGED settingsVars
    <2>1. UNCHANGED <<night, region, outcomes, filter, elements, dirty, edits, probe, report, lost>>
      BY <1>5 DEF settingsVars
    <2>2. SettingsTypeOK'
      BY <2>1 DEF SettingsTypeOK
    <2>3. TurnInv'
      BY <2>1 DEF SyncInv, TurnInv
    <2> QED BY <2>1, <2>2, <2>3, SyncFrame, ProbeFrame
  <1> QED BY <1>1, <1>2, <1>3, <1>4, <1>5 DEF SettingsNext

\* The inductive invariant of the camera settings: types, whose turn it is and what
\* each of the three has learnt from the cameras.
THEOREM SettingsInvariance == SettingsSpec => []SettingsInv
  <1>1. SettingsInit => SettingsInv
    BY SettingsStart
  <1>2. SettingsInv /\ [SettingsNext]_settingsVars => SettingsInv'
    BY SettingsStep
  <1> QED BY <1>1, <1>2, PTL DEF SettingsSpec

\* What the probe says about a motion region is what the region sync does, whatever
\* the cameras are and whichever call is lost (onvif_probe.rs against
\* onvif_motion_region.rs).
THEOREM ProbeAlwaysHonest == SettingsSpec => []ProbeHonest
  <1>1. SettingsInv => ProbeHonest
    BY PromiseKept DEF ProbeHonest, SettingsInv, ProbeInv
  <1> QED BY <1>1, SettingsInvariance, PTL

\* Only the last request of the sync is reported as a success, and only when the
\* camera has taken it or its refusal was lost in an HTTP 200.
LEMMA SuccessIsModified ==
    ASSUME SettingsInv, SettingsNext, Len(outcomes') > Len(outcomes),
           outcomes'[Len(outcomes')] = "success"
    PROVE  SuccessHolds \/ RefusalUnread
  <1>0. outcomes \in Seq({"success", "failed"}) /\ Len(outcomes) \in Nat
    BY LenProperties DEF SettingsInv, SettingsTypeOK
  <1>1. \A status : RegionNext(status) => outcomes'[Len(outcomes')] = status
    <2> SUFFICES ASSUME NEW status, RegionNext(status)
                 PROVE  outcomes'[Len(outcomes')] = status
      OBVIOUS
    <2>1. outcomes' = Append(outcomes, status)
      BY DEF RegionNext
    <2> QED BY <1>0, <2>1
  <1>2. ~RegionNext("failed")
    BY <1>1
  <1>3. outcomes' # outcomes
    BY <1>0
  <1>4. RegionModify
    <2>1. ~Night /\ ~Probe /\ ~SomeoneEdits
      BY <1>3 DEF Night, NightServices, NightProfiles, NightSet, Probe, ProbeDevice, ProbeServices,
                  ProbeCapabilities, ProbeMandatory, ProbeMedia, ProbeEvents, ProbePtz,
                  ProbeSection, ProbeAnalytics, ProbeRules, SomeoneEdits
    <2>2. ~RegionServices /\ ~RegionProfiles
      BY <1>2, <1>3 DEF RegionServices, RegionProfiles
    <2>3. ~RegionRules /\ ~RegionModules
      BY <1>2, <1>3 DEF RegionRules, RegionModules, RegionTarget
    <2> QED BY <2>1, <2>2, <2>3 DEF SettingsNext, Region
  <1> DEFINE c == RegionCam
             e == region.target[1]
             kind == e.kind
             body == [e EXCEPT !.polygon = Points]
  <1>5. /\ e \in Element /\ kind \in Kinds /\ body \in Element
        /\ body.kind = kind /\ body.name = e.name /\ body.polygon = Points
        /\ c \in CamSet /\ Listed(elements[c])
        /\ c \notin dirty => \E i \in 1 .. Len(elements[c][kind]) : elements[c][kind][i] = e
    BY <1>4, ModifyFacts DEF SettingsInv
  <1>6. \/ /\ CanModify(c, body)
           /\ elements' = [elements EXCEPT ![c][kind] = Modified(@, body)]
        \/ RefusalUnread
    <2>1. PICK end \in Ends :
            /\ CountLostEnd(end)
            /\ \/ /\ CanModify(c, body) /\ end # "lost before"
                  /\ elements' = [elements EXCEPT ![c][kind] = Modified(@, body)]
               \/ ~CanModify(c, body) /\ elements' = elements
               \/ end = "lost before" /\ elements' = elements
            /\ RegionNext(IF Heard(CanModify(c, body), end) THEN "success" ELSE "failed")
      BY <1>4, ModifyFacts DEF SettingsInv
    <2> DEFINE can == CanModify(c, body)
    <2>2. can \in BOOLEAN
      BY DEF CanModify
    <2>3. Heard(can, end)
      BY <1>2, <2>1
    <2> HIDE DEF can
    <2>4. /\ end \in {"answered", "cut"}
          /\ ~can => Device[RegionCam].fault200 /\ end = "cut"
      BY <1>5, <2>2, <2>3, HeardFacts
    <2>5. CASE can
      BY <2>1, <2>4, <2>5 DEF can
    <2>6. CASE ~can
      <3>1. elements' = elements /\ Device[RegionCam].fault200 /\ end = "cut"
        BY <2>1, <2>4, <2>6 DEF can
      <3>2. lost' = lost + 1 /\ lost \in Nat
        BY <2>1, <3>1 DEF CountLostEnd, SettingsInv, SettingsTypeOK
      <3>3. lost' > lost
        BY <3>2
      <3> QED BY <3>1, <3>3 DEF RefusalUnread
    <2> QED BY <2>5, <2>6
  <1> SUFFICES ASSUME ~RefusalUnread
               PROVE  SuccessHolds
    OBVIOUS
  <1>7. PICK i \in 1 .. Len(elements[c][kind]) :
          /\ Modified(elements[c][kind], body) = [elements[c][kind] EXCEPT ![i] = body]
          /\ c \notin dirty => elements[c][kind][i] = e
    <2>1. CanModify(c, body)
      BY <1>6
    <2> HIDE DEF c, e, body
    <2> QED BY <1>5, <2>1, ChangedOne
  <1>8. DOMAIN elements = CamSet
    BY DEF SettingsInv, SettingsTypeOK
  <1> HIDE DEF body
  <1>9. elements' = [elements EXCEPT ![c][kind][i] = body]
    BY <1>6, <1>7
  <1>10. elements'[c][kind][i] = body
    <2>1. DOMAIN elements[c] = Kinds
      BY <1>5 DEF Listed
    <2>2. DOMAIN elements[c][kind] = 1 .. Len(elements[c][kind])
      BY <1>5, ListedFacts, LenProperties
    <2> QED BY <1>5, <1>8, <1>9, <2>1, <2>2
  <1>11. c \notin dirty => body = [elements[c][kind][i] EXCEPT !.polygon = Points]
    BY <1>7 DEF body
  <1> DEFINE after == elements'[c][kind][i]
  <1>12. /\ elements' = [elements EXCEPT ![c][kind][i] = after]
         /\ after.polygon = Points
         /\ c \notin dirty => after = [elements[c][kind][i] EXCEPT !.polygon = Points]
    BY <1>5, <1>9, <1>10, <1>11
  <1> QED BY <1>5, <1>12, Zenon DEF SuccessHolds

\* "success" means that the camera has the configured region, in one element, and
\* that nothing else on any camera has changed, or that the camera refused in an
\* HTTP 200 whose body was lost (soap_call,
\* build_modify_motion_region_body,
\* run_onvif_motion_region_sync_once).
THEOREM SyncAlwaysTruthful == SettingsSpec => SyncTruthful
  <1>1. SettingsInv /\ [SettingsNext]_settingsVars =>
          [(Len(outcomes') > Len(outcomes) /\ outcomes'[Len(outcomes')] = "success")
             => SuccessHolds \/ RefusalUnread]_settingsVars
    BY SuccessIsModified
  <1> QED BY <1>1, SettingsInvariance, PTL DEF SettingsSpec, SyncTruthful
=============================================================================
