---------------------------- MODULE LiveV2Proofs ----------------------------
(***************************************************************************)
(* What the pipeline of LiveV2 guarantees to players, for every window,    *)
(* keep count and camera and without bounds on segments and sessions other *)
(* than the arbitrary MaxSeq and MaxSessions, with any number of strays    *)
(* beside it: the state stays well typed, manifests can be served and      *)
(* continue each other until their session is being deleted, the pointer   *)
(* is sound and goes back only to a stray, listed segments can be decoded, *)
(* missing media is marked, and the disk holds what is listed.             *)
(***************************************************************************)
EXTENDS LiveV2, FiniteSetTheorems, SequenceTheorems, TLAPS

(***************************************************************************)
(* The inductive invariant.                                                *)
(***************************************************************************)

\* Where the task is and what it must have in hand there.
ControlInv ==
    /\ pc # "down" => session \in Sessions
    /\ gc \subseteq 1 .. session
    /\ removing \subseteq condemned
    /\ \A d \in condemned : d < session
    /\ pc # "down" => session \in dirs
    /\ pc = "down" => /\ entries = <<>> /\ latest = 0
                      /\ nextSeq = 1 /\ segment = NoSegment
    /\ pc \in {"packet", "au", "open"} => nextSeq <= MaxSeq
    /\ pc \in {"segment", "manifest", "evict"} /\ cont \in {"mismatch", "rotate"}
          => nextSeq <= MaxSeq
    /\ pc = "pointer" /\ cont = "rotate" => nextSeq <= MaxSeq
    /\ pc \in {"write", "segment", "manifest", "evict"} => segment # NoSegment
    /\ pc \in {"open", "pointer", "stopped"} => segment = NoSegment
    /\ pc = "pointer" => latest > 0
    /\ pc # "write" /\ segment # NoSegment => segment.written

\* The playlist in memory, on disk and the sequence numbers given out.
PlaylistInv ==
    /\ \A s \in Sessions : s > session => manifest[s] = <<>>
    /\ pc # "down" => entries = manifest[session]
    /\ latest < nextSeq
    /\ segment # NoSegment => latest < segment.seq /\ segment.seq < nextSeq
    /\ pc = "evict" => entries # <<>> /\ entries[Len(entries)].seq = segment.seq
    /\ pc # "evict" /\ latest = 0 => entries = <<>>
    /\ pc # "evict" /\ latest > 0 => entries # <<>> /\ entries[Len(entries)].seq = latest

\* What is on disk while push_segment is under way.
Servable == \A s \in Sessions \ condemned : Listed(manifest[s]) \subseteq files[s]

FilesInv ==
    /\ Servable
    /\ pc = "manifest" => segment.seq \in files[session]
    /\ pc = "evict" => evicted \cap Listed(entries) = {}

\* The pointer against the session in progress.
PointerInv ==
    /\ PointerSound
    /\ pointer.session <= session
    /\ pc # "down" /\ pointer.session = session =>
          /\ pointer.generation = generation
          /\ pointer.state = "ready"
          /\ pointer.last <= latest

\* A stray keeps a playlist of its own, which is the manifest of its session
\* until that is being deleted, and has written the pointer from it.
Last(q) == q[Len(q)].seq

StrayOK(x) ==
    /\ x.session < session
    /\ x.at \in {"manifest", "evict"} => x.next <= MaxSeq
    /\ x.at = "evict" => /\ x.entries # <<>> /\ Last(x.entries) = x.next
                         /\ x.evicted \cap Listed(x.entries) = {}
    /\ x.at # "evict" /\ x.entries # <<>> => Last(x.entries) < x.next
    /\ x.at = "pointer" => x.entries # <<>>
    /\ x.session \notin condemned =>
          /\ x.session \in dirs
          /\ manifest[x.session] = x.entries
          /\ x.at = "manifest" => x.next \in files[x.session]
    /\ pointer.session = x.session =>
          /\ pointer.generation = x.generation
          /\ pointer.state = "ready"
          /\ x.entries # <<>> /\ pointer.last <= Last(x.entries)

StrayInv ==
    /\ \A x \in strays : StrayOK(x)
    /\ \A x, y \in strays : x.session = y.session => x = y

IndInv == TypeOK /\ ControlInv /\ PlaylistInv /\ FilesInv /\ PointerInv /\ StrayInv
-----------------------------------------------------------------------------
(***************************************************************************)
(* Facts about the operators.                                              *)
(***************************************************************************)

\* PlaylistState::new never asks for fewer than three entries.
LEMMA MaxSegmentsType == MaxSegments \in Nat /\ MaxSegments >= 3
  <1> DEFINE target == IF SegmentSecs > 1 THEN SegmentSecs ELSE 1
             window == IF WindowSecs > target THEN WindowSecs ELSE target
             n == (window + target - 1) \div target + 1
  <1>1. target \in Nat \ {0} /\ window \in Nat
    BY ConfigAssumption
  <1>2. n \in Int
    <2> HIDE DEF target, window
    <2> QED BY <1>1
  <1>3. MaxSegments = IF n > 3 THEN n ELSE 3
    BY DEF MaxSegments
  <1> HIDE DEF n
  <1> QED BY <1>2, <1>3

\* Trimming the window keeps the newest entry and invents none.
LEMMA WindowedFacts ==
    ASSUME NEW q \in Seq(Entry), q # <<>>
    PROVE  /\ Windowed(q) \in Seq(Entry)
           /\ Windowed(q) # <<>>
           /\ Windowed(q)[Len(Windowed(q))] = q[Len(q)]
           /\ Listed(Windowed(q)) \subseteq Listed(q)
  <1>1. Len(q) \in Nat /\ Len(q) > 0 /\ MaxSegments \in Nat /\ MaxSegments >= 3
    BY MaxSegmentsType
  <1>2. CASE Len(q) <= MaxSegments
    BY <1>2 DEF Windowed
  <1>3. CASE Len(q) > MaxSegments
    <2> DEFINE a == Len(q) - MaxSegments + 1
               w == SubSeq(q, a, Len(q))
    <2>1. Windowed(q) = w
      BY <1>1, <1>3 DEF Windowed
    <2>2. a \in 1 .. Len(q) /\ a <= Len(q)
      BY <1>1, <1>3
    <2>3. /\ w \in Seq(Entry)
          /\ Len(w) = MaxSegments
          /\ \A i \in 1 .. MaxSegments : w[i] = q[a + i - 1]
      BY <1>1, <1>3, <2>2
    <2>4. w # <<>> /\ w[Len(w)] = q[Len(q)]
      <3>1. MaxSegments \in 1 .. MaxSegments /\ a + MaxSegments - 1 = Len(q)
        BY <1>1
      <3>2. w[MaxSegments] = q[Len(q)]
        BY <2>3, <3>1
      <3>3. Len(<<>>) = 0
        OBVIOUS
      <3> HIDE DEF w
      <3> QED BY <1>1, <2>3, <3>2, <3>3
    <2>5. Listed(w) \subseteq Listed(q)
      <3>1. DOMAIN w = 1 .. MaxSegments /\ DOMAIN q = 1 .. Len(q)
        BY <2>3
      <3>2. ASSUME NEW i \in DOMAIN w
            PROVE  a + i - 1 \in DOMAIN q /\ w[i] = q[a + i - 1]
        BY <1>1, <1>3, <2>3, <3>1
      <3> HIDE DEF w
      <3> QED BY <3>2 DEF Listed
    <2> QED BY <2>1, <2>3, <2>4, <2>5
  <1> QED BY <1>1, <1>2, <1>3

\* An entry pushed stands behind the ones there were.
LEMMA AppendFacts ==
    ASSUME NEW p \in Seq(Entry), NEW e \in Entry
    PROVE  /\ Append(p, e) \in Seq(Entry)
           /\ Append(p, e) # <<>>
           /\ Append(p, e)[Len(Append(p, e))].seq = e.seq
           /\ Listed(Append(p, e)) = Listed(p) \cup {e.seq}
  <1> DEFINE q == Append(p, e)
  <1>1. /\ q \in Seq(Entry)
        /\ Len(q) = Len(p) + 1
        /\ q[Len(p) + 1] = e
        /\ \A i \in 1 .. Len(p) : q[i] = p[i]
    OBVIOUS
  <1> HIDE DEF q
  <1>2. /\ DOMAIN q = 1 .. Len(p) + 1
        /\ DOMAIN p = 1 .. Len(p)
        /\ Len(p) \in Nat
    BY <1>1
  <1>3. DOMAIN q = DOMAIN p \cup {Len(p) + 1}
    BY <1>2
  <1>4. Listed(q) = Listed(p) \cup {e.seq}
    BY <1>1, <1>2, <1>3 DEF Listed
  <1>5. q # <<>> /\ q[Len(q)].seq = e.seq
    BY <1>1, <1>2
  <1> QED BY <1>1, <1>4, <1>5 DEF q

\* The entry pushed is the segment's.
LEMMA PushedFacts ==
    ASSUME segment \in Segment, entries \in Seq(Entry)
    PROVE  /\ Pushed \in Seq(Entry)
           /\ Pushed # <<>>
           /\ Pushed[Len(Pushed)].seq = segment.seq
           /\ Listed(Pushed) = Listed(entries) \cup {segment.seq}
  <1> DEFINE e == [seq |-> segment.seq, discontinuity |-> segment.discontinuity]
  <1>1. e \in Entry /\ e.seq = segment.seq
    BY DEF Segment, Entry
  <1>2. Pushed = Append(entries, e)
    BY DEF Pushed
  <1> HIDE DEF e
  <1> QED BY <1>1, <1>2, AppendFacts

\* Entries list segments.
LEMMA ListedType == ASSUME NEW q \in Seq(Entry) PROVE Listed(q) \subseteq Seqs
  <1>1. \A i \in DOMAIN q : q[i] \in Entry
    OBVIOUS
  <1>2. \A e \in Entry : e.seq \in Seqs
    BY DEF Entry
  <1> QED BY <1>1, <1>2 DEF Listed

\* So does the last one.
LEMMA LastType == ASSUME NEW q \in Seq(Entry), q # <<>> PROVE Last(q) \in Seqs /\ Last(q) \in Int
  <1>1. Len(q) \in DOMAIN q
    OBVIOUS
  <1>2. q[Len(q)] \in Entry
    BY <1>1
  <1>3. q[Len(q)].seq \in Seqs
    BY <1>2 DEF Entry
  <1> QED BY <1>3 DEF Last, Seqs

\* A payload that push_rtp_payload accepts yields NAL units and a state.
LEMMA DepacketizerTypes ==
    ASSUME NEW f \in FuState, NEW p \in Payload, ~Undecodable(f, p)
    PROVE  NalsOf(f, p) \in Seq(NalClass) /\ FuAfter(f, p) \in FuState
  <1>1. p.kind \in PayloadKind /\ p.nals \in Seq(NalClass)
    BY DEF Payload
  <1>2. p.kind \in {"single", "fuStart", "fuMid", "fuEnd"} => Len(p.nals) = 1
    BY DEF Payload
  <1>3. p.kind = "fuEnd" => f \in NalClass
    BY DEF Undecodable, FuState
  <1>4. NalsOf(f, p) \in Seq(NalClass)
    BY <1>1, <1>3 DEF NalsOf
  <1>5. p.kind = "fuStart" => p.nals[1] \in NalClass
    BY <1>1, <1>2
  <1>6. FuAfter(f, p) \in FuState
    BY <1>1, <1>5 DEF FuAfter, FuState
  <1> QED BY <1>4, <1>6

\* The gate stays a gate and lets NAL units out.
LEMMA GateTypes ==
    ASSUME NEW g \in Gate, NEW nals \in Seq(NalClass)
    PROVE  /\ GateReset(g) \in Gate
           /\ GateAfter(g, nals) \in Gate
           /\ GateOutput(g, nals) \subseteq NalClass
  <1>1. GateReset(g) \in Gate
    BY DEF GateReset, Gate
  <1>2. g.synced \in BOOLEAN /\ g.sps \in BOOLEAN /\ g.pps \in BOOLEAN
    BY DEF Gate
  <1>3. GateAfter(g, nals) \in Gate
    BY <1>2 DEF GateAfter, Gate
  <1>4. \A i \in DOMAIN nals : nals[i] \in NalClass
    OBVIOUS
  <1>5. {nals[i] : i \in Emitted(g, nals)} \subseteq NalClass
    BY <1>4 DEF Emitted
  <1>6. ParamSets \subseteq NalClass
    BY DEF ParamSets, NalClass
  <1>7. GateOutput(g, nals) \subseteq NalClass
    BY <1>5, <1>6 DEF GateOutput
  <1> QED BY <1>1, <1>3, <1>7

\* A gate may start with or without parameter sets.
LEMMA NewGateType == ASSUME NEW b \in BOOLEAN PROVE NewGate(b) \in Gate
  BY DEF NewGate, Gate
-----------------------------------------------------------------------------
(***************************************************************************)
(* Init establishes the invariant.                                         *)
(***************************************************************************)

\* The empty directory tree and no task.
LEMMA InitInv == Init => IndInv
  <1> SUFFICES ASSUME Init PROVE IndInv
    OBVIOUS
  <1> USE BoundsAssumption DEF Init
  <1>1. TypeOK
    <2>1. /\ <<>> \in Seq(Entry)
          /\ content \in [Seqs -> Content]
          /\ segment \in Segment \cup {NoSegment}
          /\ pointer \in Pointer \cup {NoPointer}
      BY DEF Content, NoContent, NoSegment, NoPointer, NalClass
    <2>2. gate \in Gate
      BY NewGateType
    <2>3. /\ files \in [Sessions -> SUBSET Seqs]
          /\ manifest \in [Sessions -> Seq(Entry)]
          /\ entries \in Seq(Entry)
      BY <2>1
    <2>4. /\ pc \in PC
          /\ cont \in Cont
          /\ fu \in FuState
      BY DEF PC, FuState, Cont
    <2>5. /\ session \in 0 .. MaxSessions
          /\ generation \in Nat
          /\ nextSeq \in 1 .. MaxSeq + 1
          /\ latest \in 0 .. MaxSeq
      OBVIOUS
    <2> QED BY <2>1, <2>2, <2>3, <2>4, <2>5 DEF TypeOK
  <1>2. ControlInv
    BY DEF ControlInv
  <1>3. PlaylistInv
    BY DEF PlaylistInv
  <1>4. FilesInv
    BY DEF FilesInv, Servable, Listed
  <1>5. PointerInv
    BY DEF PointerInv, PointerSound, NoPointer
  <1>6. StrayInv
    BY DEF StrayInv
  <1> QED BY <1>1, <1>2, <1>3, <1>4, <1>5, <1>6 DEF IndInv
-----------------------------------------------------------------------------
(***************************************************************************)
(* Every step preserves the types.                                         *)
(***************************************************************************)

\* What Forget leaves is well typed.
LEMMA ForgetTypes ==
    ASSUME NEW end \in Cont, Forget(end), TypeOK,
           dirs' \subseteq Sessions, gc' \subseteq Sessions,
           removing' \subseteq Sessions, condemned' \subseteq Sessions, strays' \subseteq Stray,
           files' \in [Sessions -> SUBSET Seqs], manifest' \in [Sessions -> Seq(Entry)],
           pointer' \in Pointer \cup {NoPointer}
    PROVE  TypeOK'
  <1> USE DEF Forget, Fresh, Cont
  <1>1. gate' \in Gate
    BY NewGateType
  <1>2. /\ content' \in [Seqs -> Content]
        /\ segment' \in Segment \cup {NoSegment}
        /\ pkt' \in Packets \cup {NoPacket}
        /\ entries' \in Seq(Entry)
    BY DEF Content, NoContent, NalClass
  <1>3. /\ pc' \in PC
        /\ cont' \in Cont
        /\ fu' \in FuState
    BY DEF PC, FuState, Cont
  <1>4. nextSeq' \in 1 .. MaxSeq + 1 /\ latest' \in 0 .. MaxSeq
    BY BoundsAssumption
  <1> QED BY <1>1, <1>2, <1>3, <1>4 DEF TypeOK

\* Nor does a discontinuity disturb the types.
LEMMA DiscontinuityTypes ==
    ASSUME TypeOK, NEW why \in {"gap", "mismatch"}, HandleDiscontinuity(why)
    PROVE  /\ pc' \in PC
           /\ cont' \in Cont
           /\ fu' \in FuState /\ gate' \in Gate /\ expected' \in BOOLEAN
           /\ au' \subseteq NalClass
           /\ pending' \in BOOLEAN
           /\ UNCHANGED <<entries, nextSeq, segment, latest, evicted>>
  <1>1. GateReset(gate) \in Gate
    BY DEF GateReset, Gate, TypeOK
  <1>2. pending' \in BOOLEAN
    BY DEF HandleDiscontinuity, TypeOK
  <1>3. CASE segment # NoSegment
    BY <1>2, <1>3 DEF HandleDiscontinuity, TypeOK, PC, Cont, decode
  <1>4. CASE segment = NoSegment
    BY <1>1, <1>2, <1>4 DEF HandleDiscontinuity, Discontinued, TypeOK, PC, FuState, Cont
  <1> QED BY <1>3, <1>4

\* What is kept of a pipeline that is superseded is a stray.
LEMMA SupersededType ==
    ASSUME TypeOK, ControlInv, pc # "down" PROVE Superseded \in Stray
  <1>1. session \in Sessions
    BY DEF ControlInv
  <1>2. (IF segment # NoSegment THEN segment.seq ELSE nextSeq) \in 1 .. MaxSeq + 1
    BY BoundsAssumption DEF TypeOK, Segment, Seqs
  <1>3. (IF pc \in StrayPC THEN pc ELSE "media") \in StrayPC
    BY DEF StrayPC
  <1> QED BY <1>1, <1>2, <1>3 DEF Superseded, Stray, TypeOK

\* What a stray becomes is a stray, and what it writes is well typed.
LEMMA StrayTypes ==
    ASSUME TypeOK, StrayInv, NEW x \in strays, StrayStep(x)
    PROVE  /\ strays' \subseteq Stray
           /\ dirs' \subseteq Sessions
           /\ files' \in [Sessions -> SUBSET Seqs]
           /\ manifest' \in [Sessions -> Seq(Entry)]
           /\ pointer' \in Pointer \cup {NoPointer}
  <1> USE BoundsAssumption
  <1>0. /\ x \in Stray /\ StrayOK(x)
        /\ x.session \in Sessions /\ x.entries \in Seq(Entry) /\ x.evicted \subseteq Seqs
        /\ x.next \in 1 .. MaxSeq + 1 /\ x.generation \in Nat
    BY DEF TypeOK, StrayInv, Stray
  <1>1. ASSUME NEW why \in {"gap", "rotate", "stop"}, StraySegment(x, why)
        PROVE  strays' \subseteq Stray /\ files' \in [Sessions -> SUBSET Seqs]
    <2>1. x.next \in Seqs
      BY <1>0, <1>1 DEF StraySegment, Seqs
    <2>2. [x EXCEPT !.at = "manifest", !.why = why] \in Stray
      BY <1>0, <1>1 DEF Stray, StrayPC, Cont
    <2> QED BY <1>0, <1>1, <2>1, <2>2 DEF StraySegment, Becomes, TypeOK
  <1>2. ASSUME NEW tag \in BOOLEAN, StrayManifest(x, tag)
        PROVE  strays' \subseteq Stray /\ manifest' \in [Sessions -> Seq(Entry)]
    <2> DEFINE e == [seq |-> x.next, discontinuity |-> tag]
               q == Append(x.entries, e)
    <2>1. e \in Entry
      BY <1>0, <1>2 DEF StrayManifest, StrayOK, Entry, Seqs
    <2>2. q \in Seq(Entry) /\ q # <<>>
      BY <1>0, <2>1, AppendFacts
    <2>3. Windowed(q) \in Seq(Entry) /\ Listed(q) \ Listed(Windowed(q)) \subseteq Seqs
      BY <2>2, WindowedFacts, ListedType
    <2>4. /\ manifest' = [manifest EXCEPT ![x.session] = Windowed(q)]
          /\ strays' = (strays \ {x}) \cup
                          {[x EXCEPT !.at = "evict", !.entries = Windowed(q),
                                     !.evicted = Listed(q) \ Listed(Windowed(q))]}
      BY <1>2 DEF StrayManifest, Becomes
    <2> HIDE DEF q
    <2>5. [x EXCEPT !.at = "evict", !.entries = Windowed(q),
                    !.evicted = Listed(q) \ Listed(Windowed(q))] \in Stray
      BY <1>0, <2>3 DEF Stray, StrayPC
    <2> QED BY <1>0, <2>3, <2>4, <2>5 DEF TypeOK
  <1>3. ASSUME StrayEvict(x)
        PROVE  strays' \subseteq Stray /\ files' \in [Sessions -> SUBSET Seqs]
    <2>1. x.next + 1 \in 1 .. MaxSeq + 1
      BY <1>0, <1>3 DEF StrayEvict, StrayOK
    <2>2. [x EXCEPT !.at = IF x.why \in {"rotate", "stop"} THEN "pointer" ELSE "media",
                    !.next = x.next + 1, !.evicted = {}] \in Stray
      BY <1>0, <2>1 DEF Stray, StrayPC
    <2> QED BY <1>0, <1>3, <2>2 DEF StrayEvict, Becomes, TypeOK
  <1>4. ASSUME x.entries # <<>>, NEW state \in {"ready", "stopped"}
        PROVE  StrayPointerTo(x, state) \in Pointer
    <2>2. x.entries[Len(x.entries)].seq \in Seqs
      BY <1>0, <1>4, LastType DEF Last
    <2> QED BY <1>0, <2>2 DEF StrayPointerTo, Pointer
  <1>5. ASSUME StrayPointer(x)
        PROVE  strays' \subseteq Stray /\ pointer' \in Pointer
    <2>1. [x EXCEPT !.at = IF x.why = "rotate" THEN "media" ELSE "stopped"] \in Stray
      BY <1>0 DEF Stray, StrayPC
    <2>2. x.entries # <<>>
      BY <1>0, <1>5 DEF StrayPointer, StrayOK
    <2> QED BY <1>0, <1>4, <1>5, <2>1, <2>2 DEF StrayPointer, Becomes, TypeOK
  <1>6. ASSUME StrayStops(x) \/ StrayDies(x)
        PROVE  strays' \subseteq Stray /\ pointer' \in Pointer \cup {NoPointer}
    BY <1>4, <1>6 DEF StrayStops, StrayDies, TypeOK
  <1> QED BY <1>0, <1>1, <1>2, <1>3, <1>5, <1>6
          DEF StrayStep, StraySegment, StrayManifest, StrayEvict, StrayPointer, StrayStops,
              StrayDies, TypeOK

\* No action of the pipeline leaves the types.
LEMMA TypeStep == IndInv /\ [Next]_vars => TypeOK'
  <1> SUFFICES ASSUME IndInv, [Next]_vars PROVE TypeOK'
    OBVIOUS
  <1> USE BoundsAssumption DEF disk, media, decode, hls, run, Cont
  <1>0. TypeOK /\ ControlInv /\ PlaylistInv /\ StrayInv
    BY DEF IndInv
  <1>1. ASSUME NEW seeded \in BOOLEAN, NEW readable \in BOOLEAN,
               StartSession(seeded, readable)
        PROVE  TypeOK'
    <2>1. pointer.generation \in Nat
      BY <1>0 DEF TypeOK, Pointer, NoPointer
    <2>2. generation' \in Nat
      BY <1>1, <2>1 DEF StartSession, NextGeneration
    <2>3. gate' \in Gate
      BY <1>1, NewGateType DEF StartSession
    <2>4. session' \in 0 .. MaxSessions /\ session + 1 \in Sessions
      BY <1>0, <1>1 DEF StartSession, TypeOK, Sessions
    <2>5. pc' \in PC
      BY <1>1 DEF StartSession, PC
    <2>6. strays' \subseteq Stray
      BY <1>0, <1>1, SupersededType DEF StartSession, TypeOK
    <2>7. /\ content' \in [Seqs -> Content]
          /\ segment' \in Segment \cup {NoSegment}
          /\ pkt' \in Packets \cup {NoPacket}
          /\ entries' \in Seq(Entry)
          /\ fu' \in FuState
          /\ nextSeq' \in 1 .. MaxSeq + 1 /\ latest' \in 0 .. MaxSeq
      BY <1>1 DEF StartSession, Fresh, Content, NoContent, NalClass, FuState
    <2>8. /\ au' = {} /\ evicted' = {} /\ pending' = FALSE /\ expected' = FALSE
          /\ lost' = TRUE /\ torn' = TRUE /\ cut' = TRUE
      BY <1>1 DEF StartSession, Fresh
    <2> QED BY <1>0, <1>1, <2>2, <2>3, <2>4, <2>5, <2>6, <2>7, <2>8 DEF StartSession, TypeOK
  <1>2. CASE RecvGap
    <2>1. HandleDiscontinuity("gap")
      BY <1>2 DEF RecvGap
    <2> QED BY <1>0, <1>2, <2>1, DiscontinuityTypes DEF RecvGap, TypeOK
  <1>3. CASE RecvUnparsable
    <2>1. HandleDiscontinuity("gap")
      BY <1>3 DEF RecvUnparsable
    <2> QED BY <1>0, <1>3, <2>1, DiscontinuityTypes DEF RecvUnparsable, TypeOK
  <1>4. ASSUME NEW p \in Packets, NEW inOrder \in BOOLEAN, NEW heads \in BOOLEAN,
               RecvRtp(p, inOrder, heads)
        PROVE  TypeOK'
    <2>1. lost' \in BOOLEAN /\ torn' \in BOOLEAN /\ cut' \in BOOLEAN
      BY <1>0, <1>4 DEF RecvRtp, TypeOK
    <2>2. CASE expected /\ ~inOrder
      <3>1. HandleDiscontinuity("mismatch")
        BY <1>4, <2>2 DEF RecvRtp
      <3> QED BY <1>0, <1>4, <2>1, <3>1, DiscontinuityTypes DEF RecvRtp, TypeOK
    <2>3. CASE ~(expected /\ ~inOrder)
      BY <1>0, <1>4, <2>1, <2>3 DEF RecvRtp, TypeOK, PC
    <2> QED BY <2>2, <2>3
  <1>5. CASE RecvNone
    BY <1>0, <1>5 DEF RecvNone, TypeOK, PC
  <1>6. CASE ProcessPacket
    <2>1. CASE Undecodable(fu, pkt.payload)
      <3>1. HandleDiscontinuity("gap")
        BY <1>6, <2>1 DEF ProcessPacket
      <3> QED BY <1>0, <1>6, <2>1, <3>1, DiscontinuityTypes DEF ProcessPacket, TypeOK
    <2>2. CASE ~Undecodable(fu, pkt.payload)
      <3> DEFINE nals == NalsOf(fu, pkt.payload)
      <3>1. pkt.payload \in Payload
        <4>1. NoPacket.payload \in Payload
          BY DEF NoPacket, Payload, PayloadKind
        <4> QED BY <1>0, <4>1, PacketsAssumption DEF TypeOK
      <3>2. nals \in Seq(NalClass) /\ FuAfter(fu, pkt.payload) \in FuState
        BY <1>0, <2>2, <3>1, DepacketizerTypes DEF TypeOK
      <3>3. GateAfter(gate, nals) \in Gate /\ GateOutput(gate, nals) \subseteq NalClass
        BY <1>0, <3>2, GateTypes DEF TypeOK
      <3>4. pc' \in PC
        BY <1>6, <2>2 DEF ProcessPacket, PC
      <3> HIDE DEF nals
      <3>5. /\ fu' = FuAfter(fu, pkt.payload)
            /\ gate' = GateAfter(gate, nals)
            /\ au' = au \cup GateOutput(gate, nals)
            /\ expected' = TRUE
            /\ UNCHANGED <<torn, cut, cont, hls>>
            /\ UNCHANGED <<disk, lost, content, session, generation, pkt>>
        BY <1>6, <2>2 DEF ProcessPacket, nals
      <3> QED BY <1>0, <3>2, <3>3, <3>4, <3>5 DEF TypeOK
    <2> QED BY <2>1, <2>2
  <1>7. ASSUME NEW due \in BOOLEAN, HandleAccessUnit(due)
        PROVE  TypeOK'
    <2>1. /\ pc' \in PC
          /\ cont' \in Cont
          /\ au' \subseteq NalClass
          /\ cut' \in BOOLEAN
      BY <1>0, <1>7 DEF HandleAccessUnit, PC, TypeOK
    <2> QED BY <1>0, <1>7, <2>1 DEF HandleAccessUnit, TypeOK
  <1>8. CASE OpenSegment
    <2>1. nextSeq \in Seqs /\ nextSeq + 1 \in 1 .. MaxSeq + 1
      BY <1>0, <1>8 DEF OpenSegment, ControlInv, TypeOK, Seqs
    <2>2. segment' \in Segment
      BY <1>0, <1>8, <2>1 DEF OpenSegment, Segment, TypeOK
    <2>3. content' \in [Seqs -> Content]
      BY <1>0, <1>8, <2>1 DEF OpenSegment, Content, TypeOK
    <2>4. pc' \in PC
      BY <1>8 DEF OpenSegment, PC
    <2> QED BY <1>0, <1>8, <2>1, <2>2, <2>3, <2>4 DEF OpenSegment, TypeOK
  <1>9. CASE WriteAccessUnit
    <2>1. segment \in Segment
      BY <1>0, <1>9 DEF WriteAccessUnit, ControlInv, TypeOK
    <2>2. segment' \in Segment
      BY <1>9, <2>1 DEF WriteAccessUnit, Segment
    <2>3. content' \in [Seqs -> Content]
      <3>1. content[segment.seq] \in Content /\ segment.written \in BOOLEAN
        BY <1>0, <2>1 DEF Segment, TypeOK
      <3>2. Written(content[segment.seq]) \in Content
        BY <1>0, <3>1 DEF Written, Content, TypeOK
      <3>3. content' = [content EXCEPT ![segment.seq] = Written(content[segment.seq])]
        BY <1>9 DEF WriteAccessUnit
      <3> QED BY <1>0, <3>2, <3>3 DEF TypeOK
    <2>4. pc' \in PC /\ cut' \in BOOLEAN /\ au' \subseteq NalClass
      BY <1>9 DEF WriteAccessUnit, PC
    <2> QED BY <1>0, <1>9, <2>2, <2>3, <2>4 DEF WriteAccessUnit, TypeOK
  <1>10. CASE PublishSegment
    <2>1. segment.seq \in Seqs
      BY <1>0, <1>10 DEF PublishSegment, ControlInv, TypeOK, Segment
    <2>2. files' \in [Sessions -> SUBSET Seqs]
      BY <1>0, <1>10, <2>1 DEF PublishSegment, TypeOK
    <2>3. pc' \in PC
      BY <1>10 DEF PublishSegment, PC
    <2> QED BY <1>0, <1>10, <2>2, <2>3 DEF PublishSegment, TypeOK
  <1>11. CASE PublishManifest
    <2>1. Pushed \in Seq(Entry) /\ Pushed # <<>>
      <3>1. segment \in Segment /\ entries \in Seq(Entry)
        BY <1>0, <1>11 DEF PublishManifest, ControlInv, TypeOK
      <3> QED BY <3>1, PushedFacts
    <2>2. Windowed(Pushed) \in Seq(Entry)
      BY <2>1, WindowedFacts
    <2>3. Evicted \subseteq Seqs
      BY <2>1, ListedType DEF Evicted
    <2>4. manifest' \in [Sessions -> Seq(Entry)]
      BY <1>0, <1>11, <2>2 DEF PublishManifest, TypeOK
    <2>5. pc' \in PC
      BY <1>11 DEF PublishManifest, PC
    <2> QED BY <1>0, <1>11, <2>2, <2>3, <2>4, <2>5 DEF PublishManifest, TypeOK
  <1>12. CASE EvictSegments
    <2>1. files' \in [Sessions -> SUBSET Seqs]
      BY <1>0, <1>12 DEF EvictSegments, TypeOK
    <2>2. latest' \in 0 .. MaxSeq
      BY <1>0, <1>12 DEF EvictSegments, ControlInv, TypeOK, Segment, Seqs
    <2>3. GateReset(gate) \in Gate
      BY <1>0 DEF GateReset, Gate, TypeOK
    <2>4. /\ pc' \in PC
          /\ fu' \in FuState /\ gate' \in Gate /\ expected' \in BOOLEAN
          /\ au' \subseteq NalClass
      BY <1>0, <1>12, <2>3 DEF EvictSegments, Discontinued, TypeOK, PC, FuState
    <2> QED BY <1>0, <1>12, <2>1, <2>2, <2>4 DEF EvictSegments, TypeOK
  <1>13. CASE WritePointer
    <2>1. session \in Sessions /\ latest \in Seqs
      BY <1>0, <1>13 DEF WritePointer, ControlInv, TypeOK, Seqs
    <2>2. pointer' \in Pointer
      BY <1>0, <1>13, <2>1 DEF WritePointer, PointerTo, Pointer, TypeOK
    <2>3. pc' \in PC
      BY <1>13 DEF WritePointer, PC
    <2> QED BY <1>0, <1>13, <2>2, <2>3 DEF WritePointer, TypeOK
  <1>14. CASE Stopped
    <2>1. session \in Sessions
      BY <1>0, <1>14 DEF Stopped, ControlInv
    <2>2. latest > 0 => latest \in Seqs
      BY <1>0 DEF TypeOK, Seqs
    <2>3. pointer' \in Pointer \cup {NoPointer}
      BY <1>0, <1>14, <2>1, <2>2 DEF Stopped, PointerTo, Pointer, TypeOK
    <2> QED BY <1>0, <1>14, <2>3, ForgetTypes DEF Stopped, TypeOK
  <1>15. CASE Die \/ Crash
    <2>1. /\ dirs' \subseteq Sessions /\ gc' \subseteq Sessions /\ removing' \subseteq Sessions
          /\ condemned' \subseteq Sessions /\ strays' \subseteq Stray
          /\ UNCHANGED <<files, manifest, pointer>> /\ Forget("died")
      BY <1>0, <1>15 DEF Die, Crash, TypeOK
    <2> QED BY <1>0, <2>1, ForgetTypes DEF TypeOK
  <1>16. ASSUME NEW s \in Sessions, CleanupOldSessions(s)
         PROVE  TypeOK'
    <2>1. PICK old \in OldSessions(s) :
             removing' = removing \cup old /\ condemned' = condemned \cup old
      BY <1>16 DEF CleanupOldSessions
    <2>2. old \subseteq Sessions
      BY <1>0 DEF OldSessions, TypeOK
    <2>3. /\ gc' \subseteq gc
          /\ UNCHANGED <<dirs, files, manifest, pointer, strays, media, decode, hls, run>>
      BY <1>16 DEF CleanupOldSessions
    <2> QED BY <1>0, <2>1, <2>2, <2>3 DEF TypeOK
  <1>18. ASSUME NEW d \in Sessions, RemoveEntry(d) \/ RemovalEnds(d)
         PROVE  TypeOK'
    <2>1. /\ files' \in [Sessions -> SUBSET Seqs] /\ manifest' \in [Sessions -> Seq(Entry)]
          /\ removing' \subseteq removing /\ dirs' \subseteq dirs
      <3>0. files \in [Sessions -> SUBSET Seqs] /\ manifest \in [Sessions -> Seq(Entry)]
        BY <1>0 DEF TypeOK
      <3>1. CASE RemovalEnds(d)
        BY <3>0, <3>1 DEF RemovalEnds
      <3>2. ASSUME NEW n, files' = [files EXCEPT ![d] = @ \ {n}]
            PROVE  files' \in [Sessions -> SUBSET Seqs]
        BY <3>0, <3>2
      <3>3. ASSUME manifest' = [manifest EXCEPT ![d] = <<>>]
            PROVE  manifest' \in [Sessions -> Seq(Entry)]
        <4>1. <<>> \in Seq(Entry)
          OBVIOUS
        <4> QED BY <3>0, <3>3, <4>1
      <3>4. CASE RemoveEntry(d)
        BY <3>0, <3>2, <3>3, <3>4 DEF RemoveEntry
      <3> QED BY <1>18, <3>1, <3>4
    <2> QED BY <1>0, <1>18, <2>1 DEF RemoveEntry, RemovalEnds, TypeOK
  <1>19. ASSUME NEW x \in strays, StrayStep(x)
         PROVE  TypeOK'
    <2>1. UNCHANGED <<gc, removing, condemned, media, decode, hls, run>>
      BY <1>19 DEF StrayStep
    <2> QED BY <1>0, <1>19, <2>1, StrayTypes DEF TypeOK
  <1>17. CASE UNCHANGED vars
    BY <1>0, <1>17 DEF TypeOK, vars
  <1> QED
    BY <1>1, <1>2, <1>3, <1>4, <1>5, <1>6, <1>7, <1>8, <1>9, <1>10, <1>11, <1>12,
       <1>13, <1>14, <1>15, <1>16, <1>17, <1>18, <1>19 DEF Next, FaultFree, Receiving, Handling
-----------------------------------------------------------------------------
(***************************************************************************)
(* What happens beside the latest pipeline.                                *)
(***************************************************************************)

\* Cleanups, deletions and strays.
Beside ==
    \/ \E s \in Sessions : CleanupOldSessions(s)
    \/ \E d \in Sessions : RemoveEntry(d) \/ RemovalEnds(d)
    \/ \E x \in strays : StrayStep(x)

\* They keep off the latest session and the later ones.
LEMMA BesideFacts ==
    ASSUME TypeOK, ControlInv, StrayInv, Beside
    PROVE  /\ UNCHANGED <<media, decode, hls, run>>
           /\ gc' \subseteq gc /\ removing' \subseteq condemned'
           /\ condemned \subseteq condemned' /\ \A d \in condemned' : d < session
           /\ session \in dirs => session \in dirs'
           /\ \A s \in Sessions : s >= session =>
                 files'[s] = files[s] /\ manifest'[s] = manifest[s]
  <1>0. session \in Int /\ \A s \in Sessions : s \in Int
    BY BoundsAssumption DEF TypeOK, Sessions
  <1>1. ASSUME NEW s \in Sessions, CleanupOldSessions(s)
        PROVE  /\ removing' \subseteq condemned' /\ condemned \subseteq condemned'
               /\ \A d \in condemned' : d < session
    <2>1. PICK old \in OldSessions(s) :
             removing' = removing \cup old /\ condemned' = condemned \cup old
      BY <1>1 DEF CleanupOldSessions
    <2>2. s <= session
      BY <1>0, <1>1 DEF CleanupOldSessions, ControlInv
    <2>3. \A d \in old : d \in Sessions /\ d < s
      BY DEF OldSessions, TypeOK
    <2>4. \A d \in old : d < session
      BY <1>0, <2>2, <2>3
    <2> QED BY <2>1, <2>4 DEF ControlInv
  <1>2. ASSUME NEW d \in Sessions, RemoveEntry(d) \/ RemovalEnds(d)
        PROVE  /\ d < session /\ UNCHANGED condemned /\ removing' \subseteq removing
               /\ \A s \in Sessions \ {d} : files'[s] = files[s] /\ manifest'[s] = manifest[s]
               /\ dirs \ {d} \subseteq dirs'
    BY <1>2 DEF RemoveEntry, RemovalEnds, ControlInv, TypeOK
  <1>3. ASSUME NEW x \in strays, StrayStep(x)
        PROVE  /\ x.session \in Sessions /\ x.session < session
               /\ dirs \subseteq dirs' /\ UNCHANGED <<gc, removing, condemned>>
               /\ \A s \in Sessions \ {x.session} :
                     files'[s] = files[s] /\ manifest'[s] = manifest[s]
    <2>1. x.session \in Sessions /\ x.session < session
      BY DEF TypeOK, Stray, StrayInv, StrayOK
    <2> QED BY <1>3, <2>1 DEF StrayStep, StraySegment, StrayManifest, StrayEvict, StrayPointer,
                              StrayStops, StrayDies, TypeOK
  <1>4. UNCHANGED <<media, decode, hls, run>> /\ gc' \subseteq gc
    BY DEF Beside, CleanupOldSessions, RemoveEntry, RemovalEnds, StrayStep
  <1>5. CASE \E s \in Sessions : CleanupOldSessions(s)
    <2>1. UNCHANGED <<dirs, files, manifest>>
      BY <1>5 DEF CleanupOldSessions
    <2> QED BY <1>1, <1>4, <1>5, <2>1
  <1>6. ASSUME NEW d \in Sessions, RemoveEntry(d) \/ RemovalEnds(d)
        PROVE  /\ removing' \subseteq condemned' /\ condemned \subseteq condemned'
               /\ \A e \in condemned' : e < session
               /\ session \in dirs => session \in dirs'
               /\ \A s \in Sessions : s >= session =>
                     files'[s] = files[s] /\ manifest'[s] = manifest[s]
    <2>1. d # session /\ \A s \in Sessions : s >= session => s # d
      BY <1>0, <1>2, <1>6
    <2> QED BY <1>2, <1>6, <2>1 DEF ControlInv
  <1>7. ASSUME NEW x \in strays, StrayStep(x)
        PROVE  /\ removing' \subseteq condemned' /\ condemned \subseteq condemned'
               /\ \A e \in condemned' : e < session
               /\ session \in dirs => session \in dirs'
               /\ \A s \in Sessions : s >= session =>
                     files'[s] = files[s] /\ manifest'[s] = manifest[s]
    <2>1. \A s \in Sessions : s >= session => s # x.session
      BY <1>0, <1>3, <1>7
    <2> QED BY <1>3, <1>7, <2>1 DEF ControlInv
  <1> QED BY <1>4, <1>5, <1>6, <1>7 DEF Beside
-----------------------------------------------------------------------------
(***************************************************************************)
(* Every step preserves ControlInv.                                        *)
(***************************************************************************)

\* After HandleDiscontinuity the task finalizes its segment or goes on.
LEMMA DiscontinuityControl ==
    ASSUME NEW why \in {"gap", "mismatch"}, HandleDiscontinuity(why)
    PROVE  /\ cont' = why
           /\ segment # NoSegment => pc' = "segment"
           /\ segment = NoSegment => pc' = (IF why = "mismatch" THEN "packet" ELSE "recv")
           /\ UNCHANGED <<entries, nextSeq, segment, latest, evicted>>
  BY DEF HandleDiscontinuity, Discontinued

\* No action leaves the task where it lacks what its next step needs.
LEMMA ControlStep == IndInv /\ [Next]_vars => ControlInv'
  <1> SUFFICES ASSUME IndInv, [Next]_vars PROVE ControlInv'
    OBVIOUS
  <1> USE BoundsAssumption DEF disk, media, decode, hls, run, Cont
  <1>0. TypeOK /\ ControlInv /\ PlaylistInv /\ StrayInv
    BY DEF IndInv
  <1>1. ASSUME NEW seeded \in BOOLEAN, NEW readable \in BOOLEAN,
               StartSession(seeded, readable)
        PROVE  ControlInv'
    <2>1. /\ session \in Int /\ session' = session + 1 /\ session' \in Sessions
          /\ dirs' = dirs \cup {session + 1} /\ gc' = gc \cup {session + 1}
          /\ UNCHANGED <<removing, condemned>> /\ pc' = "recv"
          /\ segment' = NoSegment
      BY <1>0, <1>1 DEF StartSession, Fresh, TypeOK, Sessions
    <2>2. gc' \subseteq 1 .. session'
      <3>1. gc \subseteq 1 .. session
        BY <1>0 DEF ControlInv
      <3>2. session \in Nat
        BY <1>0 DEF TypeOK
      <3>3. 1 .. session \subseteq 1 .. (session + 1) /\ session + 1 \in 1 .. (session + 1)
        BY <3>2
      <3> QED BY <2>1, <3>1, <3>3
    <2>3. \A d \in condemned' : d < session'
      <3>1. \A d \in condemned : d \in Int
        BY <1>0 DEF TypeOK, Sessions
      <3> QED BY <1>0, <2>1, <3>1 DEF ControlInv
    <2> QED BY <1>0, <2>1, <2>2, <2>3 DEF ControlInv
  <1>2. CASE RecvGap \/ RecvUnparsable
    <2>1. HandleDiscontinuity("gap")
      BY <1>2 DEF RecvGap, RecvUnparsable
    <2> QED BY <1>0, <1>2, <2>1, DiscontinuityControl
            DEF RecvGap, RecvUnparsable, ControlInv
  <1>4. ASSUME NEW p \in Packets, NEW inOrder \in BOOLEAN, NEW heads \in BOOLEAN,
               RecvRtp(p, inOrder, heads)
        PROVE  ControlInv'
    <2>2. CASE expected /\ ~inOrder
      <3>1. HandleDiscontinuity("mismatch")
        BY <1>4, <2>2 DEF RecvRtp
      <3> QED BY <1>0, <1>4, <3>1, DiscontinuityControl DEF RecvRtp, ControlInv
    <2>3. CASE ~(expected /\ ~inOrder)
      BY <1>0, <1>4, <2>3 DEF RecvRtp, ControlInv
    <2> QED BY <2>2, <2>3
  <1>5. CASE RecvNone
    BY <1>0, <1>5 DEF RecvNone, ControlInv
  <1>6. CASE ProcessPacket
    <2>1. CASE Undecodable(fu, pkt.payload)
      <3>1. HandleDiscontinuity("gap")
        BY <1>6, <2>1 DEF ProcessPacket
      <3> QED BY <1>0, <1>6, <3>1, DiscontinuityControl DEF ProcessPacket, ControlInv
    <2>2. CASE ~Undecodable(fu, pkt.payload)
      <3>1. /\ pc = "packet"
            /\ pc' \in {"au", "recv"}
            /\ UNCHANGED <<disk, cont, hls, session>>
        BY <1>6, <2>2 DEF ProcessPacket
      <3> QED BY <1>0, <3>1 DEF ControlInv
    <2> QED BY <2>1, <2>2
  <1>7. ASSUME NEW due \in BOOLEAN, HandleAccessUnit(due)
        PROVE  ControlInv'
    BY <1>0, <1>7 DEF HandleAccessUnit, ControlInv
  <1>8. CASE OpenSegment
    <2>1. segment' # NoSegment
      BY <1>0, <1>8 DEF OpenSegment, NoSegment, TypeOK
    <2> QED BY <1>0, <1>8, <2>1 DEF OpenSegment, ControlInv
  <1>9. CASE WriteAccessUnit
    <2>1. segment \in Segment
      BY <1>0, <1>9 DEF WriteAccessUnit, ControlInv, TypeOK
    <2>2. segment'.written /\ segment' # NoSegment
      BY <1>9, <2>1 DEF WriteAccessUnit, Segment, NoSegment
    <2> QED BY <1>0, <1>9, <2>2 DEF WriteAccessUnit, ControlInv
  <1>10. CASE PublishSegment
    BY <1>0, <1>10 DEF PublishSegment, ControlInv
  <1>11. CASE PublishManifest
    BY <1>0, <1>11 DEF PublishManifest, ControlInv
  <1>12. CASE EvictSegments
    <2>1. segment.seq \in Nat /\ segment.seq > 0
      BY <1>0, <1>12 DEF EvictSegments, ControlInv, TypeOK, Segment, Seqs
    <2> QED BY <1>0, <1>12, <2>1 DEF EvictSegments, Discontinued, ControlInv, TypeOK
  <1>13. CASE WritePointer
    BY <1>0, <1>13 DEF WritePointer, ControlInv
  <1>14. CASE Stopped \/ Die \/ Crash
    BY <1>0, <1>14 DEF Stopped, Die, Crash, Forget, Fresh, ControlInv
  <1>16. CASE Beside
    BY <1>0, <1>16, BesideFacts DEF ControlInv
  <1>17. CASE UNCHANGED vars
    BY <1>0, <1>17 DEF ControlInv, vars
  <1> QED
    BY <1>1, <1>2, <1>4, <1>5, <1>6, <1>7, <1>8, <1>9, <1>10, <1>11, <1>12,
       <1>13, <1>14, <1>16, <1>17 DEF Next, FaultFree, Receiving, Handling, Beside
-----------------------------------------------------------------------------
(***************************************************************************)
(* Every step preserves PlaylistInv.                                       *)
(***************************************************************************)

\* Steps that leave the playlist, the manifests and the segments alone.
LEMMA PlaylistUnchanged ==
    ASSUME PlaylistInv,
           UNCHANGED <<manifest, session, entries, nextSeq, segment, latest>>,
           pc # "evict", pc' # "evict", pc # "down" \/ pc' = "down"
    PROVE  PlaylistInv'
  BY DEF PlaylistInv

\* No action separates the playlist in memory from the manifest on disk.
LEMMA PlaylistStep == IndInv /\ [Next]_vars => PlaylistInv'
  <1> SUFFICES ASSUME IndInv, [Next]_vars PROVE PlaylistInv'
    OBVIOUS
  <1> USE BoundsAssumption DEF disk, media, decode, hls, run, Cont
  <1>0. TypeOK /\ ControlInv /\ PlaylistInv /\ StrayInv
    BY DEF IndInv
  <1>1. ASSUME NEW seeded \in BOOLEAN, NEW readable \in BOOLEAN,
               StartSession(seeded, readable)
        PROVE  PlaylistInv'
    <2>1. session' = session + 1 /\ session' \in Sessions /\ session \in Nat
      BY <1>0, <1>1 DEF StartSession, TypeOK, Sessions
    <2>2. manifest'[session'] = <<>>
      BY <1>0, <1>1, <2>1 DEF StartSession, PlaylistInv, Sessions
    <2>3. \A s \in Sessions : s > session' => manifest'[s] = <<>>
      BY <1>0, <1>1, <2>1 DEF StartSession, PlaylistInv, Sessions
    <2>4. entries' = <<>> /\ latest' = 0 /\ nextSeq' = 1 /\ segment' = NoSegment /\ pc' = "recv"
      BY <1>1 DEF StartSession, Fresh
    <2> QED BY <2>2, <2>3, <2>4 DEF PlaylistInv
  <1>2. CASE RecvGap \/ RecvUnparsable
    <2>1. HandleDiscontinuity("gap")
      BY <1>2 DEF RecvGap, RecvUnparsable
    <2> QED BY <1>0, <1>2, <2>1, DiscontinuityControl, PlaylistUnchanged
            DEF RecvGap, RecvUnparsable
  <1>4. ASSUME NEW p \in Packets, NEW inOrder \in BOOLEAN, NEW heads \in BOOLEAN,
               RecvRtp(p, inOrder, heads)
        PROVE  PlaylistInv'
    <2>2. CASE expected /\ ~inOrder
      <3>1. HandleDiscontinuity("mismatch")
        BY <1>4, <2>2 DEF RecvRtp
      <3> QED BY <1>0, <1>4, <3>1, DiscontinuityControl, PlaylistUnchanged DEF RecvRtp
    <2>3. CASE ~(expected /\ ~inOrder)
      BY <1>0, <1>4, <2>3, PlaylistUnchanged DEF RecvRtp
    <2> QED BY <2>2, <2>3
  <1>5. CASE RecvNone
    BY <1>0, <1>5, PlaylistUnchanged DEF RecvNone
  <1>6. CASE ProcessPacket
    <2>1. CASE Undecodable(fu, pkt.payload)
      <3>1. HandleDiscontinuity("gap")
        BY <1>6, <2>1 DEF ProcessPacket
      <3> QED BY <1>0, <1>6, <3>1, DiscontinuityControl, PlaylistUnchanged DEF ProcessPacket
    <2>2. CASE ~Undecodable(fu, pkt.payload)
      <3>1. /\ pc = "packet"
            /\ pc' \in {"au", "recv"}
            /\ UNCHANGED <<disk, hls, session>>
        BY <1>6, <2>2 DEF ProcessPacket
      <3> QED BY <1>0, <3>1, PlaylistUnchanged
    <2> QED BY <2>1, <2>2
  <1>7. ASSUME NEW due \in BOOLEAN, HandleAccessUnit(due)
        PROVE  PlaylistInv'
    BY <1>0, <1>7, PlaylistUnchanged DEF HandleAccessUnit
  <1>8. CASE OpenSegment
    <2>1. segment'.seq = nextSeq /\ nextSeq' = nextSeq + 1 /\ nextSeq \in Nat /\ latest \in Nat
      BY <1>0, <1>8 DEF OpenSegment, TypeOK
    <2> QED BY <1>0, <1>8, <2>1 DEF OpenSegment, PlaylistInv
  <1>9. CASE WriteAccessUnit
    <2>1. segment \in Segment
      BY <1>0, <1>9 DEF WriteAccessUnit, ControlInv, TypeOK
    <2>2. segment'.seq = segment.seq /\ segment # NoSegment
      BY <1>9, <2>1 DEF WriteAccessUnit, Segment, NoSegment, Seqs
    <2> QED BY <1>0, <1>9, <2>2 DEF WriteAccessUnit, PlaylistInv
  <1>10. CASE PublishSegment
    BY <1>0, <1>10, PlaylistUnchanged DEF PublishSegment
  <1>11. CASE PublishManifest
    <2>1. segment \in Segment /\ entries \in Seq(Entry) /\ session \in Sessions
      BY <1>0, <1>11 DEF PublishManifest, ControlInv, TypeOK
    <2>2. Pushed \in Seq(Entry) /\ Pushed # <<>> /\ Pushed[Len(Pushed)].seq = segment.seq
      BY <2>1, PushedFacts
    <2>3. entries' # <<>> /\ entries'[Len(entries')].seq = segment.seq
      BY <1>11, <2>2, WindowedFacts DEF PublishManifest
    <2>4. entries' = manifest'[session]
      BY <1>0, <1>11, <2>1 DEF PublishManifest, TypeOK
    <2>5. \A s \in Sessions : s > session => manifest'[s] = manifest[s]
      BY <1>0, <1>11, <2>1 DEF PublishManifest, TypeOK, Sessions
    <2> QED BY <1>0, <1>11, <2>3, <2>4, <2>5 DEF PublishManifest, PlaylistInv
  <1>12. CASE EvictSegments
    <2>1. segment.seq \in Nat /\ segment.seq > 0 /\ segment # NoSegment
      BY <1>0, <1>12 DEF EvictSegments, ControlInv, TypeOK, Segment, Seqs
    <2>2. pc = "evict" /\ pc' \in {"packet", "recv", "pointer"} /\ segment' = NoSegment
          /\ latest' = segment.seq /\ UNCHANGED <<manifest, session, entries, nextSeq>>
      BY <1>12 DEF EvictSegments, Discontinued
    <2> QED BY <1>0, <2>1, <2>2 DEF PlaylistInv
  <1>13. CASE WritePointer
    BY <1>0, <1>13, PlaylistUnchanged DEF WritePointer
  <1>14. CASE Stopped \/ Die \/ Crash
    <2>1. /\ pc' = "down" /\ entries' = <<>> /\ nextSeq' = 1
          /\ segment' = NoSegment /\ latest' = 0
          /\ UNCHANGED <<manifest, session>>
      BY <1>14 DEF Stopped, Die, Crash, Forget, Fresh
    <2> QED BY <1>0, <2>1 DEF PlaylistInv
  <1>16. CASE Beside
    <2>1. /\ UNCHANGED <<hls, run>>
          /\ \A s \in Sessions : s >= session => manifest'[s] = manifest[s]
      BY <1>0, <1>16, BesideFacts
    <2>2. pc # "down" => manifest'[session] = manifest[session]
      BY <1>0, <2>1 DEF ControlInv, TypeOK
    <2>3. ASSUME NEW d \in Sessions, d > session PROVE manifest'[d] = <<>>
      <3>1. manifest[d] = <<>>
        BY <1>0, <2>3 DEF PlaylistInv
      <3>2. d >= session
        BY <1>0, <2>3 DEF TypeOK, Sessions
      <3> QED BY <2>1, <3>1, <3>2
    <2> QED BY <1>0, <2>1, <2>2, <2>3 DEF PlaylistInv
  <1>17. CASE UNCHANGED vars
    BY <1>0, <1>17 DEF PlaylistInv, vars
  <1> QED
    BY <1>1, <1>2, <1>4, <1>5, <1>6, <1>7, <1>8, <1>9, <1>10, <1>11, <1>12,
       <1>13, <1>14, <1>16, <1>17 DEF Next, FaultFree, Receiving, Handling, Beside
-----------------------------------------------------------------------------
(***************************************************************************)
(* Every step preserves FilesInv.                                          *)
(***************************************************************************)

\* Steps that leave the directories alone and are not inside push_segment.
LEMMA FilesUnchanged ==
    ASSUME FilesInv, UNCHANGED <<files, manifest, condemned>>, pc' \notin {"manifest", "evict"}
    PROVE  FilesInv'
  BY DEF FilesInv, Servable

\* What a stray or a cleanup does to a directory that is not being deleted
\* leaves its manifest with all its segments.
LEMMA BesideServable ==
    ASSUME TypeOK, ControlInv, StrayInv, Servable, Beside
    PROVE  Servable'
  <1>1. ASSUME NEW s \in Sessions, CleanupOldSessions(s) PROVE Servable'
    <2>1. condemned \subseteq condemned' /\ UNCHANGED <<files, manifest>>
      BY <1>1 DEF CleanupOldSessions
    <2> QED BY <2>1 DEF Servable
  <1>2. ASSUME NEW d \in Sessions, RemoveEntry(d) \/ RemovalEnds(d) PROVE Servable'
    <2>1. d \in condemned /\ UNCHANGED condemned
      BY <1>2 DEF RemoveEntry, RemovalEnds, ControlInv
    <2>2. \A s \in Sessions \ {d} : files'[s] = files[s] /\ manifest'[s] = manifest[s]
      BY <1>2 DEF RemoveEntry, RemovalEnds, TypeOK
    <2> QED BY <2>1, <2>2 DEF Servable
  <1>3. ASSUME NEW x \in strays, StrayStep(x) PROVE Servable'
    <2>0. /\ x \in Stray /\ x.session \in Sessions /\ StrayOK(x) /\ x.entries \in Seq(Entry)
          /\ UNCHANGED condemned
      BY <1>3 DEF TypeOK, Stray, StrayInv, StrayStep
    <2>1. \A s \in Sessions \ {x.session} : files'[s] = files[s] /\ manifest'[s] = manifest[s]
      BY <1>3, <2>0 DEF StrayStep, StraySegment, StrayManifest, StrayEvict, StrayPointer,
                        StrayStops, StrayDies, TypeOK
    <2> SUFFICES ASSUME x.session \notin condemned
                 PROVE  Listed(manifest'[x.session]) \subseteq files'[x.session]
      BY <2>0, <2>1 DEF Servable
    <2>2. /\ Listed(manifest[x.session]) \subseteq files[x.session]
          /\ manifest[x.session] = x.entries
      BY <2>0 DEF Servable, StrayOK
    <2>3. CASE \E why \in {"gap", "rotate", "stop"} : StraySegment(x, why)
      <3>1. files'[x.session] = files[x.session] \cup {x.next} /\ UNCHANGED manifest
        BY <2>0, <2>3 DEF StraySegment, TypeOK
      <3> QED BY <2>2, <3>1
    <2>4. ASSUME NEW tag \in BOOLEAN, StrayManifest(x, tag)
          PROVE  Listed(manifest'[x.session]) \subseteq files'[x.session]
      <3> DEFINE e == [seq |-> x.next, discontinuity |-> tag]
                 q == Append(x.entries, e)
      <3>1. e \in Entry /\ e.seq = x.next
        BY <2>0, <2>4, BoundsAssumption DEF StrayManifest, StrayOK, Stray, Entry, Seqs
      <3>2. /\ manifest'[x.session] = Windowed(q)
            /\ UNCHANGED files /\ x.next \in files[x.session]
        BY <2>0, <2>4 DEF StrayManifest, StrayOK, TypeOK
      <3> HIDE DEF e
      <3>3. q \in Seq(Entry) /\ q # <<>> /\ Listed(q) = Listed(x.entries) \cup {e.seq}
        BY <2>0, <3>1, AppendFacts
      <3> HIDE DEF q
      <3>4. Listed(Windowed(q)) \subseteq Listed(q)
        BY <3>3, WindowedFacts
      <3> QED BY <2>2, <3>1, <3>2, <3>3, <3>4
    <2>5. CASE StrayEvict(x)
      <3>1. /\ files'[x.session] = files[x.session] \ x.evicted /\ UNCHANGED manifest
            /\ x.evicted \cap Listed(x.entries) = {}
        BY <2>0, <2>5 DEF StrayEvict, StrayOK, TypeOK
      <3> QED BY <2>2, <3>1
    <2>6. CASE StrayPointer(x) \/ StrayStops(x) \/ StrayDies(x)
      BY <2>2, <2>6 DEF StrayPointer, StrayStops, StrayDies
    <2> QED BY <1>3, <2>3, <2>4, <2>5, <2>6 DEF StrayStep
  <1> QED BY <1>1, <1>2, <1>3 DEF Beside

\* No action makes a manifest list a file that is not there.
LEMMA FilesStep == IndInv /\ [Next]_vars => FilesInv'
  <1> SUFFICES ASSUME IndInv, [Next]_vars PROVE FilesInv'
    OBVIOUS
  <1> USE BoundsAssumption DEF disk, media, decode, hls, run, Cont
  <1>0. TypeOK /\ ControlInv /\ PlaylistInv /\ FilesInv /\ StrayInv
    BY DEF IndInv
  <1>a. session \notin condemned
    BY <1>0 DEF ControlInv, TypeOK
  <1>1. ASSUME NEW seeded \in BOOLEAN, NEW readable \in BOOLEAN,
               StartSession(seeded, readable)
        PROVE  FilesInv'
    BY <1>0, <1>1, FilesUnchanged DEF StartSession
  <1>2. CASE RecvGap \/ RecvUnparsable
    <2>1. HandleDiscontinuity("gap")
      BY <1>2 DEF RecvGap, RecvUnparsable
    <2> QED BY <1>0, <1>2, <2>1, DiscontinuityControl, FilesUnchanged
            DEF RecvGap, RecvUnparsable
  <1>4. ASSUME NEW p \in Packets, NEW inOrder \in BOOLEAN, NEW heads \in BOOLEAN,
               RecvRtp(p, inOrder, heads)
        PROVE  FilesInv'
    <2>2. CASE expected /\ ~inOrder
      <3>1. HandleDiscontinuity("mismatch")
        BY <1>4, <2>2 DEF RecvRtp
      <3> QED BY <1>0, <1>4, <3>1, DiscontinuityControl, FilesUnchanged DEF RecvRtp
    <2>3. CASE ~(expected /\ ~inOrder)
      BY <1>0, <1>4, <2>3, FilesUnchanged DEF RecvRtp
    <2> QED BY <2>2, <2>3
  <1>5. CASE RecvNone
    BY <1>0, <1>5, FilesUnchanged DEF RecvNone
  <1>6. CASE ProcessPacket
    <2>1. CASE Undecodable(fu, pkt.payload)
      <3>1. HandleDiscontinuity("gap")
        BY <1>6, <2>1 DEF ProcessPacket
      <3> QED BY <1>0, <1>6, <3>1, DiscontinuityControl, FilesUnchanged DEF ProcessPacket
    <2>2. CASE ~Undecodable(fu, pkt.payload)
      <3>1. pc' \in {"au", "recv"} /\ UNCHANGED disk
        BY <1>6, <2>2 DEF ProcessPacket
      <3> QED BY <1>0, <3>1, FilesUnchanged
    <2> QED BY <2>1, <2>2
  <1>7. ASSUME NEW due \in BOOLEAN, HandleAccessUnit(due)
        PROVE  FilesInv'
    BY <1>0, <1>7, FilesUnchanged DEF HandleAccessUnit
  <1>8. CASE OpenSegment
    BY <1>0, <1>8, FilesUnchanged DEF OpenSegment
  <1>9. CASE WriteAccessUnit
    BY <1>0, <1>9, FilesUnchanged DEF WriteAccessUnit
  <1>10. CASE PublishSegment
    <2>1. session \in Sessions
      BY <1>0, <1>10 DEF PublishSegment, ControlInv
    <2>2. /\ segment'.seq \in files'[session']
          /\ \A s \in Sessions : files[s] \subseteq files'[s]
      BY <1>0, <1>10, <2>1 DEF PublishSegment, TypeOK
    <2>3. pc' = "manifest" /\ UNCHANGED <<manifest, condemned>>
      BY <1>10 DEF PublishSegment
    <2> QED BY <1>0, <2>2, <2>3 DEF FilesInv, Servable
  <1>11. CASE PublishManifest
    <2>1. segment \in Segment /\ entries \in Seq(Entry) /\ session \in Sessions
      BY <1>0, <1>11 DEF PublishManifest, ControlInv, TypeOK
    <2>2. /\ Pushed \in Seq(Entry) /\ Pushed # <<>>
          /\ Listed(Pushed) = Listed(entries) \cup {segment.seq}
      BY <2>1, PushedFacts
    <2>3. Listed(Windowed(Pushed)) \subseteq Listed(entries) \cup {segment.seq}
      BY <2>2, WindowedFacts
    <2>4. Listed(entries) \cup {segment.seq} \subseteq files[session]
      BY <1>0, <1>a, <1>11, <2>1
         DEF PublishManifest, PlaylistInv, FilesInv, Servable
    <2>5. \A s \in Sessions \ condemned : Listed(manifest'[s]) \subseteq files[s]
      <3> SUFFICES ASSUME NEW s \in Sessions \ condemned PROVE Listed(manifest'[s]) \subseteq files[s]
        OBVIOUS
      <3>1. CASE s = session
        <4>1. manifest'[s] = Windowed(Pushed)
          BY <1>0, <1>11, <3>1 DEF PublishManifest, TypeOK
        <4> QED BY <2>3, <2>4, <3>1, <4>1
      <3>2. CASE s # session
        <4>1. manifest'[s] = manifest[s]
          BY <1>0, <1>11, <3>2 DEF PublishManifest, TypeOK
        <4> QED BY <1>0, <4>1 DEF FilesInv, Servable
      <3> QED BY <3>1, <3>2
    <2>6. evicted' \cap Listed(entries') = {}
      BY <1>11 DEF PublishManifest, Evicted
    <2>7. pc' = "evict" /\ UNCHANGED <<files, condemned>>
      BY <1>11 DEF PublishManifest
    <2> QED BY <2>5, <2>6, <2>7 DEF FilesInv, Servable
  <1>12. CASE EvictSegments
    <2>1. session \in Sessions /\ entries = manifest[session] /\ pc = "evict"
      BY <1>0, <1>12 DEF EvictSegments, ControlInv, PlaylistInv
    <2>2. /\ files' = [files EXCEPT ![session] = @ \ evicted]
          /\ UNCHANGED <<manifest, condemned>>
      BY <1>12 DEF EvictSegments
    <2>3. pc' \in {"packet", "recv", "pointer"}
      BY <1>12 DEF EvictSegments, Discontinued
    <2>4. \A s \in Sessions \ condemned : Listed(manifest'[s]) \subseteq files'[s]
      <3> SUFFICES ASSUME NEW s \in Sessions \ condemned PROVE Listed(manifest[s]) \subseteq files'[s]
        BY <2>2
      <3>1. CASE s = session
        <4>1. files'[s] = files[s] \ evicted
          BY <1>0, <2>2, <3>1 DEF TypeOK
        <4> QED BY <1>0, <2>1, <3>1, <4>1 DEF FilesInv, Servable
      <3>2. CASE s # session
        <4>1. files'[s] = files[s]
          BY <1>0, <2>2, <3>2 DEF TypeOK
        <4> QED BY <1>0, <4>1 DEF FilesInv, Servable
      <3> QED BY <3>1, <3>2
    <2> QED BY <2>2, <2>3, <2>4 DEF FilesInv, Servable
  <1>13. CASE WritePointer
    BY <1>0, <1>13, FilesUnchanged DEF WritePointer
  <1>14. CASE Stopped \/ Die \/ Crash
    <2>1. pc' = "down" /\ UNCHANGED <<files, manifest, condemned>>
      BY <1>14 DEF Stopped, Die, Crash, Forget
    <2> QED BY <1>0, <2>1, FilesUnchanged
  <1>16. CASE Beside
    <2>1. /\ UNCHANGED <<hls, run>>
          /\ \A s \in Sessions : s >= session => files'[s] = files[s]
      BY <1>0, <1>16, BesideFacts
    <2>2. pc = "manifest" => segment.seq \in files'[session]
      BY <1>0, <2>1 DEF FilesInv, ControlInv, TypeOK
    <2>3. Servable'
      BY <1>0, <1>16, BesideServable DEF FilesInv
    <2>4. Listed(entries)' = Listed(entries)
      BY <2>1 DEF Listed
    <2> QED BY <1>0, <2>1, <2>2, <2>3, <2>4 DEF FilesInv
  <1>17. CASE UNCHANGED vars
    BY <1>0, <1>17 DEF FilesInv, Servable, vars
  <1> QED
    BY <1>1, <1>2, <1>4, <1>5, <1>6, <1>7, <1>8, <1>9, <1>10, <1>11, <1>12,
       <1>13, <1>14, <1>16, <1>17 DEF Next, FaultFree, Receiving, Handling, Beside
-----------------------------------------------------------------------------
(***************************************************************************)
(* Every step preserves PointerInv.                                        *)
(***************************************************************************)

\* Steps that neither write the pointer nor touch what it names.
LEMMA PointerUnchanged ==
    ASSUME PointerInv,
           UNCHANGED <<pointer, dirs, manifest, condemned, session, generation, latest>>,
           pc # "down" \/ pc' = "down"
    PROVE  PointerInv'
  BY DEF PointerInv, PointerSound

\* A stray writes the pointer from its own playlist; a cleanup takes away what the
\* pointer names only after it has begun to delete that session.
LEMMA BesidePointer ==
    ASSUME TypeOK, ControlInv, StrayInv, PointerSound, Beside
    PROVE  PointerSound' /\ (pointer' = pointer \/ pointer'.session < session)
  <1>a. /\ pointer # NoPointer => pointer.session \in Sessions
        /\ pointer.last \in Nat
    BY DEF TypeOK, Pointer, NoPointer, Seqs
  <1>1. ASSUME NEW s \in Sessions, CleanupOldSessions(s)
        PROVE  PointerSound' /\ pointer' = pointer
    <2>1. condemned \subseteq condemned' /\ UNCHANGED <<dirs, manifest, pointer, session>>
      BY <1>1 DEF CleanupOldSessions, run
    <2> QED BY <2>1 DEF PointerSound
  <1>2. ASSUME NEW d \in Sessions, RemoveEntry(d) \/ RemovalEnds(d)
        PROVE  PointerSound' /\ pointer' = pointer
    <2>1. d \in condemned /\ d < session /\ UNCHANGED <<condemned, pointer, session>>
      BY <1>2 DEF RemoveEntry, RemovalEnds, ControlInv, run
    <2>2. /\ \A s \in Sessions \ {d} : manifest'[s] = manifest[s]
          /\ dirs \ {d} \subseteq dirs'
      BY <1>2 DEF RemoveEntry, RemovalEnds, TypeOK
    <2>3. CASE pointer.session = d
      BY <2>1, <2>3 DEF PointerSound
    <2>4. CASE pointer.session # d
      <3>1. pointer # NoPointer => manifest'[pointer.session] = manifest[pointer.session]
        BY <1>a, <2>2, <2>4
      <3> QED BY <2>1, <2>2, <2>4, <3>1 DEF PointerSound
    <2> QED BY <2>1, <2>3, <2>4
  <1>3. ASSUME NEW x \in strays, StrayStep(x)
        PROVE  PointerSound' /\ (pointer' = pointer \/ pointer'.session < session)
    <2>0. /\ x \in Stray /\ x.session \in Sessions /\ StrayOK(x) /\ x.entries \in Seq(Entry)
          /\ x.session < session /\ UNCHANGED <<condemned, session>>
      BY <1>3 DEF TypeOK, Stray, StrayInv, StrayStep, StrayOK, run
    <2>1. \A s \in Sessions \ {x.session} : manifest'[s] = manifest[s]
      BY <1>3, <2>0 DEF StrayStep, StraySegment, StrayManifest, StrayEvict, StrayPointer,
                        StrayStops, StrayDies, TypeOK
    <2>2. dirs \subseteq dirs'
      BY <1>3 DEF StrayStep, StraySegment, StrayManifest, StrayEvict, StrayPointer,
                  StrayStops, StrayDies
    <2>3. x.session \notin condemned => x.session \in dirs /\ manifest[x.session] = x.entries
      BY <2>0 DEF StrayOK
    <2>4. ASSUME UNCHANGED pointer, pointer.session # x.session \/ UNCHANGED manifest
          PROVE  PointerSound' /\ pointer' = pointer
      <3>1. pointer # NoPointer => manifest'[pointer.session] = manifest[pointer.session]
        BY <1>a, <2>1, <2>4
      <3> QED BY <2>0, <2>2, <2>4, <3>1 DEF PointerSound
    <2>5. CASE (\E why \in {"gap", "rotate", "stop"} : StraySegment(x, why))
               \/ StrayEvict(x) \/ StrayDies(x)
      BY <2>4, <2>5 DEF StraySegment, StrayEvict, StrayDies
    <2>6. ASSUME NEW tag \in BOOLEAN, StrayManifest(x, tag), pointer.session = x.session
          PROVE  PointerSound' /\ pointer' = pointer
      <3> DEFINE e == [seq |-> x.next, discontinuity |-> tag]
                 q == Append(x.entries, e)
                 w == Windowed(q)
      <3>1. e \in Entry /\ e.seq = x.next
        BY <2>0, <2>6, BoundsAssumption DEF StrayManifest, StrayOK, Stray, Entry, Seqs
      <3>2. manifest'[x.session] = w /\ UNCHANGED pointer
        BY <2>0, <2>6 DEF StrayManifest, TypeOK
      <3> HIDE DEF e
      <3>3. q \in Seq(Entry) /\ q # <<>> /\ q[Len(q)].seq = e.seq
        BY <2>0, <3>1, AppendFacts
      <3> HIDE DEF q
      <3>4. w # <<>> /\ w[Len(w)].seq = x.next
        BY <3>1, <3>3, WindowedFacts
      <3> HIDE DEF w
      <3>5. pointer.state = "ready" /\ pointer.last <= x.next
        <4>1. /\ pointer.state = "ready" /\ x.entries # <<>> /\ x.at = "manifest"
              /\ pointer.last <= Last(x.entries) /\ Last(x.entries) < x.next
          BY <2>0, <2>6 DEF StrayOK, StrayManifest
        <4>2. Last(x.entries) \in Int /\ x.next \in Int
          BY <2>0, <4>1, LastType DEF Stray
        <4> QED BY <1>a, <4>1, <4>2
      <3>6. x.session \in dirs'
        BY <2>6 DEF StrayManifest
      <3> QED BY <2>6, <3>2, <3>4, <3>5, <3>6 DEF PointerSound
    <2>7. ASSUME NEW state, x.entries # <<>>, pointer' = StrayPointerTo(x, state), UNCHANGED manifest
          PROVE  PointerSound' /\ pointer'.session < session
      <3>1. pointer'.session = x.session /\ pointer'.last = x.entries[Len(x.entries)].seq
        BY <2>7 DEF StrayPointerTo
      <3>3. pointer'.last \in Int
        BY <2>0, <2>7, <3>1, LastType DEF Last
      <3>4. CASE x.session \in condemned
        BY <2>0, <3>1, <3>4 DEF PointerSound
      <3>5. CASE x.session \notin condemned
        <4>1. /\ pointer'.session \in dirs' /\ manifest'[pointer'.session] = x.entries
              /\ pointer'.last = x.entries[Len(x.entries)].seq
          BY <2>2, <2>3, <2>7, <3>1, <3>5
        <4>2. pointer'.last <= x.entries[Len(x.entries)].seq
          BY <3>3, <4>1
        <4> QED BY <2>0, <2>7, <3>1, <4>1, <4>2 DEF PointerSound
      <3> QED BY <2>0, <3>1, <3>4, <3>5
    <2>8. CASE StrayPointer(x)
      <3>1. x.entries # <<>> /\ pointer' = StrayPointerTo(x, "ready") /\ UNCHANGED manifest
        BY <2>0, <2>8 DEF StrayPointer, StrayOK
      <3> QED BY <2>7, <3>1
    <2>9. CASE StrayStops(x)
      <3>1. CASE x.entries # <<>>
        BY <2>7, <2>9, <3>1 DEF StrayStops
      <3>2. CASE x.entries = <<>>
        BY <2>4, <2>9, <3>2 DEF StrayStops
      <3> QED BY <3>1, <3>2
    <2>10. ASSUME NEW tag \in BOOLEAN, StrayManifest(x, tag), pointer.session # x.session
           PROVE  PointerSound' /\ pointer' = pointer
      BY <2>4, <2>10 DEF StrayManifest
    <2> QED BY <1>3, <2>5, <2>6, <2>8, <2>9, <2>10 DEF StrayStep
  <1> QED BY <1>1, <1>2, <1>3 DEF Beside

\* No action makes the pointer name what players cannot find.
LEMMA PointerStep == IndInv /\ [Next]_vars => PointerInv'
  <1> SUFFICES ASSUME IndInv, [Next]_vars PROVE PointerInv'
    OBVIOUS
  <1> USE BoundsAssumption DEF disk, media, decode, hls, run, Cont
  <1>0. TypeOK /\ ControlInv /\ PlaylistInv /\ PointerInv /\ StrayInv
    BY DEF IndInv
  <1>a. /\ pointer.session \in 0 .. MaxSessions
        /\ pointer # NoPointer => pointer.session \in Sessions
        /\ pointer.last \in Nat /\ latest \in Nat /\ session \in Nat
    BY <1>0 DEF TypeOK, Pointer, NoPointer, Sessions, Seqs
  <1>1. ASSUME NEW seeded \in BOOLEAN, NEW readable \in BOOLEAN,
               StartSession(seeded, readable)
        PROVE  PointerInv'
    <2>1. /\ session' = session + 1 /\ dirs' = dirs \cup {session + 1}
          /\ UNCHANGED <<pointer, manifest, condemned>>
      BY <1>1 DEF StartSession
    <2>2. pointer.session <= session
      BY <1>0 DEF PointerInv
    <2>3. PointerSound'
      BY <1>0, <1>a, <2>1, <2>2 DEF PointerInv, PointerSound
    <2> QED BY <1>a, <2>1, <2>2, <2>3 DEF PointerInv
  <1>2. CASE RecvGap \/ RecvUnparsable
    <2>1. HandleDiscontinuity("gap")
      BY <1>2 DEF RecvGap, RecvUnparsable
    <2> QED BY <1>0, <1>2, <2>1, DiscontinuityControl, PointerUnchanged
            DEF RecvGap, RecvUnparsable
  <1>4. ASSUME NEW p \in Packets, NEW inOrder \in BOOLEAN, NEW heads \in BOOLEAN,
               RecvRtp(p, inOrder, heads)
        PROVE  PointerInv'
    <2>2. CASE expected /\ ~inOrder
      <3>1. HandleDiscontinuity("mismatch")
        BY <1>4, <2>2 DEF RecvRtp
      <3> QED BY <1>0, <1>4, <3>1, DiscontinuityControl, PointerUnchanged DEF RecvRtp
    <2>3. CASE ~(expected /\ ~inOrder)
      BY <1>0, <1>4, <2>3, PointerUnchanged DEF RecvRtp
    <2> QED BY <2>2, <2>3
  <1>5. CASE RecvNone
    BY <1>0, <1>5, PointerUnchanged DEF RecvNone
  <1>6. CASE ProcessPacket
    <2>1. CASE Undecodable(fu, pkt.payload)
      <3>1. HandleDiscontinuity("gap")
        BY <1>6, <2>1 DEF ProcessPacket
      <3> QED BY <1>0, <1>6, <3>1, DiscontinuityControl, PointerUnchanged DEF ProcessPacket
    <2>2. CASE ~Undecodable(fu, pkt.payload)
      <3>1. pc = "packet" /\ UNCHANGED <<disk, hls, session, generation>>
        BY <1>6, <2>2 DEF ProcessPacket
      <3> QED BY <1>0, <3>1, PointerUnchanged
    <2> QED BY <2>1, <2>2
  <1>7. ASSUME NEW due \in BOOLEAN, HandleAccessUnit(due)
        PROVE  PointerInv'
    BY <1>0, <1>7, PointerUnchanged DEF HandleAccessUnit
  <1>8. CASE OpenSegment
    BY <1>0, <1>8, PointerUnchanged DEF OpenSegment
  <1>9. CASE WriteAccessUnit
    BY <1>0, <1>9, PointerUnchanged DEF WriteAccessUnit
  <1>10. CASE PublishSegment
    BY <1>0, <1>10, PointerUnchanged DEF PublishSegment
  <1>11. CASE PublishManifest
    <2>1. segment \in Segment /\ entries \in Seq(Entry) /\ session \in Sessions
      BY <1>0, <1>11 DEF PublishManifest, ControlInv, TypeOK
    <2>2. Pushed \in Seq(Entry) /\ Pushed # <<>> /\ Pushed[Len(Pushed)].seq = segment.seq
      BY <2>1, PushedFacts
    <2>3. Windowed(Pushed) # <<>> /\ Windowed(Pushed)[Len(Windowed(Pushed))].seq = segment.seq
      BY <2>2, WindowedFacts
    <2>4. latest < segment.seq /\ segment.seq \in Nat
      BY <1>0, <1>11, <2>1 DEF PublishManifest, ControlInv, PlaylistInv, Segment, Seqs
    <2>5. /\ manifest' = [manifest EXCEPT ![session] = Windowed(Pushed)]
          /\ pc = "manifest" /\ pc' = "evict"
          /\ UNCHANGED <<pointer, dirs, condemned, session, generation, latest>>
      BY <1>11 DEF PublishManifest
    <2>6. CASE pointer.session = session
      <3>1. manifest'[pointer.session] = Windowed(Pushed)
        BY <1>0, <2>1, <2>5, <2>6 DEF TypeOK
      <3>2. pointer.state = "ready" /\ pointer.last <= latest
        BY <1>0, <2>5, <2>6 DEF PointerInv
      <3>3. PointerSound'
        <4>1. pointer.last <= segment.seq
          BY <1>0, <1>a, <2>4, <3>2 DEF TypeOK
        <4>2. session \in dirs
          BY <1>0, <2>5 DEF ControlInv
        <4> QED BY <2>3, <2>5, <2>6, <3>1, <3>2, <4>1, <4>2 DEF PointerSound
      <3> QED BY <1>0, <2>5, <3>3 DEF PointerInv
    <2>7. CASE pointer.session # session
      <3>1. pointer # NoPointer => manifest'[pointer.session] = manifest[pointer.session]
        BY <1>0, <1>a, <2>5, <2>7 DEF TypeOK
      <3>2. PointerSound'
        BY <1>0, <2>5, <3>1 DEF PointerInv, PointerSound
      <3> QED BY <1>0, <2>5, <2>7, <3>2 DEF PointerInv
    <2> QED BY <2>6, <2>7
  <1>12. CASE EvictSegments
    <2>1. latest < segment.seq /\ segment.seq \in Nat
      BY <1>0, <1>12 DEF EvictSegments, ControlInv, PlaylistInv, TypeOK, Segment, Seqs
    <2>2. /\ pc = "evict" /\ latest' = segment.seq
          /\ UNCHANGED <<pointer, dirs, manifest, condemned, session, generation>>
      BY <1>12 DEF EvictSegments
    <2>3. PointerSound'
      BY <1>0, <2>2 DEF PointerInv, PointerSound
    <2> QED BY <1>0, <1>a, <2>1, <2>2, <2>3 DEF PointerInv
  <1>13. CASE WritePointer
    <2>1. /\ pc = "pointer" /\ pointer' = PointerTo("ready")
          /\ UNCHANGED <<dirs, manifest, condemned, session, generation, latest>>
      BY <1>13 DEF WritePointer
    <2>2. /\ manifest[session] # <<>> /\ session \in dirs
          /\ manifest[session][Len(manifest[session])].seq = latest
      BY <1>0, <2>1 DEF ControlInv, PlaylistInv
    <2>3. /\ pointer'.session = session /\ pointer'.generation = generation
          /\ pointer'.state = "ready" /\ pointer'.last = latest
      BY <2>1 DEF PointerTo
    <2>4. PointerSound'
      BY <1>a, <2>1, <2>2, <2>3 DEF PointerSound
    <2> QED BY <1>a, <2>1, <2>3, <2>4 DEF PointerInv
  <1>14. CASE Stopped
    <2>1. /\ pc = "stopped" /\ pc' = "down"
          /\ UNCHANGED <<dirs, manifest, condemned, session, generation>>
      BY <1>14 DEF Stopped, Forget
    <2>2. CASE latest > 0
      <3>1. /\ manifest[session] # <<>> /\ session \in dirs
            /\ manifest[session][Len(manifest[session])].seq = latest
        BY <1>0, <2>1, <2>2 DEF ControlInv, PlaylistInv
      <3>2. pointer'.session = session /\ pointer'.last = latest
        BY <1>14, <2>2 DEF Stopped, PointerTo
      <3>3. PointerSound'
        BY <1>a, <2>1, <3>1, <3>2 DEF PointerSound
      <3> QED BY <1>a, <2>1, <3>2, <3>3 DEF PointerInv
    <2>3. CASE ~(latest > 0)
      <3>1. UNCHANGED pointer
        BY <1>14, <2>3 DEF Stopped
      <3>2. PointerSound'
        BY <1>0, <2>1, <3>1 DEF PointerInv, PointerSound
      <3> QED BY <1>0, <2>1, <3>1, <3>2 DEF PointerInv
    <2> QED BY <2>2, <2>3
  <1>15. CASE Die \/ Crash
    <2>1. pc' = "down" /\ UNCHANGED <<dirs, manifest, pointer, condemned, session, generation>>
      BY <1>15 DEF Die, Crash, Forget
    <2>2. PointerSound'
      BY <1>0, <2>1 DEF PointerInv, PointerSound
    <2> QED BY <1>0, <2>1, <2>2 DEF PointerInv
  <1>16. CASE Beside
    <2>1. UNCHANGED <<hls, run>>
      BY <1>0, <1>16, BesideFacts
    <2>2. /\ PointerSound' /\ (pointer' = pointer \/ pointer'.session < session)
      BY <1>0, <1>16, BesidePointer DEF PointerInv
    <2>3. pointer' \in Pointer \cup {NoPointer}
      BY TypeStep DEF TypeOK
    <2>4. pointer'.session \in Nat
      BY <2>3 DEF Pointer, NoPointer, Sessions
    <2> QED BY <1>0, <1>a, <2>1, <2>2, <2>4 DEF PointerInv
  <1>17. CASE UNCHANGED vars
    BY <1>0, <1>17 DEF PointerInv, PointerSound, vars
  <1> QED
    BY <1>1, <1>2, <1>4, <1>5, <1>6, <1>7, <1>8, <1>9, <1>10, <1>11, <1>12,
       <1>13, <1>14, <1>15, <1>16, <1>17 DEF Next, FaultFree, Receiving, Handling, Beside
-----------------------------------------------------------------------------
(***************************************************************************)
(* Every step preserves StrayInv.                                          *)
(***************************************************************************)

\* A stray is not disturbed by what does not touch its session.
LEMMA StrayKept ==
    ASSUME NEW x, StrayOK(x), x.session \in Sessions,
           session' \in Int, session \in Int, session' >= session,
           condemned \subseteq condemned',
           x.session \notin condemned' =>
              /\ x.session \in dirs => x.session \in dirs'
              /\ files'[x.session] = files[x.session]
              /\ manifest'[x.session] = manifest[x.session],
           pointer' = pointer \/ pointer'.session # x.session
    PROVE  StrayOK(x)'
  <1>1. x.session < session'
    BY DEF StrayOK, Sessions
  <1>2. x.session \notin condemned' =>
          /\ x.session \in dirs'
          /\ manifest'[x.session] = x.entries
          /\ x.at = "manifest" => x.next \in files'[x.session]
    BY DEF StrayOK
  <1> QED BY <1>1, <1>2 DEF StrayOK, Last, Listed

\* A pipeline is a sound stray from the moment it is superseded.
LEMMA SupersededOK ==
    ASSUME IndInv, pc # "down", NEW seeded \in BOOLEAN, NEW readable \in BOOLEAN,
           StartSession(seeded, readable), NEW x, x = Superseded
    PROVE  StrayOK(x)'
  <1> USE BoundsAssumption
  <1>0. TypeOK /\ ControlInv /\ PlaylistInv /\ FilesInv /\ PointerInv
    BY DEF IndInv
  <1>1. /\ x.session = session /\ x.generation = generation /\ x.entries = entries
        /\ x.at = (IF pc \in StrayPC THEN pc ELSE "media") /\ x.evicted = evicted
        /\ x.next = (IF segment # NoSegment THEN segment.seq ELSE nextSeq)
    BY DEF Superseded
  <1>2. /\ session' = session + 1 /\ session \in Int
        /\ UNCHANGED <<files, manifest, pointer, condemned>> /\ dirs \subseteq dirs'
    BY <1>0 DEF StartSession, TypeOK
  <1>3. /\ latest \in Nat /\ nextSeq \in Nat /\ latest < nextSeq
        /\ segment # NoSegment => segment.seq \in 1 .. MaxSeq /\ latest < segment.seq
        /\ pointer.last \in Nat
    BY <1>0 DEF TypeOK, Segment, Seqs, PlaylistInv, Pointer, NoPointer
  <1>4. /\ session \in dirs /\ entries = manifest[session]
        /\ pc = "manifest" => segment.seq \in files[session]
        /\ pc = "evict" => evicted \cap Listed(entries) = {}
    BY <1>0 DEF ControlInv, PlaylistInv, FilesInv
  <1>5. /\ pc = "evict" => entries # <<>> /\ Last(entries) = segment.seq
        /\ pc # "evict" /\ entries # <<>> => latest > 0 /\ Last(entries) = latest
        /\ pc # "evict" /\ latest > 0 => entries # <<>>
    BY <1>0, <1>3 DEF PlaylistInv, Last
  <1>6. /\ pc \in {"manifest", "evict"} => segment # NoSegment
        /\ pc = "pointer" => latest > 0
    BY <1>0 DEF ControlInv
  <1>7. pointer.session = session => /\ pointer.generation = generation
                                    /\ pointer.state = "ready"
                                    /\ entries # <<>> /\ pointer.last <= Last(entries)
    <2> SUFFICES ASSUME pointer.session = session
                 PROVE  /\ pointer.generation = generation /\ pointer.state = "ready"
                        /\ entries # <<>> /\ pointer.last <= Last(entries)
      OBVIOUS
    <2>1. /\ pointer.generation = generation /\ pointer.state = "ready"
          /\ pointer.last <= latest
      BY <1>0 DEF PointerInv
    <2>2. pointer # NoPointer
      BY <1>0 DEF NoPointer, ControlInv, Sessions
    <2>3. pointer.last >= 1
      BY <1>0, <2>2 DEF TypeOK, Pointer, Seqs
    <2> QED BY <1>3, <1>5, <1>6, <2>1, <2>3
  <1>8. x.session < session' /\ (x.at \in {"manifest", "evict"} => x.next <= MaxSeq)
    BY <1>1, <1>2, <1>3, <1>6 DEF StrayPC
  <1>9. x.at = "evict" => /\ x.entries # <<>> /\ Last(x.entries) = x.next
                         /\ x.evicted \cap Listed(x.entries) = {}
    BY <1>1, <1>4, <1>5, <1>6 DEF StrayPC
  <1>10. x.at # "evict" /\ x.entries # <<>> => Last(x.entries) < x.next
    BY <1>1, <1>3, <1>5, <1>6 DEF StrayPC
  <1>11. x.at = "pointer" => x.entries # <<>>
    BY <1>1, <1>5, <1>6 DEF StrayPC
  <1>12. /\ x.session \in dirs' /\ manifest'[x.session] = x.entries
         /\ x.at = "manifest" => x.next \in files'[x.session]
    BY <1>1, <1>2, <1>4, <1>6 DEF StrayPC
  <1>13. pointer'.session = x.session =>
           /\ pointer'.generation = x.generation /\ pointer'.state = "ready"
           /\ x.entries # <<>> /\ pointer'.last <= Last(x.entries)
    BY <1>1, <1>2, <1>7
  <1> QED BY <1>8, <1>9, <1>10, <1>11, <1>12, <1>13 DEF StrayOK, Last, Listed

\* The latest pipeline keeps to its own session.
LEMMA PipelineFrame ==
    ASSUME TypeOK, ControlInv,
           Receiving \/ Handling \/ Die \/ Crash \/ UNCHANGED vars
    PROVE  /\ strays' \subseteq strays /\ UNCHANGED <<dirs, condemned, session>>
           /\ \A s \in Sessions \ {session} : files'[s] = files[s] /\ manifest'[s] = manifest[s]
           /\ pointer' = pointer \/ pointer'.session = session
  <1> USE DEF disk, media, decode, hls, run
  <1>1. CASE Receiving
    <2>1. UNCHANGED disk /\ UNCHANGED session
      BY <1>1 DEF Receiving, RecvGap, RecvUnparsable, RecvRtp, RecvNone
    <2> QED BY <2>1
  <1>2. CASE ProcessPacket \/ (\E due \in BOOLEAN : HandleAccessUnit(due))
             \/ OpenSegment \/ WriteAccessUnit \/ UNCHANGED vars
    <2>1. UNCHANGED disk /\ UNCHANGED session
      BY <1>2 DEF ProcessPacket, HandleAccessUnit, OpenSegment, WriteAccessUnit, vars
    <2> QED BY <2>1
  <1>3. CASE PublishSegment \/ PublishManifest \/ EvictSegments
    BY <1>3 DEF PublishSegment, PublishManifest, EvictSegments, TypeOK
  <1>4. CASE WritePointer \/ Stopped
    <2>1. PointerTo("ready").session = session /\ PointerTo("stopped").session = session
      BY DEF PointerTo
    <2>2. /\ UNCHANGED <<dirs, files, manifest, condemned, session, strays>>
          /\ pointer' \in {pointer, PointerTo("ready"), PointerTo("stopped")}
      BY <1>4 DEF WritePointer, Stopped, Forget
    <2> QED BY <2>1, <2>2
  <1>5. CASE Die \/ Crash
    BY <1>5 DEF Die, Crash, Forget
  <1> QED BY <1>1, <1>2, <1>3, <1>4, <1>5 DEF Handling

\* A stray goes from one sound state to the next.
LEMMA StrayMoves ==
    ASSUME TypeOK, ControlInv, StrayInv, NEW x \in strays, StrayStep(x),
           NEW y \in strays', y \notin strays \ {x}
    PROVE  y.session = x.session /\ StrayOK(y)'
  <1> USE BoundsAssumption
  <1>0. /\ x \in Stray /\ x.session \in Sessions /\ StrayOK(x) /\ x.entries \in Seq(Entry)
        /\ x.next \in Int /\ x.session < session
        /\ UNCHANGED <<condemned, session>>
    BY DEF TypeOK, Stray, StrayInv, StrayStep, StrayOK, run
  <1>1. ASSUME NEW why \in {"gap", "rotate", "stop"}, StraySegment(x, why)
        PROVE  y.session = x.session /\ StrayOK(y)'
    <2>1. y = [x EXCEPT !.at = "manifest", !.why = why]
      BY <1>1 DEF StraySegment, Becomes
    <2>2. /\ y.session = x.session /\ y.generation = x.generation /\ y.at = "manifest"
          /\ y.entries = x.entries /\ y.next = x.next
      BY <1>0, <2>1 DEF Stray
    <2>3. /\ x.at = "media" /\ x.next <= MaxSeq /\ UNCHANGED <<manifest, pointer>>
          /\ x.session \in dirs' /\ x.next \in files'[x.session]
      BY <1>0, <1>1 DEF StraySegment, TypeOK
    <2> QED BY <1>0, <2>2, <2>3 DEF StrayOK, Last, Listed
  <1>2. ASSUME NEW tag \in BOOLEAN, StrayManifest(x, tag)
        PROVE  y.session = x.session /\ StrayOK(y)'
    <2> DEFINE e == [seq |-> x.next, discontinuity |-> tag]
               q == Append(x.entries, e)
               w == Windowed(q)
    <2>1. e \in Entry /\ e.seq = x.next
      BY <1>0, <1>2 DEF StrayManifest, StrayOK, Stray, Entry, Seqs
    <2>2. y = [x EXCEPT !.at = "evict", !.entries = w, !.evicted = Listed(q) \ Listed(w)]
      BY <1>2 DEF StrayManifest, Becomes
    <2>3. /\ x.at = "manifest" /\ x.next <= MaxSeq /\ UNCHANGED pointer
          /\ x.session \in dirs' /\ manifest'[x.session] = w
      BY <1>0, <1>2 DEF StrayManifest, StrayOK, TypeOK
    <2> HIDE DEF e
    <2>4. q \in Seq(Entry) /\ q # <<>> /\ q[Len(q)].seq = e.seq
      BY <1>0, <2>1, AppendFacts
    <2> HIDE DEF q
    <2>5. w # <<>> /\ Last(w) = x.next
      BY <2>1, <2>4, WindowedFacts DEF Last
    <2>6. /\ y.session = x.session /\ y.generation = x.generation /\ y.at = "evict"
          /\ y.entries = w /\ y.next = x.next /\ y.evicted \cap Listed(w) = {}
      BY <1>0, <2>2 DEF Stray
    <2> HIDE DEF w
    <2>7. pointer.session = x.session =>
             /\ pointer.generation = x.generation /\ pointer.state = "ready"
             /\ pointer.last <= x.next
      <3> SUFFICES ASSUME pointer.session = x.session
                   PROVE  /\ pointer.generation = x.generation /\ pointer.state = "ready"
                          /\ pointer.last <= x.next
        OBVIOUS
      <3>1. /\ pointer.generation = x.generation /\ pointer.state = "ready"
            /\ x.entries # <<>> /\ pointer.last <= Last(x.entries) /\ Last(x.entries) < x.next
        BY <1>0, <2>3 DEF StrayOK
      <3>3. Last(x.entries) \in Int /\ pointer.last \in Int
        <4>1. Last(x.entries) \in Int
          BY <1>0, <3>1, LastType
        <4> QED BY <4>1 DEF Seqs, TypeOK, Pointer, NoPointer
      <3> QED BY <1>0, <3>1, <3>3
    <2> QED BY <1>0, <2>3, <2>5, <2>6, <2>7 DEF StrayOK, Last, Listed
  <1>3. ASSUME StrayEvict(x)
        PROVE  y.session = x.session /\ StrayOK(y)'
    <2>1. y = [x EXCEPT !.at = IF x.why \in {"rotate", "stop"} THEN "pointer" ELSE "media",
                        !.next = x.next + 1, !.evicted = {}]
      BY <1>3 DEF StrayEvict, Becomes
    <2>2. /\ y.session = x.session /\ y.generation = x.generation
          /\ y.at \in {"pointer", "media"} /\ y.entries = x.entries /\ y.next = x.next + 1
      BY <1>0, <2>1 DEF Stray
    <2>3. x.at = "evict" /\ UNCHANGED <<dirs, manifest, pointer>>
      BY <1>3 DEF StrayEvict
    <2> QED BY <1>0, <2>2, <2>3 DEF StrayOK, Last, Listed
  <1>4. ASSUME StrayPointer(x)
        PROVE  y.session = x.session /\ StrayOK(y)'
    <2>1. y = [x EXCEPT !.at = IF x.why = "rotate" THEN "media" ELSE "stopped"]
      BY <1>4 DEF StrayPointer, Becomes
    <2>2. /\ y.session = x.session /\ y.generation = x.generation
          /\ y.at \in {"media", "stopped"} /\ y.entries = x.entries /\ y.next = x.next
      BY <1>0, <2>1 DEF Stray
    <2>3. x.at = "pointer" /\ UNCHANGED <<dirs, files, manifest>>
      BY <1>4 DEF StrayPointer
    <2>4. /\ pointer'.generation = x.generation /\ pointer'.state = "ready"
          /\ pointer'.last = Last(x.entries)
      BY <1>4 DEF StrayPointer, StrayPointerTo, Last
    <2>5. x.entries # <<>>
      BY <1>0, <2>3 DEF StrayOK
    <2>7. Last(x.entries) \in Int
      BY <1>0, <2>5, LastType
    <2>8. Last(x.entries) <= Last(x.entries)
      BY <2>7
    <2> QED BY <1>0, <2>2, <2>3, <2>4, <2>5, <2>8 DEF StrayOK, Last, Listed
  <1>5. ~(StrayStops(x) \/ StrayDies(x))
    BY DEF StrayStops, StrayDies
  <1> QED BY <1>1, <1>2, <1>3, <1>4, <1>5 DEF StrayStep

\* No action separates a stray from what it has published.
LEMMA StraysStep == IndInv /\ [Next]_vars => StrayInv'
  <1> SUFFICES ASSUME IndInv, [Next]_vars PROVE StrayInv'
    OBVIOUS
  <1> USE BoundsAssumption
  <1>0. TypeOK /\ ControlInv /\ PlaylistInv /\ StrayInv
    BY DEF IndInv
  <1>a. session \in Int /\ \A x \in strays : x.session \in Sessions /\ x.session < session
    BY <1>0 DEF TypeOK, Stray, StrayInv, StrayOK
  <1>b. \A x \in strays : StrayOK(x) /\ \A y \in strays : x.session = y.session => x = y
    BY <1>0 DEF StrayInv
  <1>1. ASSUME NEW seeded \in BOOLEAN, NEW readable \in BOOLEAN,
               StartSession(seeded, readable)
        PROVE  StrayInv'
    <2>1. /\ session' = session + 1 /\ dirs \subseteq dirs'
          /\ UNCHANGED <<files, manifest, pointer, condemned>>
          /\ strays' = strays \cup (IF pc = "down" THEN {} ELSE {Superseded})
      BY <1>1 DEF StartSession
    <2>2. ASSUME NEW x \in strays PROVE StrayOK(x)'
      BY <1>a, <1>b, <2>1, StrayKept
    <2>3. ASSUME pc # "down", NEW x, x = Superseded PROVE StrayOK(x)' /\ x.session = session
      BY <1>1, <2>3, SupersededOK DEF Superseded
    <2>4. ASSUME NEW x \in strays' PROVE x \in strays \/ (pc # "down" /\ x = Superseded)
      BY <2>1
    <2>5. ASSUME NEW x \in strays' PROVE StrayOK(x)'
      BY <2>2, <2>3, <2>4
    <2>6. ASSUME NEW x \in strays', NEW y \in strays', x.session = y.session PROVE x = y
      <3>1. x \in strays => x.session # session
        BY <1>a
      <3>2. y \in strays => y.session # session
        BY <1>a
      <3> QED BY <1>b, <2>3, <2>4, <2>6, <3>1, <3>2
    <2> QED BY <2>5, <2>6 DEF StrayInv
  <1>2. CASE Receiving \/ Handling \/ Die \/ Crash \/ UNCHANGED vars
    <2>1. /\ strays' \subseteq strays /\ UNCHANGED <<dirs, condemned, session>>
          /\ \A s \in Sessions \ {session} : files'[s] = files[s] /\ manifest'[s] = manifest[s]
          /\ pointer' = pointer \/ pointer'.session = session
      BY <1>0, <1>2, PipelineFrame
    <2>2. ASSUME NEW x \in strays PROVE StrayOK(x)'
      <3>1. x.session # session
        BY <1>a
      <3> QED BY <1>a, <1>b, <2>1, <3>1, StrayKept
    <2> QED BY <1>b, <2>1, <2>2 DEF StrayInv
  <1>3. ASSUME NEW s \in Sessions, CleanupOldSessions(s) PROVE StrayInv'
    <2>1. /\ condemned \subseteq condemned'
          /\ UNCHANGED <<dirs, files, manifest, pointer, strays, session>>
      BY <1>3 DEF CleanupOldSessions, run
    <2>2. ASSUME NEW x \in strays PROVE StrayOK(x)'
      BY <1>a, <1>b, <2>1, StrayKept
    <2> QED BY <1>b, <2>1, <2>2 DEF StrayInv
  <1>4. ASSUME NEW d \in Sessions, RemoveEntry(d) \/ RemovalEnds(d) PROVE StrayInv'
    <2>1. d \in condemned /\ UNCHANGED <<condemned, pointer, strays, session>>
      BY <1>0, <1>4 DEF RemoveEntry, RemovalEnds, ControlInv, run
    <2>2. /\ \A s \in Sessions \ {d} : files'[s] = files[s] /\ manifest'[s] = manifest[s]
          /\ dirs \ {d} \subseteq dirs'
      BY <1>0, <1>4 DEF RemoveEntry, RemovalEnds, TypeOK
    <2>3. ASSUME NEW x \in strays PROVE StrayOK(x)'
      BY <1>a, <1>b, <2>1, <2>2, StrayKept
    <2> QED BY <1>b, <2>1, <2>3 DEF StrayInv
  <1>5. ASSUME NEW x \in strays, StrayStep(x) PROVE StrayInv'
    <2>1. UNCHANGED <<condemned, session>>
      BY <1>5 DEF StrayStep, run
    <2>2. /\ \A s \in Sessions \ {x.session} : files'[s] = files[s] /\ manifest'[s] = manifest[s]
          /\ dirs \subseteq dirs' /\ (pointer' = pointer \/ pointer'.session = x.session)
      <3>0. x.session \in Sessions /\ files \in [Sessions -> SUBSET Seqs]
            /\ manifest \in [Sessions -> Seq(Entry)]
        BY <1>0, <1>a DEF TypeOK
      <3>1. /\ \/ UNCHANGED files
               \/ \E S : files' = [files EXCEPT ![x.session] = S]
            /\ \/ UNCHANGED manifest
               \/ \E q : manifest' = [manifest EXCEPT ![x.session] = q]
            /\ dirs \subseteq dirs'
        BY <1>5 DEF StrayStep, StraySegment, StrayManifest, StrayEvict, StrayPointer,
                    StrayStops, StrayDies
      <3>2. \A state : StrayPointerTo(x, state).session = x.session
        BY DEF StrayPointerTo
      <3>3. pointer' = pointer \/ pointer'.session = x.session
        BY <1>5, <3>2 DEF StrayStep, StraySegment, StrayManifest, StrayEvict, StrayPointer,
                          StrayStops, StrayDies
      <3> QED BY <3>0, <3>1, <3>3
    <2>3. ASSUME NEW y \in strays \ {x} PROVE StrayOK(y)' /\ y.session # x.session
      <3>1. y.session # x.session
        BY <1>b
      <3> QED BY <1>a, <1>b, <2>1, <2>2, <3>1, StrayKept
    <2>4. ASSUME NEW y \in strays' PROVE StrayOK(y)'
      BY <1>0, <1>5, <2>3, StrayMoves
    <2>5. ASSUME NEW y \in strays', NEW z \in strays', y.session = z.session PROVE y = z
      <3>1. ASSUME NEW u \in strays', u \notin strays \ {x} PROVE u.session = x.session
        BY <1>0, <1>5, <3>1, StrayMoves
      <3>2. \A u \in strays', v \in strays' :
              u \notin strays \ {x} /\ v \notin strays \ {x} => u = v
        BY <1>5 DEF StrayStep, StraySegment, StrayManifest, StrayEvict, StrayPointer, StrayStops,
                    StrayDies, Becomes
      <3> QED BY <1>b, <2>3, <2>5, <3>1, <3>2
    <2> QED BY <2>4, <2>5 DEF StrayInv
  <1> QED BY <1>1, <1>2, <1>3, <1>4, <1>5 DEF Next, FaultFree
-----------------------------------------------------------------------------
(***************************************************************************)
(* The theorems.                                                           *)
(***************************************************************************)

\* The invariant holds in every reachable state of run_stream_v2.
THEOREM Invariance == Spec => []IndInv
  <1>1. IndInv /\ [Next]_vars => IndInv'
    BY TypeStep, ControlStep, PlaylistStep, FilesStep, PointerStep, StraysStep DEF IndInv
  <1> QED BY InitInv, <1>1, PTL DEF Spec

\* The pipeline and its directories stay well typed: in particular no segment
\* number or session is used that was not given out by open_segment and
\* initialize_live_session.
THEOREM TypeCorrect == Spec => []TypeOK
  <1>1. IndInv => TypeOK
    BY DEF IndInv
  <1> QED BY Invariance, <1>1, PTL

\* At every moment of push_segment, and wherever the pipeline died, a player
\* finds every segment the manifest it reads lists, until a cleanup begins to
\* delete the session; the latest session is never deleted.
THEOREM ManifestAlwaysServable == Spec => []ManifestServable
  <1>1. IndInv => ManifestServable
    BY DEF IndInv, FilesInv, Servable, ManifestServable, ControlInv, TypeOK
  <1> QED BY Invariance, <1>1, PTL

\* write_current_session_pointer, of the latest pipeline or of a stray, never
\* names a session without a manifest or a segment that was never listed; only a
\* cleanup started by a later session takes the manifest away again.
THEOREM PointerAlwaysSound == Spec => []PointerSound
  <1>1. IndInv => PointerSound
    BY DEF IndInv, PointerInv
  <1> QED BY Invariance, <1>1, PTL

\* What a step may do to the pointer.
LEMMA PointerForwardStep ==
    ASSUME IndInv, [Next]_vars, pointer' # pointer
    PROVE  \/ pointer'.session > pointer.session
           \/ /\ pointer'.session = pointer.session
              /\ pointer'.generation = pointer.generation
              /\ pointer'.last >= pointer.last
              /\ pointer.state # "stopped"
           \/ \E x \in strays : x.session = pointer'.session /\ x.session < pointer.session
  <1> USE DEF disk, media, decode, hls, run
  <1>1. \/ WritePointer
        \/ Stopped /\ latest > 0
        \/ \E x \in strays : StrayStep(x)
    BY DEF vars, Next, FaultFree, Receiving, Handling, StartSession, RecvGap, RecvUnparsable,
           RecvRtp, RecvNone, ProcessPacket, HandleAccessUnit, OpenSegment, WriteAccessUnit,
           PublishSegment, PublishManifest, EvictSegments, Stopped, Die, Crash,
           CleanupOldSessions, RemoveEntry, RemovalEnds
  <1>2. /\ pointer.session \in Int /\ session \in Int
        /\ pointer.last \in Int /\ latest \in Int
    BY DEF IndInv, TypeOK, Pointer, NoPointer, Sessions, Seqs
  <1>3. CASE WritePointer \/ (Stopped /\ latest > 0)
    <2>1. /\ pc # "down"
          /\ pointer'.session = session /\ pointer'.generation = generation
          /\ pointer'.last = latest
      BY <1>3 DEF WritePointer, Stopped, PointerTo
    <2> QED BY <1>2, <2>1 DEF IndInv, PointerInv
  <1>4. ASSUME NEW x \in strays, StrayStep(x)
        PROVE  \/ pointer'.session > pointer.session
               \/ /\ pointer'.session = pointer.session
                  /\ pointer'.generation = pointer.generation
                  /\ pointer'.last >= pointer.last
                  /\ pointer.state # "stopped"
               \/ \E y \in strays : y.session = pointer'.session /\ y.session < pointer.session
    <2>1. x.session \in Int /\ StrayOK(x) /\ x.entries \in Seq(Entry)
      BY DEF IndInv, TypeOK, Stray, StrayInv, Sessions
    <2>2. /\ pointer'.session = x.session /\ pointer'.generation = x.generation
          /\ pointer'.last = Last(x.entries)
      <3>1. \A state : /\ StrayPointerTo(x, state).session = x.session
                       /\ StrayPointerTo(x, state).generation = x.generation
                       /\ StrayPointerTo(x, state).last = Last(x.entries)
        BY DEF StrayPointerTo, Last
      <3>2. \E state : pointer' = StrayPointerTo(x, state)
        <4>1. StrayPointer(x) \/ StrayStops(x)
          BY <1>4 DEF StrayStep, StraySegment, StrayManifest, StrayEvict, StrayDies
        <4> QED BY <4>1 DEF StrayPointer, StrayStops
      <3> QED BY <3>1, <3>2
    <2>3. CASE pointer.session = x.session
      <3>1. /\ pointer.generation = x.generation /\ pointer.state = "ready"
            /\ x.entries # <<>> /\ pointer.last <= Last(x.entries)
        BY <2>1, <2>3 DEF StrayOK
      <3>3. Last(x.entries) \in Int
        BY <2>1, <3>1, LastType
      <3> QED BY <1>2, <2>2, <2>3, <3>1, <3>3
    <2>4. CASE pointer.session # x.session
      BY <1>2, <2>1, <2>2, <2>4
    <2> QED BY <2>3, <2>4
  <1> QED BY <1>1, <1>3, <1>4

\* current.json goes back to an earlier session only if a stray of it still runs,
\* and never to an earlier segment of one session or from "stopped" to "ready";
\* a session keeps its generation.  Where no pipelines overlap, a player that
\* follows the pointer never rewinds.
THEOREM PointerMovesForward == Spec => PointerForward
  <1> DEFINE F == \/ pointer'.session > pointer.session
                  \/ /\ pointer'.session = pointer.session
                     /\ pointer'.generation = pointer.generation
                     /\ pointer'.last >= pointer.last
                     /\ pointer.state # "stopped"
                  \/ \E x \in strays : /\ x.session = pointer'.session
                                       /\ x.session < pointer.session
  <1>1. IndInv /\ [Next]_vars => [F]_pointer
    BY PointerForwardStep
  <1> QED BY Invariance, <1>1, PTL DEF Spec, PointerForward

\* A window over one more entry continues the window before.
LEMMA WindowContinues ==
    ASSUME NEW q \in Seq(Entry), NEW e \in Entry,
           q # <<>> => e.seq > q[Len(q)].seq
    PROVE  Continues(q, Windowed(Append(q, e)))
  <1> DEFINE r == Append(q, e)
             w == Windowed(r)
  <1>1. /\ r \in Seq(Entry) /\ r # <<>> /\ Len(r) = Len(q) + 1 /\ Len(q) \in Nat
        /\ r[Len(q) + 1] = e
        /\ \A i \in 1 .. Len(q) : r[i] = q[i]
    <2>1. /\ r \in Seq(Entry) /\ Len(r) = Len(q) + 1 /\ Len(q) \in Nat
          /\ r[Len(q) + 1] = e
          /\ \A i \in 1 .. Len(q) : r[i] = q[i]
      OBVIOUS
    <2>2. Len(<<>>) = 0
      OBVIOUS
    <2> HIDE DEF r
    <2> QED BY <2>1, <2>2
  <1> HIDE DEF r
  <1>2. w \in Seq(Entry) /\ w # <<>> /\ w[Len(w)] = e
    BY <1>1, WindowedFacts
  <1>3. MaxSegments \in Nat /\ MaxSegments >= 3
    BY MaxSegmentsType
  <1>4. Len(w) <= Len(q) + 1 /\ \A i \in 1 .. Len(w) : w[i] = r[i + Len(r) - Len(w)]
    <2>1. CASE Len(r) <= MaxSegments
      <3>1. w = r
        BY <2>1 DEF Windowed
      <3> QED BY <1>1, <3>1
    <2>2. CASE Len(r) > MaxSegments
      <3> DEFINE a == Len(r) - MaxSegments + 1
      <3>1. w = SubSeq(r, a, Len(r)) /\ a \in 1 .. Len(r)
        BY <1>1, <1>3, <2>2 DEF Windowed
      <3>2. Len(w) = MaxSegments /\ \A i \in 1 .. MaxSegments : w[i] = r[a + i - 1]
        BY <1>1, <1>3, <2>2, <3>1
      <3> HIDE DEF w
      <3> QED BY <1>1, <1>3, <2>2, <3>2
    <2> QED BY <1>1, <1>3, <2>1, <2>2
  <1> HIDE DEF w
  <1>5. \A i \in 1 .. Len(w) - 1 : w[i] = q[i + Len(q) + 1 - Len(w)]
    <2> SUFFICES ASSUME NEW i \in 1 .. Len(w) - 1 PROVE w[i] = q[i + Len(q) + 1 - Len(w)]
      OBVIOUS
    <2>1. Len(w) \in Nat
      BY <1>2
    <2>2. i \in 1 .. Len(w) /\ i + Len(q) + 1 - Len(w) \in 1 .. Len(q)
      BY <1>1, <1>4, <2>1
    <2>3. w[i] = r[i + Len(q) + 1 - Len(w)]
      BY <1>1, <1>4, <2>2
    <2> QED BY <1>1, <2>2, <2>3
  <1> QED BY <1>2, <1>4, <1>5 DEF Continues, w, r

\* What a step may do to a manifest.
LEMMA ManifestStep ==
    ASSUME IndInv, [Next]_vars, NEW s \in Sessions \ condemned, manifest'[s] # manifest[s]
    PROVE  Continues(manifest[s], manifest'[s])
  <1> USE DEF disk, media, decode, hls, run
  <1>0. TypeOK /\ ControlInv /\ PlaylistInv /\ StrayInv
    BY DEF IndInv
  <1>1. \/ PublishManifest
        \/ \E d \in Sessions : RemoveEntry(d)
        \/ \E x \in strays, tag \in BOOLEAN : StrayManifest(x, tag)
    BY DEF vars, Next, FaultFree, Receiving, Handling, StartSession, RecvGap, RecvUnparsable,
           RecvRtp, RecvNone, ProcessPacket, HandleAccessUnit, OpenSegment, WriteAccessUnit,
           PublishSegment, EvictSegments, WritePointer, Stopped, Die, Crash,
           CleanupOldSessions, RemovalEnds, StrayStep, StraySegment, StrayEvict, StrayPointer,
           StrayStops, StrayDies
  <1>2. CASE PublishManifest
    <2>1. /\ pc = "manifest" /\ segment \in Segment /\ segment # NoSegment
          /\ entries \in Seq(Entry) /\ session \in Sessions
      BY <1>0, <1>2 DEF PublishManifest, ControlInv, TypeOK
    <2>2. s = session /\ manifest'[s] = Windowed(Pushed) /\ manifest[s] = entries
      BY <1>0, <1>2, <2>1 DEF PublishManifest, TypeOK, PlaylistInv
    <2> DEFINE e == [seq |-> segment.seq, discontinuity |-> segment.discontinuity]
    <2>3. e \in Entry /\ e.seq = segment.seq
      BY <2>1 DEF Segment, Entry
    <2>4. entries # <<>> => segment.seq > entries[Len(entries)].seq
      <3>1. entries # <<>> => latest > 0
        BY <1>0, <2>1 DEF PlaylistInv, TypeOK
      <3>2. latest < segment.seq /\ latest \in Int /\ segment.seq \in Int
        BY <1>0, <2>1 DEF PlaylistInv, TypeOK, Segment, Seqs
      <3> QED BY <1>0, <2>1, <3>1, <3>2 DEF PlaylistInv
    <2>5. Pushed = Append(entries, e)
      BY DEF Pushed
    <2> HIDE DEF e
    <2> QED BY <2>1, <2>2, <2>3, <2>4, <2>5, WindowContinues
  <1>3. ASSUME NEW d \in Sessions, RemoveEntry(d)
        PROVE  FALSE
    <2>1. d # s
      BY <1>0, <1>3 DEF RemoveEntry, ControlInv
    <2> QED BY <1>0, <1>3, <2>1 DEF RemoveEntry, TypeOK
  <1>4. ASSUME NEW x \in strays, NEW tag \in BOOLEAN, StrayManifest(x, tag)
        PROVE  Continues(manifest[s], manifest'[s])
    <2> DEFINE e == [seq |-> x.next, discontinuity |-> tag]
    <2>1. /\ x \in Stray /\ x.session \in Sessions /\ StrayOK(x) /\ x.entries \in Seq(Entry)
          /\ x.at = "manifest"
      BY <1>0, <1>4 DEF TypeOK, Stray, StrayInv, StrayManifest
    <2>2. e \in Entry /\ e.seq = x.next
      BY <2>1, BoundsAssumption DEF StrayOK, Stray, Entry, Seqs
    <2>3. s = x.session /\ manifest'[s] = Windowed(Append(x.entries, e))
      BY <1>0, <1>4, <2>1 DEF StrayManifest, TypeOK
    <2> HIDE DEF e
    <2>4. manifest[s] = x.entries
      BY <2>1, <2>3 DEF StrayOK
    <2>5. x.entries # <<>> => e.seq > x.entries[Len(x.entries)].seq
      <3> SUFFICES ASSUME x.entries # <<>> PROVE e.seq > x.entries[Len(x.entries)].seq
        OBVIOUS
      <3>2. x.entries[Len(x.entries)].seq \in Int /\ x.next \in Int
        BY <2>1, LastType DEF Last, Stray
      <3> QED BY <2>1, <2>2, <3>2 DEF StrayOK, Last
    <2> QED BY <2>1, <2>2, <2>3, <2>4, <2>5, WindowContinues
  <1> QED BY <1>1, <1>2, <1>3, <1>4

\* A player that reloads index.m3u8 sees the playlist it had, with one newer
\* segment at the end and older ones gone at the front, until a cleanup begins to
\* delete the session.
THEOREM ManifestAlwaysContinues == Spec => ManifestContinues
  <1> DEFINE C == \A s \in Sessions \ condemned : manifest'[s] # manifest[s] =>
                     Continues(manifest[s], manifest'[s])
  <1>1. IndInv /\ [Next]_vars => [C]_manifest
    BY ManifestStep
  <1> QED BY Invariance, <1>1, PTL DEF Spec, ManifestContinues
-----------------------------------------------------------------------------
(***************************************************************************)
(* What the listed segments hold.                                          *)
(***************************************************************************)

\* An open gate has parameter sets, and so has a picture that came through it.
GateInv ==
    /\ gate.synced => gate.sps /\ gate.pps
    /\ "idr" \in au => ParamSets \subseteq au

\* Until the next segment is opened, pending_discontinuity says whether media is
\* missing since the last access unit written; nothing is missing in a segment
\* that is open.
CutInv ==
    /\ pc \in {"recv", "packet", "au"} /\ segment = NoSegment /\ nextSeq > 1 => pending /\ cut
    /\ pc \in {"recv", "packet", "au"} /\ segment # NoSegment => ~pending /\ ~cut /\ expected
    /\ pc \in {"au", "open", "write"} => expected
    /\ pc = "open" => "idr" \in au /\ (nextSeq > 1 => (pending <=> cut))
    /\ pc = "write" => ~pending /\ (segment.written => ~cut)
    /\ pc \in {"segment", "manifest", "evict", "pointer"} /\ cont = "rotate" =>
          ~pending /\ ~cut /\ expected /\ "idr" \in au
    /\ pc \in {"segment", "manifest", "evict", "pointer"} /\ cont \in {"gap", "mismatch"} =>
          pending /\ cut

Decodable(n) == {"sps", "pps", "idr"} \subseteq content[n].start /\ ~content[n].broken
Marked(e) == e.seq > 1 => (e.discontinuity <=> content[e.seq].cut)

\* The segments listed and the open one are as promised, and the number the next
\* one gets is not listed.
ContentInv ==
    /\ \A i \in DOMAIN entries :
          entries[i].seq < nextSeq /\ Decodable(entries[i].seq) /\ Marked(entries[i])
    /\ segment # NoSegment => Decodable(segment.seq) /\ Marked(segment)

MediaInv == GateInv /\ CutInv /\ ContentInv

\* A gate with its parameter sets cached before it opens keeps them, and a slice
\* of an IDR picture leaves it with them in front.
LEMMA GateFacts ==
    ASSUME NEW g \in Gate, NEW nals \in Seq(NalClass), g.synced => g.sps /\ g.pps
    PROVE  /\ GateAfter(g, nals).synced => GateAfter(g, nals).sps /\ GateAfter(g, nals).pps
           /\ "idr" \in GateOutput(g, nals) => ParamSets \subseteq GateOutput(g, nals)
  <1>0. g.sps \in BOOLEAN /\ g.pps \in BOOLEAN /\ g.synced \in BOOLEAN
        /\ DOMAIN nals = 1 .. Len(nals) /\ Len(nals) \in Nat
    BY DEF Gate
  <1>1. ASSUME NEW i \in DOMAIN nals, Prefixed(g, nals, i)
        PROVE  /\ g.sps \/ \E j \in DOMAIN nals : nals[j] = "sps"
               /\ g.pps \/ \E j \in DOMAIN nals : nals[j] = "pps"
    <2>1. \A j \in 1 .. i - 1 : j \in DOMAIN nals
      BY <1>0
    <2> QED BY <1>1, <2>1 DEF Prefixed
  <1>2. GateAfter(g, nals).synced => GateAfter(g, nals).sps /\ GateAfter(g, nals).pps
    BY <1>1 DEF GateAfter
  <1>3. ASSUME NEW i \in Emitted(g, nals), nals[i] = "idr" PROVE Prefixed(g, nals, i)
    <2>1. i \in 1 .. Len(nals) /\ (g.synced \/ \E k \in 1 .. i : Prefixed(g, nals, k))
      BY <1>0, <1>3 DEF Emitted
    <2>2. CASE g.synced
      BY <1>3, <2>2 DEF Prefixed
    <2>3. ASSUME NEW k \in 1 .. i, Prefixed(g, nals, k) PROVE Prefixed(g, nals, i)
      <3>1. \A j \in 1 .. k - 1 : j \in 1 .. i - 1
        BY <1>0, <2>1
      <3> QED BY <1>3, <2>3, <3>1 DEF Prefixed
    <2> QED BY <2>1, <2>2, <2>3
  <1>4. ASSUME "idr" \in GateOutput(g, nals) PROVE ParamSets \subseteq GateOutput(g, nals)
    <2>1. PICK i \in Emitted(g, nals) : nals[i] = "idr"
      BY <1>4 DEF GateOutput, ParamSets
    <2>2. Prefixed(g, nals, i)
      BY <1>3, <2>1
    <2> QED BY <2>2 DEF GateOutput
  <1> QED BY <1>2, <1>4

\* What a discontinuity does to the decoder and to the mark.
LEMMA DiscontinuityMedia ==
    ASSUME NEW why \in {"gap", "mismatch"}, HandleDiscontinuity(why), cut',
           TypeOK, ControlInv, PlaylistInv, GateInv, pc \in {"recv", "packet"},
           segment = NoSegment /\ nextSeq > 1 => pending
    PROVE  GateInv' /\ CutInv'
  <1>1. /\ cont' = why
        /\ segment # NoSegment => pc' = "segment"
        /\ segment = NoSegment => pc' = (IF why = "mismatch" THEN "packet" ELSE "recv")
        /\ UNCHANGED <<entries, nextSeq, segment, latest, evicted>>
    BY DiscontinuityControl
  <1>2. CASE segment # NoSegment
    <2>1. pending' /\ UNCHANGED <<fu, gate, expected, au>>
      BY <1>2 DEF HandleDiscontinuity, SawPublishedOutput, decode
    <2> QED BY <1>1, <1>2, <2>1 DEF GateInv, CutInv
  <1>3. CASE segment = NoSegment
    <2>1. gate' = GateReset(gate) /\ au' = {}
      BY <1>3 DEF HandleDiscontinuity, Discontinued
    <2>2. ~gate'.synced
      BY <2>1 DEF GateReset, TypeOK, Gate
    <2>3. nextSeq > 1 => pending'
      BY <1>3 DEF HandleDiscontinuity
    <2> QED BY <1>1, <1>3, <2>1, <2>2, <2>3 DEF GateInv, CutInv
  <1> QED BY <1>2, <1>3

\* Steps that leave the playlist, the open segment and what they hold alone.
LEMMA ContentUnchanged ==
    ASSUME ContentInv, UNCHANGED <<entries, nextSeq, segment, content>>
    PROVE  ContentInv'
  BY DEF ContentInv, Decodable, Marked

\* Every entry of a window is one of the list.
LEMMA WindowedEntries ==
    ASSUME NEW q \in Seq(Entry), q # <<>>
    PROVE  /\ Len(Windowed(q)) <= MaxSegments
           /\ \A i \in DOMAIN Windowed(q) : \E j \in DOMAIN q : Windowed(q)[i] = q[j]
  <1>1. Len(q) \in Nat /\ MaxSegments \in Nat /\ MaxSegments >= 3 /\ DOMAIN q = 1 .. Len(q)
    BY MaxSegmentsType
  <1>2. CASE Len(q) <= MaxSegments
    BY <1>2 DEF Windowed
  <1>3. CASE Len(q) > MaxSegments
    <2> DEFINE a == Len(q) - MaxSegments + 1
               w == SubSeq(q, a, Len(q))
    <2>1. Windowed(q) = w
      BY <1>1, <1>3 DEF Windowed
    <2>2. a \in 1 .. Len(q) /\ a <= Len(q)
      BY <1>1, <1>3
    <2>3. /\ Len(w) = MaxSegments /\ DOMAIN w = 1 .. MaxSegments
          /\ \A i \in 1 .. MaxSegments : w[i] = q[a + i - 1]
      BY <1>1, <1>3, <2>2
    <2>4. \A i \in 1 .. MaxSegments : a + i - 1 \in DOMAIN q
      BY <1>1, <1>3
    <2>5. Len(Windowed(q)) = MaxSegments /\ DOMAIN Windowed(q) = 1 .. MaxSegments
      BY <2>1, <2>3
    <2>6. \A i \in DOMAIN Windowed(q) : \E j \in DOMAIN q : Windowed(q)[i] = q[j]
      <3> SUFFICES ASSUME NEW i \in 1 .. MaxSegments PROVE \E j \in DOMAIN q : w[i] = q[j]
        BY <2>1, <2>5
      <3>1. a + i - 1 \in DOMAIN q /\ w[i] = q[a + i - 1]
        BY <2>3, <2>4
      <3> HIDE DEF w
      <3> QED BY <3>1
    <2> QED BY <1>1, <2>5, <2>6
  <1> QED BY <1>1, <1>2, <1>3

\* An entry has the number of a segment.
LEMMA EntrySeq ==
    ASSUME NEW q \in Seq(Entry), NEW i \in DOMAIN q
    PROVE  q[i].seq \in Seqs /\ q[i].seq \in Nat
  <1>1. q[i] \in Entry
    OBVIOUS
  <1> QED BY <1>1 DEF Entry, Seqs

\* Nothing is listed before the first session.
LEMMA MediaInit == Init => MediaInv
  BY DEF Init, MediaInv, GateInv, CutInv, ContentInv, NewGate

\* No action opens the gate without parameter sets.
LEMMA GateStep == IndInv /\ MediaInv /\ [Next]_vars => GateInv' /\ CutInv'
  <1> SUFFICES ASSUME IndInv, MediaInv, [Next]_vars PROVE GateInv' /\ CutInv'
    OBVIOUS
  <1> USE BoundsAssumption DEF disk, media, decode, hls, run
  <1>0. TypeOK /\ ControlInv /\ PlaylistInv /\ StrayInv /\ GateInv /\ CutInv
    BY DEF IndInv, MediaInv
  <1>1. ASSUME NEW seeded \in BOOLEAN, NEW readable \in BOOLEAN,
               StartSession(seeded, readable)
        PROVE  GateInv' /\ CutInv'
    <2>1. pc' = "recv" /\ nextSeq' = 1 /\ segment' = NoSegment /\ au' = {}
      BY <1>1 DEF StartSession, Fresh
    <2>2. ~gate'.synced
      BY <1>1 DEF StartSession, NewGate
    <2> QED BY <1>0, <2>1, <2>2 DEF GateInv, CutInv
  <1>2. CASE RecvGap \/ RecvUnparsable
    <2>1. HandleDiscontinuity("gap") /\ cut' /\ pc = "recv"
      BY <1>2 DEF RecvGap, RecvUnparsable
    <2>2. segment = NoSegment /\ nextSeq > 1 => pending
      BY <1>0, <2>1 DEF CutInv
    <2> QED BY <1>0, <2>1, <2>2, DiscontinuityMedia
  <1>4. ASSUME NEW p \in Packets, NEW inOrder \in BOOLEAN, NEW heads \in BOOLEAN,
               RecvRtp(p, inOrder, heads)
        PROVE  GateInv' /\ CutInv'
    <2>1. pc = "recv" /\ cut' = (cut \/ ~inOrder)
      BY <1>4 DEF RecvRtp
    <2>2. CASE expected /\ ~inOrder
      <3>1. HandleDiscontinuity("mismatch")
        BY <1>4, <2>2 DEF RecvRtp
      <3>2. segment = NoSegment /\ nextSeq > 1 => pending
        BY <1>0, <2>1 DEF CutInv
      <3> QED BY <1>0, <2>1, <2>2, <3>1, <3>2, DiscontinuityMedia
    <2>3. CASE ~(expected /\ ~inOrder)
      <3>1. pc' = "packet" /\ UNCHANGED <<gate, expected, au, segment, nextSeq, pending>>
        BY <1>4, <2>3 DEF RecvRtp
      <3> QED BY <1>0, <2>1, <2>3, <3>1 DEF GateInv, CutInv
    <2> QED BY <2>2, <2>3
  <1>5. CASE RecvNone
    BY <1>0, <1>5 DEF RecvNone, GateInv, CutInv
  <1>6. CASE ProcessPacket
    <2>0. pc = "packet"
      BY <1>6 DEF ProcessPacket
    <2>1. CASE Undecodable(fu, pkt.payload)
      <3>1. HandleDiscontinuity("gap") /\ cut'
        BY <1>6, <2>1 DEF ProcessPacket
      <3>2. segment = NoSegment /\ nextSeq > 1 => pending
        BY <1>0, <2>0 DEF CutInv
      <3> QED BY <1>0, <2>0, <3>1, <3>2, DiscontinuityMedia
    <2>2. CASE ~Undecodable(fu, pkt.payload)
      <3> DEFINE nals == NalsOf(fu, pkt.payload)
      <3>1. /\ gate' = GateAfter(gate, nals)
            /\ au' = au \cup GateOutput(gate, nals)
            /\ expected' /\ pc' \in {"au", "recv"}
            /\ UNCHANGED <<cut, segment, nextSeq, pending>>
        BY <1>6, <2>2 DEF ProcessPacket
      <3>2. pkt.payload \in Payload
        <4>1. NoPacket.payload \in Payload
          BY DEF NoPacket, Payload, PayloadKind
        <4> QED BY <1>0, <4>1, PacketsAssumption DEF TypeOK
      <3>3. nals \in Seq(NalClass)
        BY <1>0, <2>2, <3>2, DepacketizerTypes DEF TypeOK
      <3>4. gate \in Gate /\ (gate.synced => gate.sps /\ gate.pps)
        BY <1>0 DEF TypeOK, GateInv
      <3> HIDE DEF nals
      <3>5. GateInv'
        BY <1>0, <3>1, <3>3, <3>4, GateFacts DEF GateInv
      <3>6. CutInv'
        BY <1>0, <2>0, <3>1 DEF CutInv
      <3> QED BY <3>5, <3>6
    <2> QED BY <2>1, <2>2
  <1>7. ASSUME NEW due \in BOOLEAN, HandleAccessUnit(due)
        PROVE  GateInv' /\ CutInv'
    <2>1. pc = "au" /\ UNCHANGED <<gate, expected, segment, nextSeq, pending>> /\ cont' = "rotate"
      BY <1>7 DEF HandleAccessUnit
    <2>2. CASE segment = NoSegment /\ "idr" \notin au
      <3>1. pc' = "recv" /\ au' = {} /\ cut'
        BY <1>7, <2>2 DEF HandleAccessUnit
      <3> QED BY <1>0, <2>1, <2>2, <3>1 DEF GateInv, CutInv
    <2>3. CASE segment = NoSegment /\ "idr" \in au
      <3>1. pc' = "open" /\ UNCHANGED <<au, cut>>
        BY <1>7, <2>3 DEF HandleAccessUnit
      <3> QED BY <1>0, <2>1, <2>3, <3>1 DEF GateInv, CutInv
    <2>4. CASE segment # NoSegment
      <3>1. /\ (pc' = "segment" /\ "idr" \in au) \/ pc' = "write"
            /\ UNCHANGED <<au, cut>>
        BY <1>7, <2>4 DEF HandleAccessUnit
      <3> QED BY <1>0, <2>1, <2>4, <3>1 DEF GateInv, CutInv
    <2> QED BY <2>2, <2>3, <2>4
  <1>8. CASE OpenSegment
    <2>1. /\ pc = "open" /\ pc' = "write" /\ pending' = FALSE /\ ~segment'.written
          /\ UNCHANGED <<gate, expected, au>>
      BY <1>8 DEF OpenSegment
    <2> QED BY <1>0, <2>1 DEF GateInv, CutInv
  <1>9. CASE WriteAccessUnit
    <2>1. /\ pc = "write" /\ pc' = "recv" /\ cut' = FALSE /\ au' = {}
          /\ UNCHANGED <<gate, expected>> /\ (pending' => pending)
      BY <1>9 DEF WriteAccessUnit
    <2>2. segment' # NoSegment
      <3>1. segment \in Segment
        BY <1>0, <2>1 DEF ControlInv, TypeOK
      <3> QED BY <1>9, <3>1 DEF WriteAccessUnit, Segment, NoSegment
    <2> QED BY <1>0, <2>1, <2>2 DEF GateInv, CutInv
  <1>10. CASE PublishSegment \/ PublishManifest
    <2>1. /\ pc \in {"segment", "manifest"} /\ pc' \in {"manifest", "evict"}
          /\ UNCHANGED <<gate, expected, au, cut, cont, pending>>
      BY <1>10 DEF PublishSegment, PublishManifest
    <2> QED BY <1>0, <2>1 DEF GateInv, CutInv
  <1>12. CASE EvictSegments
    <2>1. pc = "evict" /\ segment' = NoSegment /\ UNCHANGED <<cut, cont, pending, nextSeq>>
      BY <1>12 DEF EvictSegments
    <2>2. CASE cont \in {"gap", "mismatch"}
      <3>1. gate' = GateReset(gate) /\ au' = {} /\ pc' \in {"packet", "recv"}
        BY <1>12, <2>2 DEF EvictSegments, Discontinued
      <3>2. ~gate'.synced
        BY <1>0, <3>1 DEF GateReset, TypeOK, Gate
      <3> QED BY <1>0, <2>1, <2>2, <3>1, <3>2 DEF GateInv, CutInv
    <2>3. CASE cont \notin {"gap", "mismatch"}
      <3>1. pc' = "pointer" /\ UNCHANGED <<gate, expected, au>>
        BY <1>12, <2>3 DEF EvictSegments
      <3> QED BY <1>0, <2>1, <2>3, <3>1 DEF GateInv, CutInv
    <2> QED BY <2>2, <2>3
  <1>13. CASE WritePointer
    <2>1. /\ pc = "pointer" /\ pc' = (IF cont = "rotate" THEN "open" ELSE "stopped")
          /\ UNCHANGED <<gate, expected, au, cut, pending>>
      BY <1>13 DEF WritePointer
    <2> QED BY <1>0, <2>1 DEF GateInv, CutInv
  <1>14. CASE Stopped \/ Die \/ Crash
    <2>1. pc' = "down" /\ ~gate'.synced /\ au' = {}
      BY <1>14 DEF Stopped, Die, Crash, Forget, Fresh, NewGate
    <2> QED BY <2>1 DEF GateInv, CutInv
  <1>16. CASE UNCHANGED vars \/ Beside
    <2>1. UNCHANGED <<gate, au, expected, pc, segment, nextSeq, pending, cut, cont>>
      BY <1>0, <1>16, BesideFacts DEF vars
    <2> QED BY <1>0, <2>1 DEF GateInv, CutInv
  <1> QED
    BY <1>1, <1>2, <1>4, <1>5, <1>6, <1>7, <1>8, <1>9, <1>10, <1>12,
       <1>13, <1>14, <1>16 DEF Next, FaultFree, Receiving, Handling, Beside

\* No action lists or opens a segment that is not as promised.
LEMMA ContentStep == IndInv /\ MediaInv /\ [Next]_vars => ContentInv'
  <1> SUFFICES ASSUME IndInv, MediaInv, [Next]_vars PROVE ContentInv'
    OBVIOUS
  <1> USE BoundsAssumption DEF disk, media, decode, hls, run
  <1>0. TypeOK /\ ControlInv /\ PlaylistInv /\ StrayInv /\ GateInv /\ CutInv /\ ContentInv
    BY DEF IndInv, MediaInv
  <1>1. CASE \E seeded, readable \in BOOLEAN : StartSession(seeded, readable)
    <2>1. entries' = <<>> /\ segment' = NoSegment
      BY <1>1 DEF StartSession, Fresh
    <2> QED BY <2>1 DEF ContentInv
  <1>2. CASE Receiving
    <2>1. UNCHANGED <<entries, nextSeq, segment, content>>
      BY <1>2 DEF Receiving, RecvGap, RecvUnparsable, RecvRtp, RecvNone, HandleDiscontinuity
    <2> QED BY <1>0, <2>1, ContentUnchanged
  <1>3. CASE ProcessPacket \/ (\E due \in BOOLEAN : HandleAccessUnit(due))
             \/ PublishSegment \/ WritePointer \/ UNCHANGED vars \/ Beside
    <2>1. UNCHANGED <<entries, nextSeq, segment, content>>
      BY <1>0, <1>3, BesideFacts DEF ProcessPacket, HandleAccessUnit, HandleDiscontinuity,
                                     PublishSegment, WritePointer, vars
    <2> QED BY <1>0, <2>1, ContentUnchanged
  <1>4. CASE OpenSegment
    <2>1. /\ pc = "open" /\ nextSeq \in Seqs /\ nextSeq \in Nat /\ nextSeq' = nextSeq + 1
          /\ content \in [Seqs -> Content]
      BY <1>0, <1>4 DEF OpenSegment, ControlInv, TypeOK, Seqs
    <2> DEFINE c == [start |-> au, cut |-> cut, broken |-> FALSE, partial |-> FALSE]
    <2>2. /\ content' = [content EXCEPT ![nextSeq] = c]
          /\ segment' = [seq |-> nextSeq, written |-> FALSE, discontinuity |-> pending]
          /\ UNCHANGED entries
      BY <1>4 DEF OpenSegment
    <2>3. content'[nextSeq] = c /\ \A n \in Seqs \ {nextSeq} : content'[n] = content[n]
      BY <2>1, <2>2
    <2>4. Decodable(segment.seq)' /\ Marked(segment)'
      <3>1. {"sps", "pps", "idr"} \subseteq au
        BY <1>0, <2>1 DEF GateInv, CutInv, ParamSets
      <3>2. nextSeq > 1 => (pending <=> cut)
        BY <1>0, <2>1 DEF CutInv
      <3>3. content'[segment'.seq] = c /\ segment'.seq = nextSeq
            /\ segment'.discontinuity = pending
        BY <2>2, <2>3
      <3>4. c.start = au /\ c.cut = cut /\ c.broken = FALSE
        OBVIOUS
      <3> HIDE DEF c
      <3> QED BY <3>1, <3>2, <3>3, <3>4 DEF Decodable, Marked
    <2>5. ASSUME NEW i \in DOMAIN entries
          PROVE  /\ entries[i].seq < nextSeq'
                 /\ Decodable(entries[i].seq)' /\ Marked(entries[i])'
      <3>1. entries[i].seq \in Seqs /\ entries[i].seq \in Nat
        BY <1>0, EntrySeq DEF TypeOK
      <3>2. entries[i].seq < nextSeq /\ Decodable(entries[i].seq) /\ Marked(entries[i])
        BY <1>0 DEF ContentInv
      <3>3. content'[entries[i].seq] = content[entries[i].seq]
        BY <2>1, <2>3, <3>1, <3>2
      <3> QED BY <2>1, <2>2, <3>1, <3>2, <3>3 DEF Decodable, Marked
    <2> QED BY <2>2, <2>4, <2>5 DEF ContentInv
  <1>5. CASE WriteAccessUnit
    <2>1. pc = "write" /\ segment \in Segment /\ segment # NoSegment /\ content \in [Seqs -> Content]
      BY <1>0, <1>5 DEF WriteAccessUnit, ControlInv, TypeOK
    <2>2. segment.seq \in Seqs /\ segment' = [segment EXCEPT !.written = TRUE]
      BY <1>5, <2>1 DEF WriteAccessUnit, Segment
    <2>3. /\ content' = [content EXCEPT ![segment.seq] = Written(content[segment.seq])]
          /\ UNCHANGED <<entries, nextSeq>>
      BY <1>5 DEF WriteAccessUnit
    <2>4. ~(segment.written /\ cut) /\ Decodable(segment.seq)
      BY <1>0, <2>1 DEF CutInv, ContentInv
    <2> DEFINE w == Written(content[segment.seq])
    <2>5. /\ w.start = content[segment.seq].start /\ w.cut = content[segment.seq].cut
          /\ ~w.broken
      BY <2>4 DEF Written, Decodable
    <2> HIDE DEF w
    <2>6. ASSUME NEW n \in Seqs
          PROVE  /\ content'[n].cut = content[n].cut
                 /\ Decodable(n) => Decodable(n)'
      <3>1. CASE n = segment.seq
        <4>1. content'[n] = w
          BY <2>1, <2>2, <2>3, <3>1 DEF w
        <4> QED BY <2>4, <2>5, <3>1, <4>1 DEF Decodable
      <3>2. CASE n # segment.seq
        <4>1. content'[n] = content[n]
          BY <2>1, <2>2, <2>3, <3>2
        <4> QED BY <4>1 DEF Decodable
      <3> QED BY <3>1, <3>2
    <2>7. /\ segment'.seq = segment.seq /\ segment'.discontinuity = segment.discontinuity
      BY <2>1, <2>2 DEF Segment
    <2>8. Decodable(segment.seq)' /\ Marked(segment)'
      <3>1. Decodable(segment.seq) /\ Marked(segment)
        BY <1>0, <2>1 DEF ContentInv
      <3>2. content'[segment.seq].cut = content[segment.seq].cut
        BY <2>2, <2>6
      <3>3. {"sps", "pps", "idr"} \subseteq content'[segment.seq].start
            /\ ~content'[segment.seq].broken
        BY <2>2, <2>6, <3>1 DEF Decodable
      <3> QED BY <2>7, <3>1, <3>2, <3>3 DEF Decodable, Marked
    <2>9. ASSUME NEW i \in DOMAIN entries
          PROVE  /\ entries[i].seq < nextSeq
                 /\ Decodable(entries[i].seq)' /\ Marked(entries[i])'
      <3>1. entries[i].seq \in Seqs
        BY <1>0, EntrySeq DEF TypeOK
      <3>2. entries[i].seq < nextSeq /\ Decodable(entries[i].seq) /\ Marked(entries[i])
        BY <1>0 DEF ContentInv
      <3>3. content'[entries[i].seq].cut = content[entries[i].seq].cut
        BY <2>6, <3>1
      <3>4. {"sps", "pps", "idr"} \subseteq content'[entries[i].seq].start
            /\ ~content'[entries[i].seq].broken
        BY <2>6, <3>1, <3>2 DEF Decodable
      <3> QED BY <2>3, <3>2, <3>3, <3>4 DEF Decodable, Marked
    <2> QED BY <2>3, <2>8, <2>9 DEF ContentInv
  <1>6. CASE PublishManifest
    <2>1. /\ pc = "manifest" /\ segment \in Segment /\ segment # NoSegment
          /\ entries \in Seq(Entry)
          /\ entries' = Windowed(Pushed)
          /\ UNCHANGED <<segment, nextSeq, content>>
      BY <1>0, <1>6 DEF PublishManifest, ControlInv, TypeOK
    <2> DEFINE e == [seq |-> segment.seq, discontinuity |-> segment.discontinuity]
               Good(x) == x.seq < nextSeq /\ Decodable(x.seq) /\ Marked(x)
    <2>2. e.seq = segment.seq /\ e.discontinuity = segment.discontinuity
      OBVIOUS
    <2>3. Good(e)
      BY <1>0, <2>1, <2>2 DEF ContentInv, PlaylistInv, Marked
    <2>4. /\ Pushed = Append(entries, e) /\ e \in Entry
      BY <2>1 DEF Pushed, Segment, Entry
    <2> HIDE DEF e
    <2>5. \A j \in DOMAIN Pushed : Good(Pushed[j])
      <3> SUFFICES ASSUME NEW j \in DOMAIN Pushed PROVE Good(Pushed[j])
        OBVIOUS
      <3>1. \/ j \in DOMAIN entries /\ Pushed[j] = entries[j]
            \/ Pushed[j] = e
        BY <2>1, <2>4
      <3>2. j \in DOMAIN entries => Good(entries[j])
        BY <1>0 DEF ContentInv
      <3> HIDE DEF Good
      <3> QED BY <2>3, <3>1, <3>2
    <2>6. Pushed \in Seq(Entry) /\ Pushed # <<>>
      BY <2>1, PushedFacts
    <2>7. \A i \in DOMAIN entries' : Good(entries'[i])
      <3> HIDE DEF Good
      <3> QED BY <2>1, <2>5, <2>6, WindowedEntries
    <2> QED BY <1>0, <2>1, <2>7 DEF ContentInv, Decodable, Marked
  <1>7. CASE EvictSegments
    <2>1. segment' = NoSegment /\ UNCHANGED <<entries, nextSeq, content>>
      BY <1>7 DEF EvictSegments
    <2> QED BY <1>0, <2>1 DEF ContentInv, Decodable, Marked
  <1>8. CASE Stopped \/ Die \/ Crash
    <2>1. entries' = <<>> /\ segment' = NoSegment
      BY <1>8 DEF Stopped, Die, Crash, Forget, Fresh
    <2> QED BY <2>1 DEF ContentInv
  <1> QED
    BY <1>1, <1>2, <1>3, <1>4, <1>5, <1>6, <1>7, <1>8 DEF Next, FaultFree, Handling, Beside

\* The invariant behind the two theorems about media.
THEOREM MediaInvariance == Spec => []MediaInv
  <1>1. IndInv /\ MediaInv /\ [Next]_vars => MediaInv'
    BY GateStep, ContentStep DEF MediaInv
  <1> QED BY MediaInit, Invariance, <1>1, PTL DEF Spec

\* The manifest of a running pipeline is its playlist in memory.
LEMMA LiveEntries == ASSUME IndInv PROVE Live \in {<<>>, entries}
  BY DEF IndInv, PlaylistInv, Live

\* A player can start at any listed segment and finds nothing missing inside it,
\* for any camera and whatever was lost, refused or reported as a gap.
THEOREM SegmentsAlwaysDecodable == Spec => []SegmentsDecodable
  <1>1. IndInv /\ MediaInv => SegmentsDecodable
    <2> SUFFICES ASSUME IndInv, MediaInv PROVE SegmentsDecodable
      OBVIOUS
    <2>1. \A i \in DOMAIN entries : Decodable(entries[i].seq)
      BY DEF MediaInv, ContentInv
    <2>2. Listed(Live) \subseteq {entries[i].seq : i \in DOMAIN entries}
      BY LiveEntries DEF Listed
    <2> QED BY <2>1, <2>2 DEF SegmentsDecodable, Decodable
  <1> QED BY Invariance, MediaInvariance, <1>1, PTL

\* EXT-X-DISCONTINUITY stands exactly before the segments that do not continue
\* the one before, for any camera and any loss.
THEOREM DiscontinuityAlwaysMarked == Spec => []DiscontinuityMarked
  <1>1. IndInv /\ MediaInv => DiscontinuityMarked
    <2> SUFFICES ASSUME IndInv, MediaInv PROVE DiscontinuityMarked
      OBVIOUS
    <2>1. TypeOK /\ ContentInv
      BY DEF IndInv, MediaInv
    <2>2. ASSUME NEW i \in DOMAIN entries, entries[i].seq > 1
          PROVE  entries[i].discontinuity = content[entries[i].seq].cut
      <3>1. entries[i].discontinuity <=> content[entries[i].seq].cut
        BY <2>1, <2>2 DEF ContentInv, Marked
      <3>2. entries[i] \in Entry /\ content \in [Seqs -> Content]
        BY <2>1 DEF TypeOK
      <3>3. entries[i].discontinuity \in BOOLEAN /\ content[entries[i].seq].cut \in BOOLEAN
        BY <3>2 DEF Entry, Content
      <3> QED BY <3>1, <3>3
    <2> QED BY <2>2, LiveEntries DEF DiscontinuityMarked
  <1> QED BY Invariance, MediaInvariance, <1>1, PTL
-----------------------------------------------------------------------------
(***************************************************************************)
(* What is on disk.                                                        *)
(***************************************************************************)

\* The files of a stray's session are among the ones it knows of.
StrayStore(x) ==
    /\ Len(x.entries) <= MaxSegments
    /\ files[x.session] \subseteq
          Listed(x.entries) \cup (IF x.at = "manifest" THEN {x.next} ELSE {})
                            \cup (IF x.at = "evict" THEN x.evicted ELSE {})

\* The files of the running session are the listed ones, with the segment that
\* is being published or the ones that are being evicted; a session that has not
\* begun has none, and none has more than one beyond the window.
StoreInv ==
    /\ Len(entries) <= MaxSegments
    /\ \A s \in Sessions : s > session => files[s] = {}
    /\ pc \notin {"down", "manifest", "evict"} => files[session] = Listed(entries)
    /\ pc = "manifest" => files[session] = Listed(entries) \cup {segment.seq}
    /\ pc = "evict" => files[session] = Listed(entries) \cup evicted
    /\ \A s \in Sessions : IsFiniteSet(files[s]) /\ Cardinality(files[s]) <= MaxSegments + 1
    /\ \A x \in strays : StrayStore(x)

\* A list of entries names at most as many segments as it is long.
LEMMA ListedBounded ==
    ASSUME NEW q \in Seq(Entry)
    PROVE  IsFiniteSet(Listed(q)) /\ Cardinality(Listed(q)) <= Len(q)
  <1> DEFINE f == [i \in 1 .. Len(q) |-> q[i].seq]
  <1>1. DOMAIN q = 1 .. Len(q) /\ Len(q) \in Nat
    OBVIOUS
  <1>2. f \in Surjection(1 .. Len(q), Listed(q))
    BY <1>1 DEF Surjection, Listed
  <1>3. IsFiniteSet(1 .. Len(q)) /\ Cardinality(1 .. Len(q)) = Len(q)
    BY <1>1, FS_Interval
  <1> QED BY <1>2, <1>3, FS_Surjection

\* Files that become fewer stay within the bound.
LEMMA FewerFiles ==
    ASSUME NEW S, NEW T, IsFiniteSet(S), Cardinality(S) <= MaxSegments + 1, T \subseteq S
    PROVE  IsFiniteSet(T) /\ Cardinality(T) <= MaxSegments + 1
  <1>1. IsFiniteSet(T) /\ Cardinality(T) <= Cardinality(S)
    BY FS_Subset
  <1>2. Cardinality(S) \in Nat /\ Cardinality(T) \in Nat /\ MaxSegments \in Nat
    BY <1>1, FS_CardinalityType, MaxSegmentsType
  <1> QED BY <1>1, <1>2

\* No directory holds anything at first.
LEMMA StoreInit == Init => StoreInv
  <1>1. IsFiniteSet({}) /\ Cardinality({}) = 0 /\ MaxSegments \in Nat /\ Len(<<>>) = 0
    BY FS_EmptySet, MaxSegmentsType
  <1> QED BY <1>1 DEF Init, StoreInv

\* Steps that touch neither the files nor the playlist, and supersede nobody.
LEMMA StoreUnchanged ==
    ASSUME StoreInv, UNCHANGED <<files, entries, session, strays>>,
           pc \notin {"down", "manifest", "evict"}, pc' \notin {"manifest", "evict"}
    PROVE  StoreInv'
  BY DEF StoreInv, StrayStore

\* The files of strays are out of reach of the latest pipeline.
LEMMA StrayStoreKept ==
    ASSUME IndInv, StoreInv, strays' \subseteq strays,
           \A s \in Sessions \ {session} : files'[s] \subseteq files[s]
    PROVE  \A x \in strays' : StrayStore(x)'
  <1> SUFFICES ASSUME NEW x \in strays' PROVE StrayStore(x)'
    OBVIOUS
  <1>1. x \in strays /\ StrayStore(x) /\ x.session \in Sessions \ {session}
    BY DEF IndInv, StrayInv, StrayOK, StoreInv, TypeOK, Stray, Sessions
  <1>2. files'[x.session] \subseteq files[x.session]
    BY <1>1
  <1> QED BY <1>1, <1>2 DEF StrayStore

\* A pipeline that is superseded knows the files of its session.
LEMMA SupersededStore ==
    ASSUME IndInv, StoreInv, pc # "down", NEW x, x = Superseded
    PROVE  StrayStore(x)
  <1>1. /\ x.session = session /\ x.entries = entries /\ x.evicted = evicted
        /\ x.at = IF pc \in StrayPC THEN pc ELSE "media"
        /\ x.next = IF segment # NoSegment THEN segment.seq ELSE nextSeq
    BY DEF Superseded
  <1>2. pc = "manifest" => segment # NoSegment
    BY DEF IndInv, ControlInv
  <1>3. CASE pc = "manifest"
    BY <1>1, <1>2, <1>3 DEF StoreInv, StrayStore, StrayPC
  <1>4. CASE pc = "evict"
    BY <1>1, <1>4 DEF StoreInv, StrayStore, StrayPC
  <1>5. CASE pc \notin {"down", "manifest", "evict"}
    BY <1>1, <1>5 DEF StoreInv, StrayStore, StrayPC
  <1> QED BY <1>3, <1>4, <1>5

\* A full playlist and one more segment stay within the bound.
LEMMA OneMoreFile ==
    ASSUME NEW q \in Seq(Entry), Len(q) <= MaxSegments, NEW n, NEW T,
           T \subseteq Listed(q) \cup {n}
    PROVE  IsFiniteSet(T) /\ Cardinality(T) <= MaxSegments + 1
  <1>1. IsFiniteSet(Listed(q)) /\ Cardinality(Listed(q)) <= Len(q)
    BY ListedBounded
  <1>2. Cardinality(Listed(q)) \in Nat
    BY <1>1, FS_CardinalityType
  <1>3. /\ IsFiniteSet(Listed(q) \cup {n})
        /\ Cardinality(Listed(q) \cup {n}) <= Cardinality(Listed(q)) + 1
    BY <1>1, <1>2, FS_AddElement
  <1>4. /\ Cardinality(Listed(q) \cup {n}) \in Nat /\ Len(q) \in Nat /\ MaxSegments \in Nat
    BY <1>3, FS_CardinalityType, MaxSegmentsType
  <1>5. Cardinality(Listed(q) \cup {n}) <= MaxSegments + 1
    BY <1>1, <1>2, <1>3, <1>4
  <1> QED BY <1>3, <1>5, FewerFiles

\* No step of a stray leaves a file behind that its manifest has dropped.
LEMMA StrayStoreStep ==
    ASSUME IndInv, StoreInv, NEW x \in strays, StrayStep(x)
    PROVE  StoreInv'
  <1> USE DEF media, decode, hls, run
  <1>0. /\ x \in Stray /\ StrayOK(x) /\ StrayStore(x)
        /\ x.session \in Sessions /\ x.session < session /\ session \in Nat
        /\ x.entries \in Seq(Entry) /\ files \in [Sessions -> SUBSET Seqs]
    BY DEF IndInv, TypeOK, StrayInv, StrayOK, StoreInv, Stray
  <1>1. UNCHANGED <<entries, session, pc, segment, evicted>>
    BY DEF StrayStep
  <1>2. ASSUME \A s \in Sessions \ {x.session} : files'[s] = files[s],
               IsFiniteSet(files'[x.session]),
               Cardinality(files'[x.session]) <= MaxSegments + 1,
               \A y \in strays' : StrayStore(y)'
        PROVE  StoreInv'
    <2>1. \A s \in Sessions : s >= session => s # x.session
      BY <1>0 DEF Sessions
    <2>2. pc # "down" => session \in Sessions
      BY DEF IndInv, ControlInv
    <2>3. pc # "down" => files'[session] = files[session]
      BY <1>2, <2>2, <1>0
    <2>4. \A s \in Sessions : s > session => files'[s] = {}
      BY <1>0, <1>2, <2>1 DEF StoreInv, Sessions
    <2>5. \A s \in Sessions : IsFiniteSet(files'[s]) /\ Cardinality(files'[s]) <= MaxSegments + 1
      BY <1>2 DEF StoreInv
    <2>6. Listed(entries)' = Listed(entries)
      BY <1>1 DEF Listed
    <2> QED BY <1>1, <1>2, <2>3, <2>4, <2>5, <2>6 DEF StoreInv
  <1>3. ASSUME \A s \in Sessions \ {x.session} : files'[s] = files[s],
               NEW y \in strays, y # x
        PROVE  StrayStore(y)'
    <2>1. StrayStore(y) /\ y.session \in Sessions /\ y.session # x.session
      BY <1>3 DEF IndInv, TypeOK, StrayInv, StoreInv, Stray
    <2>2. files'[y.session] = files[y.session]
      BY <1>3, <2>1
    <2> QED BY <2>1, <2>2 DEF StrayStore
  <1>4. ASSUME NEW y, strays' = (strays \ {x}) \cup {y}, StrayStore(y)',
               \A s \in Sessions \ {x.session} : files'[s] = files[s]
        PROVE  \A z \in strays' : StrayStore(z)'
    BY <1>3, <1>4
  <1>5. ASSUME NEW why \in {"gap", "rotate", "stop"}, StraySegment(x, why)
        PROVE  StoreInv'
    <2> DEFINE y == [x EXCEPT !.at = "manifest", !.why = why]
    <2>1. /\ x.at = "media" /\ strays' = (strays \ {x}) \cup {y}
          /\ files' = [files EXCEPT ![x.session] = @ \cup {x.next}]
      BY <1>5 DEF StraySegment, Becomes
    <2>2. files'[x.session] \subseteq Listed(x.entries) \cup {x.next}
      BY <1>0, <2>1 DEF StrayStore
    <2>3. /\ y.at = "manifest" /\ y.session = x.session
          /\ y.entries = x.entries /\ y.next = x.next
      BY <1>0 DEF Stray
    <2>4. Len(x.entries) <= MaxSegments
      BY <1>0 DEF StrayStore
    <2> HIDE DEF y
    <2>5. StrayStore(y)'
      BY <2>2, <2>3, <2>4 DEF StrayStore
    <2>6. \A s \in Sessions \ {x.session} : files'[s] = files[s]
      BY <1>0, <2>1
    <2>7. IsFiniteSet(files'[x.session]) /\ Cardinality(files'[x.session]) <= MaxSegments + 1
      BY <1>0, <2>2, <2>4, OneMoreFile
    <2>8. \A z \in strays' : StrayStore(z)'
      BY <1>4, <2>1, <2>5, <2>6
    <2> QED BY <1>2, <2>6, <2>7, <2>8
  <1>6. ASSUME NEW tag \in BOOLEAN, StrayManifest(x, tag)
        PROVE  StoreInv'
    <2> DEFINE e == [seq |-> x.next, discontinuity |-> tag]
               q == Append(x.entries, e)
               y == [x EXCEPT !.at = "evict", !.entries = Windowed(q),
                              !.evicted = Listed(q) \ Listed(Windowed(q))]
    <2>1. /\ x.at = "manifest" /\ strays' = (strays \ {x}) \cup {y} /\ UNCHANGED files
      BY <1>6 DEF StrayManifest, Becomes
    <2>2. e \in Entry /\ e.seq = x.next
      BY <1>0, <1>6, <2>1 DEF StrayOK, Entry, Stray, Seqs
    <2> HIDE DEF e
    <2>3. q \in Seq(Entry) /\ q # <<>> /\ Listed(q) = Listed(x.entries) \cup {x.next}
      BY <1>0, <2>2, AppendFacts
    <2> HIDE DEF q
    <2>4. Listed(Windowed(q)) \subseteq Listed(q)
      BY <2>3, WindowedFacts
    <2>5. Len(Windowed(q)) <= MaxSegments
      BY <2>3, WindowedEntries
    <2>6. /\ y.at = "evict" /\ y.session = x.session /\ y.entries = Windowed(q)
          /\ y.evicted = Listed(q) \ Listed(Windowed(q))
      BY <1>0 DEF Stray
    <2> HIDE DEF y
    <2>7. files[x.session] \subseteq Listed(q)
      BY <1>0, <2>1, <2>3 DEF StrayStore
    <2>8. StrayStore(y)'
      BY <2>1, <2>4, <2>5, <2>6, <2>7 DEF StrayStore
    <2>9. \A z \in strays' : StrayStore(z)'
      BY <1>4, <2>1, <2>8
    <2> QED BY <1>0, <1>2, <2>1, <2>9 DEF StoreInv
  <1>7. ASSUME StrayEvict(x)
        PROVE  StoreInv'
    <2> DEFINE y == [x EXCEPT !.at = IF x.why \in {"rotate", "stop"} THEN "pointer" ELSE "media",
                              !.next = x.next + 1, !.evicted = {}]
    <2>1. /\ x.at = "evict" /\ strays' = (strays \ {x}) \cup {y}
          /\ files' = [files EXCEPT ![x.session] = @ \ x.evicted]
      BY <1>7 DEF StrayEvict, Becomes
    <2>2. y.at \in {"pointer", "media"} /\ y.session = x.session /\ y.entries = x.entries
      BY <1>0 DEF Stray
    <2> HIDE DEF y
    <2>3. files'[x.session] \subseteq files[x.session] /\ files'[x.session] \subseteq Listed(x.entries)
      BY <1>0, <2>1 DEF StrayStore
    <2>4. StrayStore(y)'
      BY <1>0, <2>2, <2>3 DEF StrayStore
    <2>5. \A s \in Sessions \ {x.session} : files'[s] = files[s]
      BY <1>0, <2>1
    <2>6. IsFiniteSet(files'[x.session]) /\ Cardinality(files'[x.session]) <= MaxSegments + 1
      BY <1>0, <2>3, FewerFiles DEF StoreInv
    <2>7. \A z \in strays' : StrayStore(z)'
      BY <1>4, <2>1, <2>4, <2>5
    <2> QED BY <1>2, <2>5, <2>6, <2>7
  <1>8. ASSUME StrayPointer(x)
        PROVE  StoreInv'
    <2> DEFINE y == [x EXCEPT !.at = IF x.why = "rotate" THEN "media" ELSE "stopped"]
    <2>1. x.at = "pointer" /\ strays' = (strays \ {x}) \cup {y} /\ UNCHANGED files
      BY <1>8 DEF StrayPointer, Becomes
    <2>2. y.at \in {"stopped", "media"} /\ y.session = x.session /\ y.entries = x.entries
      BY <1>0 DEF Stray
    <2> HIDE DEF y
    <2>3. StrayStore(y)'
      BY <1>0, <2>1, <2>2 DEF StrayStore
    <2>4. \A z \in strays' : StrayStore(z)'
      BY <1>4, <2>1, <2>3
    <2> QED BY <1>0, <1>2, <2>1, <2>4 DEF StoreInv
  <1>9. ASSUME StrayStops(x) \/ StrayDies(x)
        PROVE  StoreInv'
    <2>1. strays' = strays \ {x} /\ UNCHANGED files
      BY <1>9 DEF StrayStops, StrayDies
    <2>2. \A z \in strays' : StrayStore(z)'
      BY <1>3, <2>1
    <2> QED BY <1>0, <1>2, <2>1, <2>2 DEF StoreInv
  <1> QED BY <1>5, <1>6, <1>7, <1>8, <1>9 DEF StrayStep

\* No action leaves a file behind that the manifest has dropped.
LEMMA StoreStep == IndInv /\ StoreInv /\ [Next]_vars => StoreInv'
  <1> SUFFICES ASSUME IndInv, StoreInv, [Next]_vars PROVE StoreInv'
    OBVIOUS
  <1> USE BoundsAssumption DEF disk, media, decode, hls, run
  <1>0. TypeOK /\ ControlInv /\ PlaylistInv /\ FilesInv
    BY DEF IndInv
  <1>1. ASSUME NEW seeded \in BOOLEAN, NEW readable \in BOOLEAN,
               StartSession(seeded, readable)
        PROVE  StoreInv'
    <2>1. session' = session + 1 /\ session' \in Sessions /\ session \in Nat
      BY <1>0, <1>1 DEF StartSession, TypeOK, Sessions
    <2>2. pc' = "recv" /\ entries' = <<>> /\ UNCHANGED files
      BY <1>1 DEF StartSession, Fresh
    <2>3. files[session'] = {} /\ \A s \in Sessions : s > session' => files[s] = {}
      BY <2>1 DEF StoreInv, Sessions
    <2>4. Listed(<<>>) = {} /\ Len(<<>>) <= MaxSegments
      BY MaxSegmentsType DEF Listed
    <2>5. ASSUME NEW x \in strays' PROVE StrayStore(x)'
      <3>1. CASE x \in strays
        BY <2>2, <3>1 DEF StoreInv, StrayStore
      <3>2. CASE x \notin strays
        <4>1. pc # "down" /\ x = Superseded
          BY <1>1, <2>5, <3>2 DEF StartSession
        <4>2. StrayStore(x)
          BY <4>1, SupersededStore
        <4> QED BY <2>2, <4>2 DEF StrayStore
      <3> QED BY <3>1, <3>2
    <2>6. Listed(entries)' = {}
      BY <2>2, <2>4 DEF Listed
    <2> QED BY <2>2, <2>3, <2>4, <2>5, <2>6 DEF StoreInv
  <1>2. CASE Receiving \/ ProcessPacket \/ (\E due \in BOOLEAN : HandleAccessUnit(due))
    <2>1. pc \notin {"down", "manifest", "evict"} /\ pc' \notin {"manifest", "evict"}
      BY <1>2 DEF Receiving, RecvGap, RecvUnparsable, RecvRtp, RecvNone, ProcessPacket,
                  HandleAccessUnit, HandleDiscontinuity, Discontinued
    <2>2. UNCHANGED <<files, entries, session, strays>>
      BY <1>2 DEF Receiving, RecvGap, RecvUnparsable, RecvRtp, RecvNone, ProcessPacket,
                  HandleAccessUnit, HandleDiscontinuity
    <2> QED BY <2>1, <2>2, StoreUnchanged
  <1>3. CASE OpenSegment \/ WriteAccessUnit \/ WritePointer
    BY <1>3, StoreUnchanged DEF OpenSegment, WriteAccessUnit, WritePointer
  <1>4. CASE PublishSegment
    <2>1. /\ pc = "segment" /\ pc' = "manifest" /\ session \in Sessions
          /\ entries \in Seq(Entry) /\ files \in [Sessions -> SUBSET Seqs]
          /\ files' = [files EXCEPT ![session] = @ \cup {segment.seq}]
          /\ UNCHANGED <<entries, session, segment, strays>>
      BY <1>0, <1>4 DEF PublishSegment, ControlInv, TypeOK
    <2>2. files'[session] = Listed(entries) \cup {segment.seq}
      BY <2>1 DEF StoreInv
    <2>3. /\ IsFiniteSet(files'[session])
          /\ Cardinality(files'[session]) <= MaxSegments + 1
      <3>1. IsFiniteSet(Listed(entries)) /\ Cardinality(Listed(entries)) <= Len(entries)
        BY <2>1, ListedBounded
      <3>2. /\ IsFiniteSet(files'[session])
            /\ Cardinality(files'[session]) <= Cardinality(Listed(entries)) + 1
        <4>1. Cardinality(Listed(entries)) \in Nat
          BY <3>1, FS_CardinalityType
        <4> QED BY <2>2, <3>1, <4>1, FS_AddElement
      <3>3. /\ Cardinality(Listed(entries)) \in Nat /\ Cardinality(files'[session]) \in Nat
            /\ Len(entries) \in Nat /\ MaxSegments \in Nat
        BY <2>1, <3>1, <3>2, FS_CardinalityType, MaxSegmentsType
      <3>4. Len(entries) <= MaxSegments
        BY DEF StoreInv
      <3> QED BY <3>1, <3>2, <3>3, <3>4
    <2>4. \A s \in Sessions \ {session} : files'[s] = files[s]
      BY <2>1
    <2>5. \A s \in Sessions : s > session => s # session
      BY <2>1 DEF Sessions
    <2>6. \A x \in strays' : StrayStore(x)'
      BY <2>1, <2>4, StrayStoreKept
    <2> QED BY <2>1, <2>2, <2>3, <2>4, <2>5, <2>6 DEF StoreInv
  <1>5. CASE PublishManifest
    <2>1. /\ pc = "manifest" /\ pc' = "evict"
          /\ segment \in Segment /\ entries \in Seq(Entry)
          /\ entries' = Windowed(Pushed) /\ evicted' = Evicted
          /\ UNCHANGED <<files, session, strays>>
      BY <1>0, <1>5 DEF PublishManifest, ControlInv, TypeOK
    <2>2. /\ Pushed \in Seq(Entry) /\ Pushed # <<>>
          /\ Listed(Pushed) = Listed(entries) \cup {segment.seq}
      BY <2>1, PushedFacts
    <2>3. Len(entries') <= MaxSegments
      BY <2>1, <2>2, WindowedEntries
    <2>4. Listed(Windowed(Pushed)) \subseteq Listed(Pushed)
      BY <2>2, WindowedFacts
    <2>5. files[session] = Listed(Windowed(Pushed)) \cup Evicted
      BY <2>1, <2>2, <2>4 DEF StoreInv, Evicted
    <2>6. Listed(entries)' = Listed(Windowed(Pushed))
      BY <2>1 DEF Listed
    <2>7. \A x \in strays' : StrayStore(x)'
      BY <2>1, StrayStoreKept
    <2> QED BY <2>1, <2>3, <2>5, <2>6, <2>7 DEF StoreInv
  <1>6. CASE EvictSegments
    <2>1. /\ pc = "evict" /\ session \in Sessions /\ files \in [Sessions -> SUBSET Seqs]
          /\ files' = [files EXCEPT ![session] = @ \ evicted]
          /\ UNCHANGED <<entries, session, strays>>
      BY <1>0, <1>6 DEF EvictSegments, ControlInv, TypeOK
    <2>2. pc' \notin {"down", "manifest", "evict"}
      BY <1>6 DEF EvictSegments, Discontinued
    <2>3. files'[session] = Listed(entries) /\ files'[session] \subseteq files[session]
      BY <1>0, <2>1 DEF StoreInv, FilesInv
    <2>4. \A s \in Sessions \ {session} : files'[s] = files[s]
      BY <2>1
    <2>5. /\ IsFiniteSet(files'[session])
          /\ Cardinality(files'[session]) <= MaxSegments + 1
      BY <2>1, <2>3, FewerFiles DEF StoreInv
    <2>6. \A s \in Sessions : s > session => s # session
      BY <2>1 DEF Sessions
    <2>7. \A x \in strays' : StrayStore(x)'
      BY <2>1, <2>4, StrayStoreKept
    <2> QED BY <2>1, <2>2, <2>3, <2>4, <2>5, <2>6, <2>7 DEF StoreInv
  <1>7. CASE Stopped \/ Die \/ Crash
    <2>1. /\ pc' = "down" /\ entries' = <<>> /\ UNCHANGED <<files, session>>
          /\ strays' \subseteq strays
      BY <1>7 DEF Stopped, Die, Crash, Forget, Fresh
    <2>2. Len(<<>>) <= MaxSegments
      BY MaxSegmentsType
    <2>3. \A x \in strays' : StrayStore(x)'
      BY <2>1, StrayStoreKept
    <2> QED BY <2>1, <2>2, <2>3 DEF StoreInv
  <1>8. ASSUME NEW d \in Sessions, CleanupOldSessions(d) \/ RemoveEntry(d) \/ RemovalEnds(d)
        PROVE  StoreInv'
    <2>1. UNCHANGED <<entries, session, pc, segment, evicted, strays>>
      BY <1>8 DEF CleanupOldSessions, RemoveEntry, RemovalEnds
    <2>2. \A s \in Sessions : /\ files'[s] \subseteq files[s]
                              /\ s = session => files'[s] = files[s]
      <3>1. CASE CleanupOldSessions(d) \/ RemovalEnds(d)
        BY <3>1 DEF CleanupOldSessions, RemovalEnds
      <3>2. CASE RemoveEntry(d)
        <4>1. d # session
          BY <1>0, <3>2 DEF RemoveEntry, ControlInv, TypeOK, Sessions
        <4> QED BY <1>0, <3>2, <4>1 DEF RemoveEntry, TypeOK
      <3> QED BY <1>8, <3>1, <3>2
    <2>3. \A s \in Sessions : IsFiniteSet(files'[s]) /\ Cardinality(files'[s]) <= MaxSegments + 1
      BY <2>2, FewerFiles DEF StoreInv
    <2>4. \A s \in Sessions : s > session => files'[s] = {}
      BY <2>2 DEF StoreInv
    <2>5. pc # "down" => files'[session] = files[session]
      BY <1>0, <2>2 DEF ControlInv
    <2>6. Listed(entries)' = Listed(entries)
      BY <2>1 DEF Listed
    <2>7. \A x \in strays' : StrayStore(x)'
      BY <2>1, <2>2, StrayStoreKept
    <2> QED BY <2>1, <2>3, <2>4, <2>5, <2>6, <2>7 DEF StoreInv
  <1>9. CASE UNCHANGED vars
    BY <1>9 DEF StoreInv, StrayStore, vars, Listed
  <1>10. ASSUME NEW x \in strays, StrayStep(x) PROVE StoreInv'
    BY <1>10, StrayStoreStep
  <1> QED
    BY <1>1, <1>2, <1>3, <1>4, <1>5, <1>6, <1>7, <1>8, <1>9, <1>10
    DEF Next, FaultFree, Handling

\* The segments on disk are the listed ones whenever the pipeline waits, and
\* never more than one beyond the window, in any session and however it ended.
THEOREM DiskAlwaysBounded == Spec => []DiskBounded
  <1>1. IndInv /\ StoreInv /\ [Next]_vars => StoreInv'
    BY StoreStep
  <1>2. IndInv /\ StoreInv => DiskBounded
    <2> SUFFICES ASSUME IndInv, StoreInv PROVE DiskBounded
      OBVIOUS
    <2>1. pc = "recv" => entries = manifest[session]
      BY DEF IndInv, PlaylistInv
    <2> QED BY <2>1 DEF StoreInv, DiskBounded
  <1> QED BY StoreInit, Invariance, <1>1, <1>2, PTL DEF Spec
=============================================================================
