------------------------- MODULE ClipPipelineProofs -------------------------
(***************************************************************************)
(* A published clip has no hole and can be decoded again behind every loss *)
(* of media: for any packets, any number of access units and clips.        *)
(***************************************************************************)
EXTENDS ClipPipeline, SequenceTheorems, WellFoundedInduction, TLAPS

\* Wherever media is missing a decoder can start.
Good(q) == \A i \in 1 .. Len(q) : q[i].cut => q[i].idr /\ q[i].ps

\* No access unit is missing; one may be repeated on the spot.
Chain(q) == \A i \in 1 .. Len(q) - 1 : q[i + 1].n \in {q[i].n, q[i].n + 1}

EndsAt(q, n) == q # <<>> => q[Len(q)].n = n

\* A pipeline that has lost media is out of sync, and all it has kept is decodable.
ResyncInv ==
    /\ cut => ~synced
    /\ Good(ring)
    /\ Good(snapshot)
    /\ Good(clip.content.units)
    /\ \A k \in Clips : Good(media[k].units)

\* Where the pipeline is in the life of a clip.
PhaseInv ==
    /\ pending => clip = NoClip
    /\ pc = "start" => pending
    /\ pc \in {"write", "sidecar"} => clip # NoClip

\* The ring ends with the last access unit, and holds it when it is written.
RingInv ==
    /\ Chain(ring)
    /\ EndsAt(ring, units)
    /\ pc \in {"start", "write"} => ring # <<>>

\* The snapshot ends where the next access unit goes on.
SnapshotInv ==
    /\ Chain(snapshot)
    /\ pending => EndsAt(snapshot, IF pc = "start" THEN units - 1 ELSE units)

\* So does the clip.
ClipInv ==
    clip # NoClip /\ clip.content.whole =>
        /\ Chain(clip.content.units)
        /\ EndsAt(clip.content.units, IF pc = "write" THEN units - 1 ELSE units)
        /\ pc # "write" => clip.content.units # <<>>

\* What holds for any ring, and what needs one that keeps the newest access unit.
DecodeInv == TypeOK /\ ResyncInv /\ PhaseInv
HoldInv   == RingInv /\ SnapshotInv /\ ClipInv /\ ClipContiguous
-----------------------------------------------------------------------------
(***************************************************************************)
(* Sequences of access units.                                              *)
(***************************************************************************)

\* A set of numbers that is not empty has a least element.
LEMMA LeastExists ==
    ASSUME NEW T \in SUBSET Nat, T # {}
    PROVE  \E x \in T : \A y \in T : x <= y
  <1>1. PICK x \in T : \A y \in T : ~(<<y, x>> \in OpToRel(<, Nat))
    BY NatLessThanWellFounded, WFMin, Zenon
  <1>2. \A y \in T : ~(y < x)
    BY <1>1 DEF OpToRel
  <1> QED BY <1>2

LEMMA EmptyUnits ==
    /\ <<>> \in Seq(Unit) /\ Len(<<>>) = 0
    /\ Good(<<>>) /\ Chain(<<>>) /\ \A n : EndsAt(<<>>, n)
  BY DEF Good, Chain, EndsAt

\* The rest of a sequence from i on.
LEMMA SuffixKeeps ==
    ASSUME NEW q \in Seq(Unit), NEW i \in 1 .. Len(q) + 1
    PROVE  /\ SubSeq(q, i, Len(q)) \in Seq(Unit)
           /\ Len(SubSeq(q, i, Len(q))) = Len(q) - i + 1
           /\ i <= Len(q) => SubSeq(q, i, Len(q)) # <<>>
           /\ Good(q) => Good(SubSeq(q, i, Len(q)))
           /\ Chain(q) => Chain(SubSeq(q, i, Len(q)))
           /\ \A n : EndsAt(q, n) => EndsAt(SubSeq(q, i, Len(q)), n)
  <1> DEFINE s == SubSeq(q, i, Len(q))
  <1>1. Len(q) \in Nat /\ i \in Nat /\ \A j \in i .. Len(q) : q[j] \in Unit
    BY LenProperties, ElementOfSeq
  <1>2. /\ s \in Seq(Unit)
        /\ Len(s) = Len(q) - i + 1
        /\ \A j \in 1 .. Len(q) - i + 1 : s[j] = q[i + j - 1]
    BY <1>1, SubSeqProperties
  <1> HIDE DEF s
  <1>3. i <= Len(q) => s # <<>>
    BY <1>1, <1>2
  <1>4. Good(q) => Good(s)
    <2> SUFFICES ASSUME Good(q), NEW j \in 1 .. Len(s) PROVE s[j].cut => s[j].idr /\ s[j].ps
      BY DEF Good
    <2>1. s[j] = q[i + j - 1] /\ i + j - 1 \in 1 .. Len(q)
      BY <1>1, <1>2
    <2> QED BY <2>1 DEF Good
  <1>5. Chain(q) => Chain(s)
    <2> SUFFICES ASSUME Chain(q), NEW j \in 1 .. Len(s) - 1 PROVE s[j + 1].n \in {s[j].n, s[j].n + 1}
      BY DEF Chain
    <2>1. /\ j \in 1 .. Len(q) - i + 1 /\ j + 1 \in 1 .. Len(q) - i + 1
          /\ i + (j + 1) - 1 = (i + j - 1) + 1 /\ i + j - 1 \in 1 .. Len(q) - 1
      BY <1>1, <1>2
    <2>2. s[j] = q[i + j - 1] /\ s[j + 1] = q[(i + j - 1) + 1]
      BY <1>2, <2>1
    <2> QED BY <2>1, <2>2 DEF Chain
  <1>6. ASSUME NEW n, EndsAt(q, n) PROVE EndsAt(s, n)
    <2> SUFFICES ASSUME s # <<>> PROVE s[Len(s)].n = n
      BY DEF EndsAt
    <2>1. Len(s) # 0
      BY <1>2, EmptySeq
    <2>2. Len(s) \in 1 .. Len(q) - i + 1 /\ i + Len(s) - 1 = Len(q) /\ Len(q) # 0
      BY <1>1, <1>2, <2>1
    <2>3. s[Len(s)] = q[Len(q)]
      BY <1>2, <2>2
    <2>4. q # <<>>
      BY <2>2
    <2> QED BY <1>6, <2>3, <2>4 DEF EndsAt
  <1> QED BY <1>2, <1>3, <1>4, <1>5, <1>6 DEF s

\* What goes on where the sequence before it ends.
LEMMA ConcatKeeps ==
    ASSUME NEW q \in Seq(Unit), NEW u \in Unit
    PROVE  /\ Append(q, u) \in Seq(Unit) /\ Append(q, u) # <<>> /\ q \o <<u>> = Append(q, u)
           /\ Good(q) /\ (u.cut => u.idr /\ u.ps) => Good(Append(q, u))
           /\ Chain(q) /\ (EndsAt(q, u.n) \/ EndsAt(q, u.n - 1)) => Chain(Append(q, u))
           /\ EndsAt(Append(q, u), u.n)
  <1> DEFINE s == Append(q, u)
  <1>1. /\ s \in Seq(Unit) /\ s # <<>> /\ Len(s) = Len(q) + 1 /\ Len(q) \in Nat
        /\ \A i \in 1 .. Len(q) : s[i] = q[i]
        /\ s[Len(q) + 1] = u
    BY AppendProperties, LenProperties
  <1>2. q \o <<u>> = s
    BY AppendIsConcat
  <1> HIDE DEF s
  <1>3. ASSUME Good(q), u.cut => u.idr /\ u.ps PROVE Good(s)
    <2> SUFFICES ASSUME NEW j \in 1 .. Len(s) PROVE s[j].cut => s[j].idr /\ s[j].ps
      BY DEF Good
    <2>1. CASE j \in 1 .. Len(q)
      BY <1>1, <1>3, <2>1 DEF Good
    <2>2. CASE j = Len(q) + 1
      BY <1>1, <1>3, <2>2
    <2> QED BY <1>1, <2>1, <2>2
  <1>4. ASSUME Chain(q), EndsAt(q, u.n) \/ EndsAt(q, u.n - 1) PROVE Chain(s)
    <2> SUFFICES ASSUME NEW j \in 1 .. Len(s) - 1 PROVE s[j + 1].n \in {s[j].n, s[j].n + 1}
      BY DEF Chain
    <2>1. CASE j \in 1 .. Len(q) - 1
      <3>1. s[j] = q[j] /\ s[j + 1] = q[j + 1]
        BY <1>1, <2>1
      <3> QED BY <1>4, <2>1, <3>1 DEF Chain
    <2>2. CASE j = Len(q)
      <3>1. q # <<>> /\ s[j] = q[Len(q)] /\ s[j + 1] = u
        BY <1>1, <2>2
      <3>2. q[Len(q)].n = u.n \/ q[Len(q)].n = u.n - 1
        BY <1>4, <3>1 DEF EndsAt
      <3>3. u.n \in Int
        BY DEF Unit
      <3> QED BY <3>1, <3>2, <3>3
    <2> QED BY <1>1, <2>1, <2>2
  <1>5. EndsAt(s, u.n)
    BY <1>1 DEF EndsAt
  <1> QED BY <1>1, <1>2, <1>3, <1>4, <1>5 DEF s

\* What is left of a clip when something of it is gone.
LEMMA CutOutKeeps ==
    ASSUME NEW q \in Seq(Unit), NEW i \in 1 .. Len(q), NEW j \in i .. Len(q)
    PROVE  LET r == SubSeq(q, 1, i - 1) \o SubSeq(q, j + 1, Len(q))
           IN  r \in Seq(Unit) /\ (Good(q) => Good(r))
  <1> DEFINE a == SubSeq(q, 1, i - 1)
             b == SubSeq(q, j + 1, Len(q))
  <1>1. Len(q) \in Nat /\ \A k \in 1 .. Len(q) : q[k] \in Unit
    BY LenProperties, ElementOfSeq
  <1>2. /\ a \in Seq(Unit) /\ Len(a) = i - 1
        /\ \A k \in 1 .. i - 1 : a[k] = q[k]
    <2>1. \A k \in 1 .. i - 1 : q[k] \in Unit
      BY <1>1
    <2>2. /\ a \in Seq(Unit) /\ Len(a) = (IF 1 <= i - 1 THEN (i - 1) - 1 + 1 ELSE 0)
          /\ \A k \in 1 .. (i - 1) - 1 + 1 : a[k] = q[1 + k - 1]
      BY <1>1, <2>1, SubSeqProperties
    <2> HIDE DEF a
    <2> QED BY <1>1, <2>2
  <1>3. b \in Seq(Unit) /\ (Good(q) => Good(b))
    <2>1. j + 1 \in 1 .. Len(q) + 1
      BY <1>1
    <2> QED BY <2>1, SuffixKeeps
  <1> HIDE DEF a, b
  <1>4. /\ a \o b \in Seq(Unit) /\ Len(a \o b) = Len(a) + Len(b) /\ Len(a) \in Nat /\ Len(b) \in Nat
        /\ \A k \in 1 .. Len(a) + Len(b) : (a \o b)[k] = IF k <= Len(a) THEN a[k] ELSE b[k - Len(a)]
    BY <1>2, <1>3, ConcatProperties, LenProperties
  <1>5. ASSUME Good(q) PROVE Good(a \o b)
    <2> SUFFICES ASSUME NEW k \in 1 .. Len(a \o b)
                 PROVE  (a \o b)[k].cut => (a \o b)[k].idr /\ (a \o b)[k].ps
      BY DEF Good
    <2>1. CASE k <= Len(a)
      <3>1. (a \o b)[k] = q[k] /\ k \in 1 .. Len(q)
        BY <1>1, <1>2, <1>4, <2>1
      <3> QED BY <1>5, <3>1 DEF Good
    <2>2. CASE k > Len(a)
      <3>1. (a \o b)[k] = b[k - Len(a)] /\ k - Len(a) \in 1 .. Len(b)
        BY <1>4, <2>2
      <3> QED BY <1>3, <1>5, <3>1 DEF Good
    <2> QED BY <1>4, <2>1, <2>2
  <1> QED BY <1>4, <1>5 DEF a, b

\* Parameter sets in front of the first access unit.
LEMMA PrefixedKeeps ==
    ASSUME NEW q \in Seq(Unit), q # <<>>
    PROVE  LET r == [q EXCEPT ![1].ps = TRUE]
           IN  /\ r \in Seq(Unit)
               /\ Good(q) => Good(r)
               /\ Chain(q) => Chain(r)
               /\ \A n : EndsAt(q, n) => EndsAt(r, n)
  <1> DEFINE e == [q[1] EXCEPT !.ps = TRUE]
             r == [q EXCEPT ![1] = e]
  <1>1. Len(q) \in Nat \ {0} /\ 1 \in 1 .. Len(q) /\ \A i \in 1 .. Len(q) : q[i] \in Unit
    BY EmptySeq, LenProperties, ElementOfSeq
  <1>2. e \in Unit /\ e.ps /\ e.n = q[1].n /\ e.idr = q[1].idr /\ e.cut = q[1].cut
    BY <1>1 DEF Unit
  <1> HIDE DEF e
  <1>3. /\ r \in Seq(Unit) /\ Len(r) = Len(q)
        /\ \A i \in 1 .. Len(q) : r[i] = IF i = 1 THEN e ELSE q[i]
    BY <1>1, <1>2, ExceptSeq
  <1> HIDE DEF r
  <1>4. \A i \in 1 .. Len(q) : r[i].n = q[i].n /\ r[i].idr = q[i].idr /\ r[i].cut = q[i].cut
                               /\ (q[i].ps => r[i].ps)
    BY <1>2, <1>3
  <1>5. Good(q) => Good(r)
    BY <1>3, <1>4 DEF Good
  <1>6. Chain(q) => Chain(r)
    <2> SUFFICES ASSUME Chain(q), NEW j \in 1 .. Len(q) - 1 PROVE r[j + 1].n \in {r[j].n, r[j].n + 1}
      BY <1>3 DEF Chain
    <2>1. j \in 1 .. Len(q) /\ j + 1 \in 1 .. Len(q)
      BY <1>1
    <2> QED BY <1>4, <2>1 DEF Chain
  <1>7. ASSUME NEW n, EndsAt(q, n) PROVE EndsAt(r, n)
    <2>1. Len(q) \in 1 .. Len(q)
      BY <1>1
    <2> QED BY <1>3, <1>4, <1>7, <2>1 DEF EndsAt
  <1>8. r = [q EXCEPT ![1].ps = TRUE]
    BY DEF r, e
  <1> QED BY <1>3, <1>5, <1>6, <1>7, <1>8

\* What a clip starts with.
LEMMA PrerollKeeps ==
    ASSUME snapshot \in Seq(Unit)
    PROVE  /\ Preroll \in Seq(Unit)
           /\ Good(snapshot) => Good(Preroll)
           /\ Chain(snapshot) => Chain(Preroll)
           /\ \A n : EndsAt(snapshot, n) => EndsAt(Preroll, n)
  <1> DEFINE idrs == {i \in DOMAIN snapshot : snapshot[i].idr}
             from == CHOOSE i \in idrs : \A j \in idrs : i <= j
             s    == SubSeq(snapshot, from, Len(snapshot))
  <1>1. CASE idrs = {}
    <2>1. Preroll = <<>>
      BY <1>1 DEF Preroll
    <2> QED BY <2>1, EmptyUnits
  <1>2. CASE idrs # {}
    <2>1. idrs \subseteq 1 .. Len(snapshot) /\ Len(snapshot) \in Nat
      BY LenProperties
    <2>2. idrs \in SUBSET Nat
      BY <2>1
    <2>3. \E i \in idrs : \A j \in idrs : i <= j
      BY <1>2, <2>2, LeastExists
    <2>4. from \in idrs
      BY <2>3
    <2>5. from \in 1 .. Len(snapshot) + 1 /\ from <= Len(snapshot)
      BY <2>1, <2>4
    <2>6. Preroll = [s EXCEPT ![1].ps = TRUE]
      BY <1>2 DEF Preroll
    <2> HIDE DEF from, idrs
    <2>7. /\ s \in Seq(Unit) /\ s # <<>>
          /\ Good(snapshot) => Good(s)
          /\ Chain(snapshot) => Chain(s)
          /\ \A n : EndsAt(snapshot, n) => EndsAt(s, n)
      BY <2>5, SuffixKeeps
    <2> HIDE DEF s
    <2> QED BY <2>6, <2>7, PrefixedKeeps
  <1> QED BY <1>1, <1>2
-----------------------------------------------------------------------------
(***************************************************************************)
(* The invariant that holds for any ring.                                  *)
(***************************************************************************)
LEMMA DecodeInit == Init => DecodeInv
  <1> SUFFICES ASSUME Init PROVE DecodeInv
    OBVIOUS
  <1>1. NoContent \in Content
    BY EmptyUnits DEF NoContent, Content
  <1>2. TypeOK
    <2>1. media \in [Clips -> Content]
      BY <1>1 DEF Init
    <2>2. units \in 0 .. MaxUnits /\ clips \in 0 .. MaxClips
      BY ClipAssumption DEF Init
    <2>3. ring \in Seq(Unit) /\ snapshot \in Seq(Unit)
      BY EmptyUnits DEF Init
    <2> QED BY <2>1, <2>2, <2>3 DEF Init, TypeOK, FuState
  <1>3. ResyncInv
    <2>1. \A k \in Clips : media[k].units = <<>>
      BY DEF Init, NoContent
    <2> QED BY <2>1, EmptyUnits DEF Init, ResyncInv, NoClip, NoContent
  <1>4. PhaseInv
    BY DEF Init, PhaseInv
  <1> QED BY <1>2, <1>3, <1>4 DEF DecodeInv

\* The NAL units of a packet.
LEMMA PacketType ==
    ASSUME TypeOK, NEW p \in Packets, ~Undecodable(fu, p.payload)
    PROVE  Gathered(p) \subseteq NalClass /\ FuAfter(fu, p.payload) \in FuState
  <1> DEFINE pl == p.payload
  <1>1. /\ pl \in [kind : PayloadKind, nals : Seq(NalClass)]
        /\ pl.kind \notin {"stap", "empty", "malformed"} => Len(pl.nals) = 1
    BY ClipAssumption DEF Payload
  <1>2. pl.kind = "fuEnd" => fu \in NalClass
    BY DEF Undecodable, TypeOK, FuState
  <1>3. \A i \in DOMAIN pl.nals : pl.nals[i] \in NalClass
    BY <1>1, ElementOfSeq, LenProperties
  <1>4. pl.kind = "fuStart" => pl.nals[1] \in NalClass
    BY <1>1, ElementOfSeq, LenProperties
  <1>5. fu \in FuState /\ au \subseteq NalClass
    BY DEF TypeOK
  <1> HIDE DEF pl
  <1>6. FuAfter(fu, pl) \in FuState
    BY <1>4, <1>5 DEF FuAfter, FuState
  <1>7. \A i \in DOMAIN NalsOf(fu, pl) : NalsOf(fu, pl)[i] \in NalClass
    <2>1. CASE pl.kind \in {"single", "stap"}
      BY <1>3, <2>1 DEF NalsOf
    <2>2. CASE pl.kind = "fuEnd"
      <3>1. NalsOf(fu, pl) = <<fu>>
        BY <2>2 DEF NalsOf
      <3> QED BY <1>2, <2>2, <3>1
    <2>3. CASE pl.kind \notin {"single", "stap", "fuEnd"}
      <3>1. NalsOf(fu, pl) = <<>>
        BY <2>3 DEF NalsOf
      <3> QED BY <3>1
    <2> QED BY <2>1, <2>2, <2>3
  <1>8. Gathered(p) = au \cup {NalsOf(fu, pl)[i] : i \in DOMAIN NalsOf(fu, pl)}
    BY DEF Gathered, pl
  <1> QED BY <1>5, <1>6, <1>7, <1>8 DEF pl

\* A message that adds no access unit: media may be lost, then the pipeline is
\* out of sync.
LEMMA QuietMessage ==
    ASSUME DecodeInv,
           \/ RecvGap \/ RecvUnparsable \/ RecvMismatch
           \/ \E p \in Packets, inOrder \in BOOLEAN :
                 \/ RecvUndecodable(p, inOrder) \/ RecvPart(p, inOrder) \/ RecvUnitUnsynced(p, inOrder)
    PROVE  /\ DecodeInv'
           /\ pc = "recv" /\ UNCHANGED <<disk, pc, ring, pending, snapshot, clip, units, clips>>
  <1>0. TypeOK /\ ResyncInv /\ PhaseInv
    BY DEF DecodeInv
  <1>1. pc = "recv" /\ UNCHANGED <<disk, pc, ring, pending, snapshot, clip, units, clips>>
    BY DEF RecvGap, RecvUnparsable, RecvMismatch, RecvUndecodable, RecvPart, RecvUnitUnsynced, Decoded,
           Arrives
  <1>2. /\ fu' \in FuState /\ expected' \in BOOLEAN /\ synced' \in BOOLEAN /\ params' \subseteq ParamSets
        /\ au' \subseteq NalClass /\ lost' \in BOOLEAN /\ cut' \in BOOLEAN
        /\ cut' => ~synced'
    <2>0. /\ fu \in FuState /\ expected \in BOOLEAN /\ synced \in BOOLEAN /\ params \subseteq ParamSets
          /\ au \subseteq NalClass /\ lost \in BOOLEAN /\ cut \in BOOLEAN /\ (cut => ~synced)
      BY <1>0 DEF TypeOK, ResyncInv
    <2>1. ASSUME NEW b \in BOOLEAN, Desync(b), lost' \in BOOLEAN
          PROVE  /\ fu' \in FuState /\ expected' \in BOOLEAN /\ synced' \in BOOLEAN
                 /\ params' \subseteq ParamSets /\ au' \subseteq NalClass /\ lost' \in BOOLEAN
                 /\ cut' \in BOOLEAN /\ (cut' => ~synced')
      BY <2>0, <2>1 DEF Desync, FuState
    <2>2. CASE RecvGap \/ RecvUnparsable \/ RecvMismatch
      BY <2>1, <2>2 DEF RecvGap, RecvUnparsable, RecvMismatch, Arrives
    <2>3. ASSUME NEW p \in Packets, NEW inOrder \in BOOLEAN, RecvUndecodable(p, inOrder)
          PROVE  /\ fu' \in FuState /\ expected' \in BOOLEAN /\ synced' \in BOOLEAN
                 /\ params' \subseteq ParamSets /\ au' \subseteq NalClass /\ lost' \in BOOLEAN
                 /\ cut' \in BOOLEAN /\ (cut' => ~synced')
      BY <2>1, <2>3 DEF RecvUndecodable, Arrives
    <2>4. ASSUME NEW p \in Packets, NEW inOrder \in BOOLEAN, RecvPart(p, inOrder)
          PROVE  /\ fu' \in FuState /\ expected' \in BOOLEAN /\ synced' \in BOOLEAN
                 /\ params' \subseteq ParamSets /\ au' \subseteq NalClass /\ lost' \in BOOLEAN
                 /\ cut' \in BOOLEAN /\ (cut' => ~synced')
      <3>1. Gathered(p) \subseteq NalClass /\ FuAfter(fu, p.payload) \in FuState
        BY <1>0, <2>4, PacketType DEF RecvPart, Decoded
      <3> QED BY <2>0, <2>4, <3>1 DEF RecvPart, Decoded, Arrives
    <2>5. ASSUME NEW p \in Packets, NEW inOrder \in BOOLEAN, RecvUnitUnsynced(p, inOrder)
          PROVE  /\ fu' \in FuState /\ expected' \in BOOLEAN /\ synced' \in BOOLEAN
                 /\ params' \subseteq ParamSets /\ au' \subseteq NalClass /\ lost' \in BOOLEAN
                 /\ cut' \in BOOLEAN /\ (cut' => ~synced')
      <3>1. FuAfter(fu, p.payload) \in FuState
        BY <1>0, <2>5, PacketType DEF RecvUnitUnsynced, Decoded
      <3>2. Cached(p) \subseteq ParamSets
        BY <2>0 DEF Cached
      <3> QED BY <2>0, <2>5, <3>1, <3>2 DEF RecvUnitUnsynced, Decoded, Arrives
    <2> QED BY <2>2, <2>3, <2>4, <2>5
  <1>3. TypeOK'
    BY <1>0, <1>1, <1>2 DEF TypeOK, disk
  <1>4. ResyncInv'
    BY <1>0, <1>1, <1>2 DEF ResyncInv, disk
  <1>5. PhaseInv'
    BY <1>0, <1>1 DEF PhaseInv
  <1> QED BY <1>1, <1>3, <1>4, <1>5 DEF DecodeInv

\* An access unit goes into the ring; behind a loss it is an IDR with its
\* parameter sets.
UnitFacts(p, u) ==
    /\ pc = "recv"
    /\ u = NewUnit(p) /\ u \in Unit /\ u.n = units + 1
    /\ u.cut => u.idr /\ u.ps
    /\ ring' \in Pruned(Append(ring, u))
    /\ units' = units + 1 /\ units' \in 0 .. MaxUnits
    /\ pc' = (IF clip # NoClip THEN "write" ELSE IF pending THEN "start" ELSE "recv")
    /\ UNCHANGED <<disk, pending, snapshot, clip, clips>>

LEMMA UnitIs ==
    ASSUME DecodeInv, NEW p \in Packets, NEW inOrder \in BOOLEAN, RecvUnit(p, inOrder)
    PROVE  \E u \in Unit : UnitFacts(p, u)
  <1>0. TypeOK /\ ResyncInv
    BY DEF DecodeInv
  <1>1. /\ synced \/ Syncs(p)
        /\ units < MaxUnits /\ pc = "recv"
        /\ ring' \in Pruned(Append(ring, NewUnit(p))) /\ units' = units + 1
        /\ pc' = (IF clip # NoClip THEN "write" ELSE IF pending THEN "start" ELSE "recv")
        /\ UNCHANGED <<disk, pending, snapshot, clip, clips>>
    BY DEF RecvUnit, Decoded, Arrives
  <1>2. units \in 0 .. MaxUnits /\ cut \in BOOLEAN /\ synced \in BOOLEAN
    BY <1>0 DEF TypeOK
  <1>3. units + 1 \in 1 .. MaxUnits /\ units' \in 0 .. MaxUnits
    BY <1>1, <1>2, ClipAssumption
  <1>4. NewUnit(p) \in Unit /\ NewUnit(p).n = units + 1 /\ NewUnit(p).cut = cut
        /\ NewUnit(p).idr = ("idr" \in Gathered(p))
        /\ NewUnit(p).ps = (~synced \/ ParamSets \subseteq Gathered(p))
    BY <1>2, <1>3 DEF NewUnit, Unit
  <1>5. NewUnit(p).cut => NewUnit(p).idr /\ NewUnit(p).ps
    <2> SUFFICES ASSUME cut PROVE "idr" \in Gathered(p) /\ ~synced
      BY <1>4
    <2>1. ~synced
      BY <1>0 DEF ResyncInv
    <2> QED BY <1>1, <2>1 DEF Syncs
  <1> QED BY <1>1, <1>3, <1>4, <1>5 DEF UnitFacts

\* What prune_ring leaves.
LEMMA PrunedKeeps ==
    ASSUME NEW q \in Seq(Unit), q # <<>>, NEW r \in Pruned(q)
    PROVE  /\ r \in Seq(Unit)
           /\ Good(q) => Good(r)
           /\ Chain(q) => Chain(r)
           /\ \A n : EndsAt(q, n) => EndsAt(r, n)
           /\ RingSecs # 0 => r # <<>>
  <1>1. Len(q) \in Nat
    BY LenProperties
  <1>2. PICK i \in 1 .. (IF RingSecs = 0 THEN Len(q) + 1 ELSE Len(q)) : r = SubSeq(q, i, Len(q))
    BY DEF Pruned
  <1>3. i \in 1 .. Len(q) + 1 /\ (RingSecs # 0 => i <= Len(q))
    BY <1>1
  <1> QED BY <1>2, <1>3, SuffixKeeps

LEMMA UnitDecode ==
    ASSUME DecodeInv, NEW p \in Packets, NEW inOrder \in BOOLEAN, RecvUnit(p, inOrder)
    PROVE  DecodeInv'
  <1>0. TypeOK /\ ResyncInv /\ PhaseInv
    BY DEF DecodeInv
  <1>1. PICK u \in Unit : UnitFacts(p, u)
    BY UnitIs
  <1>2. /\ pc = "recv"
        /\ u.cut => u.idr /\ u.ps
        /\ ring' \in Pruned(Append(ring, u))
        /\ units' \in 0 .. MaxUnits
        /\ pc' = (IF clip # NoClip THEN "write" ELSE IF pending THEN "start" ELSE "recv")
        /\ UNCHANGED <<parts, published, media, sidecars, pending, snapshot, clip, clips>>
    BY <1>1 DEF UnitFacts, disk
  <1>3. ring' \in Seq(Unit) /\ Good(ring')
    <2>1. ring \in Seq(Unit) /\ Good(ring)
      BY <1>0 DEF TypeOK, ResyncInv
    <2>2. Append(ring, u) \in Seq(Unit) /\ Append(ring, u) # <<>> /\ Good(Append(ring, u))
      BY <1>2, <2>1, ConcatKeeps
    <2> QED BY <1>2, <2>2, PrunedKeeps
  <1>4. /\ fu' \in FuState /\ expected' = TRUE /\ synced' = TRUE /\ params' \subseteq ParamSets
        /\ au' = {} /\ lost' = FALSE /\ cut' = FALSE
    <2>1. FuAfter(fu, p.payload) \in FuState
      BY <1>0, PacketType DEF RecvUnit, Decoded
    <2>2. Cached(p) \subseteq ParamSets
      BY <1>0 DEF Cached, TypeOK
    <2> QED BY <2>1, <2>2 DEF RecvUnit, Decoded, Arrives
  <1>5. TypeOK'
    BY <1>0, <1>2, <1>3, <1>4 DEF TypeOK
  <1>6. ResyncInv'
    BY <1>0, <1>2, <1>3, <1>4 DEF ResyncInv
  <1>7. PhaseInv'
    BY <1>0, <1>2 DEF PhaseInv
  <1> QED BY <1>5, <1>6, <1>7 DEF DecodeInv

\* A write puts the newest access unit behind what is kept of the clip.
LEMMA WrittenKeeps ==
    ASSUME DecodeInv, NEW before \in Seq(Unit), Good(before), NEW again \in BOOLEAN,
           NEW whole \in BOOLEAN, Written(before, again, whole)
    PROVE  /\ DecodeInv'
           /\ clip' # NoClip
           /\ clip'.content.whole = whole
           /\ clip'.content.units = before \o Newest \o (IF again THEN Newest ELSE <<>>)
  <1>0. TypeOK /\ ResyncInv /\ PhaseInv
    BY DEF DecodeInv
  <1> DEFINE new == before \o Newest \o (IF again THEN Newest ELSE <<>>)
  <1>1. /\ pc = "write" /\ pc' = "recv"
        /\ clip' = [clip EXCEPT !.content = [units |-> new, whole |-> whole]]
        /\ UNCHANGED <<parts, published, media, sidecars, fu, expected, synced, params, au, ring, pending,
                       snapshot, units, clips, lost, cut>>
    BY DEF Written, disk, decode, truth
  <1>2. ring \in Seq(Unit) /\ Good(ring)
    BY <1>0 DEF TypeOK, ResyncInv
  <1>3. new \in Seq(Unit) /\ Good(new)
    <2>1. CASE ring = <<>>
      <3>1. Newest = <<>> /\ new = before \o <<>> \o <<>>
        BY <2>1 DEF Newest
      <3>2. before \o <<>> = before
        BY ConcatEmptySeq
      <3> QED BY <3>1, <3>2
    <2>2. CASE ring # <<>>
      <3> DEFINE u == ring[Len(ring)]
      <3>1. Len(ring) \in 1 .. Len(ring)
        BY <1>2, <2>2, EmptySeq, LenProperties
      <3>2. u \in Unit /\ (u.cut => u.idr /\ u.ps) /\ Newest = <<u>>
        BY <1>2, <2>2, <3>1, ElementOfSeq DEF Good, Newest
      <3> HIDE DEF u
      <3>3. before \o <<u>> \in Seq(Unit) /\ Good(before \o <<u>>)
        BY <3>2, ConcatKeeps
      <3>4. before \o <<u>> \o <<u>> \in Seq(Unit) /\ Good(before \o <<u>> \o <<u>>)
        BY <3>2, <3>3, ConcatKeeps
      <3>5. before \o <<u>> \o <<>> = before \o <<u>>
        BY <3>3, ConcatEmptySeq
      <3> QED BY <3>2, <3>3, <3>4, <3>5
    <2> QED BY <2>1, <2>2
  <1>4. clip # NoClip /\ clip \in [id : Clips, content : Content]
    BY <1>0, <1>1 DEF PhaseInv, TypeOK
  <1> HIDE DEF new
  <1>5. /\ clip' \in [id : Clips, content : Content] /\ clip'.id = clip.id
        /\ clip'.content.units = new /\ clip'.content.whole = whole
    BY <1>1, <1>3, <1>4 DEF Content
  <1>6. clip' # NoClip
    BY <1>4, <1>5 DEF NoClip, Clips
  <1>7. TypeOK'
    BY <1>0, <1>1, <1>5 DEF TypeOK
  <1>8. ResyncInv'
    BY <1>0, <1>1, <1>3, <1>5 DEF ResyncInv
  <1>9. PhaseInv'
    BY <1>0, <1>1, <1>4 DEF PhaseInv
  <1> QED BY <1>5, <1>6, <1>7, <1>8, <1>9 DEF DecodeInv, new

\* The clip that try_start_clip opens.
LEMMA StartClipIs ==
    ASSUME DecodeInv, StartClip
    PROVE  /\ DecodeInv'
           /\ pc = "start" /\ pc' = "write" /\ pending /\ pending' = FALSE /\ snapshot' = <<>>
           /\ clip' # NoClip
           /\ clip'.content.units = Preroll
           /\ UNCHANGED <<published, media, ring, units>>
  <1>0. TypeOK /\ ResyncInv /\ PhaseInv
    BY DEF DecodeInv
  <1>1. /\ pc = "start" /\ pc' = "write" /\ pending' = FALSE /\ snapshot' = <<>>
        /\ clips < MaxClips /\ clips' = clips + 1 /\ parts' = parts \cup {clips + 1}
        /\ clip' = [id |-> clips + 1, content |-> [units |-> Preroll, whole |-> TRUE]]
        /\ UNCHANGED <<published, media, sidecars, fu, expected, synced, params, au, ring, units, lost, cut>>
    BY DEF StartClip, decode
  <1>2. Preroll \in Seq(Unit) /\ Good(Preroll)
    BY <1>0, PrerollKeeps DEF TypeOK, ResyncInv
  <1>3. clips + 1 \in Clips /\ clips' \in 0 .. MaxClips
    <2>1. clips \in 0 .. MaxClips
      BY <1>0 DEF TypeOK
    <2> QED BY <1>1, <2>1, ClipAssumption DEF Clips
  <1>4. /\ clip' \in [id : Clips, content : Content] /\ clip' # NoClip
        /\ clip'.content.units = Preroll
    BY <1>1, <1>2, <1>3 DEF Content, NoClip, Clips
  <1>5. TypeOK'
    BY <1>0, <1>1, <1>3, <1>4, EmptyUnits DEF TypeOK
  <1>6. ResyncInv'
    BY <1>0, <1>1, <1>2, <1>4, EmptyUnits DEF ResyncInv
  <1>7. PhaseInv' /\ pending
    BY <1>0, <1>1, <1>4 DEF PhaseInv
  <1> QED BY <1>1, <1>4, <1>5, <1>6, <1>7 DEF DecodeInv

\* finalize_clip publishes the clip as it is.
LEMMA FinalizeDecode ==
    ASSUME DecodeInv, Finalize
    PROVE  /\ DecodeInv'
           /\ clip # NoClip /\ clip.id \in Clips
           /\ published' = published \cup {clip.id}
           /\ \A k \in Clips : media'[k] = IF k = clip.id THEN clip.content ELSE media[k]
  <1>0. TypeOK /\ ResyncInv /\ PhaseInv
    BY DEF DecodeInv
  <1>1. /\ pc = "recv" /\ pc' = "sidecar" /\ clip # NoClip
        /\ parts' = parts \ {clip.id} /\ published' = published \cup {clip.id}
        /\ media' = [media EXCEPT ![clip.id] = clip.content]
        /\ UNCHANGED <<sidecars, fu, expected, synced, params, au, ring, pending, snapshot, clip, units, clips,
                       lost, cut>>
    BY DEF Finalize, decode, truth
  <1>2. clip.id \in Clips /\ clip.content \in Content
    BY <1>0, <1>1 DEF TypeOK
  <1>3. /\ media' \in [Clips -> Content]
        /\ \A k \in Clips : media'[k] = IF k = clip.id THEN clip.content ELSE media[k]
    BY <1>0, <1>1, <1>2 DEF TypeOK
  <1>4. TypeOK'
    BY <1>0, <1>1, <1>2, <1>3 DEF TypeOK
  <1>5. ResyncInv'
    BY <1>0, <1>1, <1>3 DEF ResyncInv
  <1>6. PhaseInv'
    BY <1>0, <1>1 DEF PhaseInv
  <1> QED BY <1>1, <1>2, <1>3, <1>4, <1>5, <1>6 DEF DecodeInv

\* The steps that only take a snapshot, or forget a clip or everything.
LEMMA OtherDecode ==
    ASSUME DecodeInv, RecvMotion \/ WriteFails \/ WriteSidecar \/ Start \/ Die
    PROVE  DecodeInv'
  <1>0. TypeOK /\ ResyncInv /\ PhaseInv
    BY DEF DecodeInv
  <1> USE DEF disk, decode, truth
  <1>1. CASE RecvMotion
    <2>1. /\ pc = "recv" /\ clip = NoClip /\ pending' = TRUE /\ snapshot' = ring
          /\ UNCHANGED <<disk, pc, decode, ring, clip, truth>>
      BY <1>1 DEF RecvMotion
    <2>2. TypeOK'
      BY <1>0, <2>1 DEF TypeOK
    <2>3. ResyncInv' /\ PhaseInv'
      BY <1>0, <2>1 DEF ResyncInv, PhaseInv
    <2> QED BY <2>2, <2>3 DEF DecodeInv
  <1>2. CASE WriteFails \/ WriteSidecar
    <2>1. /\ pc \in {"write", "sidecar"} /\ pc' = "recv" /\ clip' = NoClip
          /\ UNCHANGED <<published, media, decode, ring, pending, snapshot, truth>>
      BY <1>2 DEF WriteFails, WriteSidecar
    <2>2. clip.id \in Clips
      BY <1>0, <2>1 DEF PhaseInv, TypeOK
    <2>3. parts' \subseteq Clips /\ sidecars' \subseteq Clips
      BY <1>0, <1>2, <2>2 DEF WriteFails, WriteSidecar, TypeOK
    <2>4. TypeOK'
      BY <1>0, <2>1, <2>3 DEF TypeOK
    <2>5. ResyncInv'
      BY <1>0, <2>1, EmptyUnits DEF ResyncInv, NoClip, NoContent
    <2>6. PhaseInv'
      BY <2>1 DEF PhaseInv
    <2> QED BY <2>4, <2>5, <2>6 DEF DecodeInv
  <1>3. CASE Start
    <2>1. /\ pc' = "recv" /\ parts' \subseteq parts
          /\ UNCHANGED <<published, media, sidecars, decode, ring, pending, snapshot, clip, truth>>
      BY <1>3 DEF Start
    <2>2. TypeOK'
      BY <1>0, <2>1 DEF TypeOK
    <2>3. ResyncInv' /\ PhaseInv'
      BY <1>0, <2>1 DEF ResyncInv, PhaseInv
    <2> QED BY <2>2, <2>3 DEF DecodeInv
  <1>4. CASE Die
    <2>1. /\ pc' = "down" /\ UNCHANGED <<disk, units, clips>>
          /\ fu' = "none" /\ expected' = FALSE /\ synced' = FALSE /\ params' = {} /\ au' = {}
          /\ ring' = <<>> /\ pending' = FALSE /\ snapshot' = <<>> /\ clip' = NoClip
          /\ lost' = TRUE /\ cut' = TRUE
      BY <1>4 DEF Die, Fresh
    <2>2. TypeOK'
      BY <1>0, <2>1, EmptyUnits DEF TypeOK, FuState
    <2>3. ResyncInv'
      BY <1>0, <2>1, EmptyUnits DEF ResyncInv, NoClip, NoContent
    <2>4. PhaseInv'
      BY <2>1 DEF PhaseInv
    <2> QED BY <2>2, <2>3, <2>4 DEF DecodeInv
  <1> QED BY <1>1, <1>2, <1>3, <1>4

\* The contents of the clip that is written.
LEMMA ClipUnits ==
    ASSUME DecodeInv
    PROVE  /\ clip.content.units \in Seq(Unit) /\ clip.content.whole \in BOOLEAN
           /\ Good(clip.content.units)
  <1>1. NoContent \in Content
    BY EmptyUnits DEF NoContent, Content
  <1>2. clip.content \in Content
    BY <1>1 DEF DecodeInv, TypeOK, NoClip
  <1> QED BY <1>2 DEF DecodeInv, ResyncInv, Content

\* Every step preserves it.
LEMMA DecodeStep == DecodeInv /\ [Next]_vars => DecodeInv'
  <1> SUFFICES ASSUME DecodeInv, [Next]_vars PROVE DecodeInv'
    OBVIOUS
  <1>1. CASE Receiving
    BY <1>1, QuietMessage, UnitDecode, OtherDecode DEF Receiving
  <1>2. CASE Writing
    <2>1. ASSUME NEW timedOut \in BOOLEAN, WriteUnit(timedOut) PROVE DecodeInv'
      BY <2>1, ClipUnits, WrittenKeeps DEF WriteUnit
    <2>2. CASE WriteUnitAfterError
      <3> DEFINE old == clip.content.units
      <3>0. PICK i \in 1 .. Len(old) : \E j \in i .. Len(old) :
                Written(SubSeq(old, 1, i - 1) \o SubSeq(old, j + 1, Len(old)), TRUE, FALSE)
        BY <2>2 DEF WriteUnitAfterError
      <3>1. PICK j \in i .. Len(old) :
                Written(SubSeq(old, 1, i - 1) \o SubSeq(old, j + 1, Len(old)), TRUE, FALSE)
        BY <3>0
      <3>2. old \in Seq(Unit) /\ Good(old)
        BY ClipUnits
      <3> HIDE DEF old
      <3>3. /\ SubSeq(old, 1, i - 1) \o SubSeq(old, j + 1, Len(old)) \in Seq(Unit)
            /\ Good(SubSeq(old, 1, i - 1) \o SubSeq(old, j + 1, Len(old)))
        BY <3>2, CutOutKeeps
      <3> QED BY <3>1, <3>3, WrittenKeeps
    <2> QED BY <1>2, <2>1, <2>2, StartClipIs, OtherDecode DEF Writing
  <1>3. CASE UNCHANGED vars
    <2>1. UNCHANGED <<disk, pc, decode, ring, pending, snapshot, clip, truth>>
      BY <1>3 DEF vars
    <2>2. TypeOK'
      BY <2>1 DEF DecodeInv, TypeOK, disk, decode, truth
    <2>3. ResyncInv' /\ PhaseInv'
      BY <2>1 DEF DecodeInv, ResyncInv, PhaseInv, disk, decode, truth
    <2> QED BY <2>2, <2>3 DEF DecodeInv
  <1> QED BY <1>1, <1>2, <1>3, FinalizeDecode, OtherDecode DEF Next

\* In every reachable state all the pipeline keeps and has published is typed and
\* can be decoded behind every loss.
THEOREM DecodeInvariance == Spec => []DecodeInv
  BY DecodeInit, DecodeStep, PTL DEF Spec

\* ClipResyncs, for any packets, losses, failing writes and crashes, and any
\* length of the ring.
THEOREM ClipsAlwaysResync == Spec => []ClipResyncs
  <1>1. DecodeInv => ClipResyncs
    <2> SUFFICES ASSUME DecodeInv, NEW k \in published, NEW i \in 2 .. Len(media[k].units),
                        media[k].units[i].cut
                 PROVE  media[k].units[i].idr /\ media[k].units[i].ps
      BY DEF ClipResyncs
    <2>1. k \in Clips
      BY DEF DecodeInv, TypeOK
    <2>2. Good(media[k].units) /\ media[k].units \in Seq(Unit)
      BY <2>1 DEF DecodeInv, ResyncInv, TypeOK, Content
    <2>3. i \in 1 .. Len(media[k].units)
      BY <2>2, LenProperties
    <2> QED BY <2>2, <2>3 DEF Good
  <1> QED BY <1>1, DecodeInvariance, PTL
-----------------------------------------------------------------------------
(***************************************************************************)
(* Clips without holes, with a ring that keeps the newest access unit.     *)
(***************************************************************************)
LEMMA HoldInit == Init => HoldInv
  <1> SUFFICES ASSUME Init PROVE HoldInv
    OBVIOUS
  <1>1. RingInv /\ SnapshotInv
    BY EmptyUnits DEF Init, RingInv, SnapshotInv
  <1>2. ClipInv /\ ClipContiguous
    BY DEF Init, ClipInv, ClipContiguous
  <1> QED BY <1>1, <1>2 DEF HoldInv

\* Nothing changes but the place in the loop, and not whether a unit waits there.
LEMMA HoldFrame ==
    ASSUME HoldInv, UNCHANGED <<published, media, ring, pending, snapshot, clip, units>>,
           pc' = pc \/ (pc \notin {"start", "write"} /\ pc' \notin {"start", "write"})
    PROVE  HoldInv'
  <1>1. RingInv' /\ SnapshotInv'
    BY DEF HoldInv, RingInv, SnapshotInv
  <1>2. ClipInv' /\ ClipContiguous'
    BY DEF HoldInv, ClipInv, ClipContiguous
  <1> QED BY <1>1, <1>2 DEF HoldInv

LEMMA UnitHold ==
    ASSUME DecodeInv, HoldInv, RingSecs # 0, NEW p \in Packets, NEW inOrder \in BOOLEAN,
           RecvUnit(p, inOrder)
    PROVE  HoldInv'
  <1>0. TypeOK /\ PhaseInv /\ RingInv /\ SnapshotInv /\ ClipInv /\ ClipContiguous
    BY DEF DecodeInv, HoldInv
  <1>1. PICK u \in Unit : UnitFacts(p, u)
    BY UnitIs
  <1>2. /\ pc = "recv" /\ u.n = units + 1 /\ units' = units + 1
        /\ ring' \in Pruned(Append(ring, u))
        /\ pc' = (IF clip # NoClip THEN "write" ELSE IF pending THEN "start" ELSE "recv")
        /\ UNCHANGED <<published, media, pending, snapshot, clip>>
    BY <1>1 DEF UnitFacts, disk
  <1>3. units \in Int /\ u.n - 1 = units /\ units' - 1 = units
    BY <1>0, <1>2 DEF TypeOK
  <1>4. RingInv'
    <2>1. ring \in Seq(Unit) /\ Chain(ring) /\ EndsAt(ring, u.n - 1)
      BY <1>0, <1>3 DEF TypeOK, RingInv
    <2>2. /\ Append(ring, u) \in Seq(Unit) /\ Append(ring, u) # <<>>
          /\ Chain(Append(ring, u)) /\ EndsAt(Append(ring, u), u.n)
      BY <2>1, ConcatKeeps
    <2>3. Chain(ring') /\ EndsAt(ring', u.n) /\ ring' # <<>>
      BY <1>2, <2>2, PrunedKeeps
    <2> QED BY <1>2, <2>3 DEF RingInv
  <1>5. SnapshotInv'
    <2>1. pending => pc' = "start"
      BY <1>0, <1>2 DEF PhaseInv
    <2>2. Chain(snapshot) /\ (pending => EndsAt(snapshot, units))
      BY <1>0, <1>2 DEF SnapshotInv
    <2> QED BY <1>2, <1>3, <2>1, <2>2 DEF SnapshotInv
  <1>6. ClipInv'
    <2>1. clip # NoClip => pc' = "write"
      BY <1>2
    <2>2. clip # NoClip /\ clip.content.whole =>
             Chain(clip.content.units) /\ EndsAt(clip.content.units, units)
      BY <1>0, <1>2 DEF ClipInv
    <2> QED BY <1>2, <1>3, <2>1, <2>2 DEF ClipInv
  <1>7. ClipContiguous'
    BY <1>0, <1>2 DEF ClipContiguous
  <1> QED BY <1>4, <1>5, <1>6, <1>7 DEF HoldInv

LEMMA WriteHold ==
    ASSUME DecodeInv, HoldInv, NEW timedOut \in BOOLEAN, WriteUnit(timedOut)
    PROVE  HoldInv'
  <1>0. TypeOK /\ PhaseInv /\ RingInv /\ SnapshotInv /\ ClipInv /\ ClipContiguous
    BY DEF DecodeInv, HoldInv
  <1> DEFINE old == clip.content.units
             u   == ring[Len(ring)]
  <1>1. /\ pc = "write" /\ pc' = "recv"
        /\ UNCHANGED <<published, media, ring, pending, snapshot, units>>
    BY DEF WriteUnit, Written, disk, truth
  <1>2. old \in Seq(Unit) /\ clip.content.whole \in BOOLEAN /\ Good(old)
    BY ClipUnits
  <1>3. /\ clip'.content.whole = clip.content.whole
        /\ clip'.content.units = old \o Newest \o (IF timedOut THEN Newest ELSE <<>>)
    BY <1>2, WrittenKeeps DEF WriteUnit
  <1>4. ring # <<>> /\ ring \in Seq(Unit) /\ EndsAt(ring, units)
    BY <1>0, <1>1 DEF RingInv, TypeOK
  <1>5. u \in Unit /\ u.n = units /\ Newest = <<u>>
    <2>1. Len(ring) \in 1 .. Len(ring)
      BY <1>4, EmptySeq, LenProperties
    <2> QED BY <1>4, <2>1, ElementOfSeq DEF EndsAt, Newest
  <1>6. RingInv' /\ SnapshotInv' /\ ClipContiguous'
    BY <1>0, <1>1 DEF RingInv, SnapshotInv, ClipContiguous, PhaseInv
  <1> HIDE DEF u
  <1>7. ASSUME clip.content.whole
        PROVE  /\ Chain(clip'.content.units) /\ EndsAt(clip'.content.units, units)
               /\ clip'.content.units # <<>>
    <2>1. Chain(old) /\ EndsAt(old, u.n - 1)
      BY <1>0, <1>1, <1>5, <1>7 DEF ClipInv, PhaseInv
    <2> HIDE DEF old
    <2> DEFINE one == old \o <<u>>
    <2>2. one \in Seq(Unit) /\ one # <<>> /\ Chain(one) /\ EndsAt(one, u.n)
      BY <1>2, <1>5, <2>1, ConcatKeeps
    <2>3. clip'.content.units = one \o (IF timedOut THEN <<u>> ELSE <<>>)
      BY <1>3, <1>5
    <2> HIDE DEF one
    <2>4. CASE timedOut
      <3>1. one \o <<u>> # <<>> /\ Chain(one \o <<u>>) /\ EndsAt(one \o <<u>>, u.n)
        BY <1>5, <2>2, ConcatKeeps
      <3> QED BY <1>5, <2>3, <2>4, <3>1
    <2>5. CASE ~timedOut
      <3>1. clip'.content.units = one
        BY <2>2, <2>3, <2>5, ConcatEmptySeq
      <3> QED BY <1>5, <2>2, <3>1
    <2> QED BY <2>4, <2>5
  <1>8. ClipInv'
    BY <1>1, <1>3, <1>7 DEF ClipInv
  <1> QED BY <1>6, <1>8 DEF HoldInv

\* Every step preserves it.
LEMMA HoldStep ==
    ASSUME RingSecs # 0, DecodeInv, HoldInv, [Next]_vars
    PROVE  HoldInv'
  <1>0. TypeOK /\ PhaseInv /\ RingInv /\ SnapshotInv /\ ClipInv /\ ClipContiguous
    BY DEF DecodeInv, HoldInv
  <1>1. CASE Receiving
    <2>1. CASE RecvMotion
      <3>1. /\ pc = "recv" /\ snapshot' = ring /\ clip = NoClip
            /\ UNCHANGED <<published, media, pc, ring, clip, units>>
        BY <2>1 DEF RecvMotion, disk, truth
      <3>2. RingInv' /\ SnapshotInv'
        BY <1>0, <3>1 DEF RingInv, SnapshotInv
      <3>3. ClipInv' /\ ClipContiguous'
        BY <1>0, <3>1 DEF ClipInv, ClipContiguous
      <3> QED BY <3>2, <3>3 DEF HoldInv
    <2>2. CASE \/ RecvGap \/ RecvUnparsable \/ RecvMismatch
               \/ \E p \in Packets, inOrder \in BOOLEAN :
                     RecvUndecodable(p, inOrder) \/ RecvPart(p, inOrder) \/ RecvUnitUnsynced(p, inOrder)
      <3>1. UNCHANGED <<disk, pc, ring, pending, snapshot, clip, units, clips>>
        BY <2>2, QuietMessage
      <3> QED BY <3>1, HoldFrame DEF disk
    <2> QED BY <1>1, <2>1, <2>2, UnitHold DEF Receiving
  <1>2. CASE StartClip
    <2>1. /\ pc = "start" /\ pc' = "write" /\ pending /\ pending' = FALSE /\ snapshot' = <<>>
          /\ clip'.content.units = Preroll
          /\ UNCHANGED <<published, media, ring, units>>
      BY <1>2, StartClipIs
    <2>2. Chain(Preroll) /\ EndsAt(Preroll, units - 1)
      <3>1. snapshot \in Seq(Unit) /\ Chain(snapshot) /\ EndsAt(snapshot, units - 1)
        BY <1>0, <2>1 DEF TypeOK, SnapshotInv
      <3> QED BY <3>1, PrerollKeeps
    <2>3. RingInv' /\ SnapshotInv'
      BY <1>0, <2>1, EmptyUnits DEF RingInv, SnapshotInv
    <2>4. ClipInv' /\ ClipContiguous'
      BY <1>0, <2>1, <2>2 DEF ClipInv, ClipContiguous
    <2> QED BY <2>3, <2>4 DEF HoldInv
  <1>3. CASE WriteUnitAfterError
    <2> DEFINE old == clip.content.units
    <2>1. PICK i \in 1 .. Len(old) : \E j \in i .. Len(old) :
              Written(SubSeq(old, 1, i - 1) \o SubSeq(old, j + 1, Len(old)), TRUE, FALSE)
      BY <1>3 DEF WriteUnitAfterError
    <2>2. PICK j \in i .. Len(old) :
              Written(SubSeq(old, 1, i - 1) \o SubSeq(old, j + 1, Len(old)), TRUE, FALSE)
      BY <2>1
    <2>3. old \in Seq(Unit) /\ Good(old)
      BY ClipUnits
    <2> HIDE DEF old
    <2>4. ~clip'.content.whole
      BY <2>2, <2>3, CutOutKeeps, WrittenKeeps
    <2>5. pc = "write" /\ pc' = "recv" /\ UNCHANGED <<published, media, ring, pending, snapshot, units>>
      BY <2>2 DEF Written, disk, truth
    <2>6. RingInv' /\ SnapshotInv'
      BY <1>0, <2>5 DEF RingInv, SnapshotInv
    <2>7. ClipInv' /\ ClipContiguous'
      BY <1>0, <2>4, <2>5 DEF ClipInv, ClipContiguous
    <2> QED BY <2>6, <2>7 DEF HoldInv
  <1>4. CASE WriteFails \/ WriteSidecar
    <2>1. /\ pc \in {"write", "sidecar"} /\ pc' = "recv" /\ clip' = NoClip
          /\ UNCHANGED <<published, media, ring, pending, snapshot, units>>
      BY <1>4 DEF WriteFails, WriteSidecar, truth
    <2>2. RingInv' /\ SnapshotInv'
      BY <1>0, <2>1 DEF RingInv, SnapshotInv
    <2>3. ClipInv' /\ ClipContiguous'
      BY <1>0, <2>1 DEF ClipInv, ClipContiguous
    <2> QED BY <2>2, <2>3 DEF HoldInv
  <1>5. CASE Finalize
    <2>1. /\ pc = "recv" /\ pc' = "sidecar" /\ UNCHANGED <<ring, pending, snapshot, clip, units>>
      BY <1>5 DEF Finalize, truth
    <2>2. /\ clip # NoClip /\ clip.id \in Clips
          /\ published' = published \cup {clip.id}
          /\ \A k \in Clips : media'[k] = IF k = clip.id THEN clip.content ELSE media[k]
      BY <1>5, FinalizeDecode
    <2>3. RingInv' /\ SnapshotInv' /\ ClipInv'
      BY <1>0, <2>1 DEF RingInv, SnapshotInv, ClipInv
    <2>4. ClipContiguous'
      <3> SUFFICES ASSUME NEW k \in published', media'[k].whole
                   PROVE  media'[k].units # <<>> /\ Chain(media'[k].units)
        BY DEF ClipContiguous, Chain
      <3>1. k \in Clips
        BY <1>0, <2>2 DEF TypeOK
      <3>2. CASE k = clip.id
        <4>1. media'[k] = clip.content
          BY <2>2, <3>1, <3>2
        <4>2. clip.content.whole
          BY <4>1
        <4>3. Chain(clip.content.units) /\ clip.content.units # <<>>
          BY <1>0, <2>1, <2>2, <4>2 DEF ClipInv
        <4> QED BY <4>1, <4>3
      <3>3. CASE k # clip.id
        <4>1. media'[k] = media[k] /\ k \in published
          BY <2>2, <3>1, <3>3
        <4> QED BY <1>0, <4>1 DEF ClipContiguous, Chain
      <3> QED BY <3>2, <3>3
    <2> QED BY <2>3, <2>4 DEF HoldInv
  <1>6. CASE Start
    BY <1>6, HoldFrame DEF Start, truth
  <1>7. CASE Die
    <2>1. /\ pc' = "down" /\ UNCHANGED <<published, media, units>>
          /\ ring' = <<>> /\ pending' = FALSE /\ snapshot' = <<>> /\ clip' = NoClip
      BY <1>7 DEF Die, Fresh, disk
    <2>2. RingInv' /\ SnapshotInv'
      BY <2>1, EmptyUnits DEF RingInv, SnapshotInv
    <2>3. ClipInv' /\ ClipContiguous'
      BY <1>0, <2>1 DEF ClipInv, ClipContiguous
    <2> QED BY <2>2, <2>3 DEF HoldInv
  <1>8. CASE UNCHANGED vars
    BY <1>8, HoldFrame DEF vars, disk, truth
  <1> QED BY <1>1, <1>2, <1>3, <1>4, <1>5, <1>6, <1>7, <1>8, WriteHold DEF Next, Writing

\* ClipContiguous, for any packets, losses, failing writes and crashes.  The ring
\* must keep something: with CLIP_RING_SECS = 0 the access unit to be written may
\* be pruned before it is written.
THEOREM ClipsAlwaysContiguous ==
    ASSUME RingSecs # 0
    PROVE  Spec => []ClipContiguous
  <1>1. DecodeInv /\ HoldInv /\ [Next]_vars => HoldInv'
    BY HoldStep
  <1>2. HoldInv => ClipContiguous
    BY DEF HoldInv
  <1> QED BY <1>1, <1>2, HoldInit, DecodeInvariance, PTL DEF Spec
=============================================================================
