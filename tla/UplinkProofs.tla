---------------------------- MODULE UplinkProofs ----------------------------
(***************************************************************************)
(* Whatever the connection goes through, the uplink writes the messages of *)
(* each kind in the order it was given them and none of them twice, and it *)
(* loses a motion message only with the connection it was given to: for    *)
(* queues of any capacity and any number of messages.                      *)
(***************************************************************************)
EXTENDS Uplink, SequenceTheorems, TLAPS

Kinds == {"media", "motion"}

\* The message in hand is one only while it is written.
HandInv == pc # "write" => hand = Idle

\* A queue holds messages in the order of their numbers, each of them younger
\* than the one in hand, which is younger than all that were written.
KindInv(kind, q) ==
    /\ \A i, j \in 1 .. Len(q) : i < j => q[i] < q[j]
    /\ \A i \in 1 .. Len(q) : q[i] <= made[kind]
    /\ hand.kind = kind => /\ hand.n <= made[kind]
                           /\ \A i \in 1 .. Len(q) : hand.n < q[i]
    /\ \A j \in 1 .. Len(sent) :
         sent[j].kind = kind => /\ sent[j].n <= made[kind]
                                /\ \A i \in 1 .. Len(q) : sent[j].n < q[i]
                                /\ hand.kind = kind => sent[j].n < hand.n

MediaInv  == KindInv("media", media)
MotionInv == KindInv("motion", motion)

OrderInv == HandInv /\ MediaInv /\ MotionInv /\ SentInOrder

UplinkInv == TypeOK /\ OrderInv /\ MotionAccounted
-----------------------------------------------------------------------------
\* The initial state has empty queues and nothing written.
LEMMA UplinkInit == Init => UplinkInv
  <1> SUFFICES ASSUME Init PROVE UplinkInv
    OBVIOUS
  <1> USE UplinkAssumption DEF Init
  <1>1. Len(media) = 0 /\ Len(motion) = 0 /\ Len(sent) = 0
    OBVIOUS
  <1>2. TypeOK
    <2>1. Idle \in [kind : {"none", "media", "motion", "ping", "echo"}, n : Nat]
      BY DEF Idle, Message
    <2>2. /\ media \in Seq(1 .. MaxMedia) /\ motion \in Seq(1 .. MaxMotion)
          /\ sent \in Seq([kind : {"media", "motion"}, n : Nat])
      BY EmptySeq
    <2>4. Len(media) <= MediaCap /\ backoff \in 1 .. BackoffMax
      BY <1>1
    <2>3. made \in [media : 0 .. MaxMedia, motion : 0 .. MaxMotion]
      OBVIOUS
    <2> QED BY <2>1, <2>2, <2>3, <2>4 DEF TypeOK, PCs
  <1>3. OrderInv
    BY <1>1 DEF OrderInv, HandInv, MediaInv, MotionInv, KindInv, SentInOrder, Idle, Message
  <1>4. MotionAccounted
    <2>1. made.motion = 0 /\ Waiting = {} /\ InHand = {}
      BY <1>1 DEF Waiting, InHand, Idle, Message
    <2> QED BY <2>1 DEF MotionAccounted
  <1> QED BY <1>2, <1>3, <1>4 DEF UplinkInv

\* Steps that only drop the message in hand or the media queue keep every queue
\* behind what was written.
LEMMA OrderKept ==
    ASSUME TypeOK, OrderInv,
           media' = media \/ media' = <<>>,
           hand' = hand \/ hand'.kind \notin Kinds,
           HandInv',
           UNCHANGED <<motion, sent, made>>
    PROVE  OrderInv'
  <1> USE DEF OrderInv, Kinds
  <1>1. MotionInv'
    BY DEF MotionInv, KindInv
  <1>2. MediaInv'
    <2>1. CASE media' = media
      BY <2>1 DEF MediaInv, KindInv
    <2>2. CASE media' = <<>>
      BY <2>2 DEF MediaInv, KindInv
    <2> QED BY <2>1, <2>2
  <1>3. SentInOrder'
    BY DEF SentInOrder
  <1> QED BY <1>1, <1>2, <1>3

\* Steps that touch neither the motion queue nor a motion message in hand
\* account for the same messages as before.
LEMMA AccountedKept ==
    ASSUME MotionAccounted, pc # "done",
           (IF hand'.kind = "motion" THEN {hand'.n} ELSE {})
              = (IF hand.kind = "motion" THEN {hand.n} ELSE {}),
           pc' \notin {"session", "write"} => pc \notin {"session", "write"},
           UNCHANGED <<motion, unread, received, lost, refused>>,
           made'.motion = made.motion
    PROVE  MotionAccounted'
  BY DEF MotionAccounted, Waiting, InHand

\* A motion message in hand is one of those that were handed over.
LEMMA InHandType == ASSUME UplinkInv, pc # "done" PROVE InHand \subseteq 1 .. MaxMotion
  <1>1. InHand \subseteq 1 .. made.motion
    BY DEF UplinkInv, MotionAccounted
  <1>2. made.motion \in Nat /\ made.motion <= MaxMotion
    BY UplinkAssumption DEF UplinkInv, TypeOK
  <1>3. 1 .. made.motion \subseteq 1 .. MaxMotion
    BY <1>2, UplinkAssumption
  <1> QED BY <1>1, <1>3

-----------------------------------------------------------------------------
\* What the connection task leaves behind: the messages that go with the
\* connection, nothing else changed.
LEMMA LeaveKeeps ==
    ASSUME UplinkInv, NEW to \in PCs \ {"write"}, Leave(to), pc # "done",
           media' = media \/ media' = <<>>,
           backoff' \in 1 .. BackoffMax,
           UNCHANGED <<stop, motion, sets, server, rest>>
    PROVE  UplinkInv'
  <1>0. TypeOK /\ OrderInv /\ MotionAccounted
    BY DEF UplinkInv
  <1>1. hand' = Idle /\ Idle.kind = "none" /\ Idle.n = 0 /\ pc' # "write"
    BY DEF Leave, Idle, Message
  <1>2. /\ UNCHANGED <<motion, sent, made, received, refused>>
        /\ unread' = {} /\ lost' = lost \cup unread \cup InHand
    BY DEF rest, Leave
  <1>3. OrderInv'
    BY <1>0, <1>1, <1>2, OrderKept DEF Kinds, HandInv
  <1>4. TypeOK'
    <2>1. Idle \in [kind : {"none", "media", "motion", "ping", "echo"}, n : Nat]
      BY DEF Idle, Message
    <2>2. media' \in Seq(1 .. MaxMedia) /\ Len(media') <= MediaCap
      <3>1. media \in Seq(1 .. MaxMedia) /\ Len(media) <= MediaCap
        BY <1>0 DEF TypeOK
      <3>2. <<>> \in Seq(1 .. MaxMedia) /\ Len(<<>>) = 0
        BY EmptySeq
      <3>3. CASE media' = <<>>
        <4>1. Len(media') = 0 /\ 0 <= MediaCap
          BY <3>2, <3>3, UplinkAssumption
        <4> QED BY <3>2, <3>3, <4>1
      <3> QED BY <3>1, <3>3
    <2>3. unread' \subseteq 1 .. MaxMotion /\ lost' \subseteq 1 .. MaxMotion
      BY <1>0, <1>2, InHandType DEF TypeOK
    <2> QED BY <1>0, <1>2, <2>1, <2>2, <2>3 DEF TypeOK, Leave, PCs
  <1>5. MotionAccounted'
    <2>1. InHand' = {} /\ Waiting' = Waiting
      BY <1>1, <1>2 DEF InHand, Waiting
    <2> QED BY <1>0, <1>2, <2>1 DEF MotionAccounted
  <1> QED BY <1>3, <1>4, <1>5 DEF UplinkInv

\* Every step of an attempt to connect preserves the invariant.
LEMMA AttemptKeeps ==
    ASSUME UplinkInv, Attempt \/ TlsHangs
    PROVE  UplinkInv'
  <1> USE UplinkAssumption
  <1>0. TypeOK /\ OrderInv /\ MotionAccounted /\ HandInv
    BY DEF UplinkInv, OrderInv
  <1>a. Idle.kind = "none" /\ Idle.n = 0
    BY DEF Idle, Message
  <1>b. backoff \in 1 .. BackoffMax
    BY <1>0 DEF TypeOK
  <1>1. CASE \/ Cancelled \/ ConnectFails \/ TlsHangs \/ HelloFails \/ WakeStopped
             \/ \E ping \in PingIntervals : HelloOk(ping) /\ ping = 0
    <2>1. pc \in {"connect", "tls", "hello", "sleep", "pause"} /\ hand = Idle
      BY <1>0, <1>1 DEF Cancelled, ConnectFails, TlsHangs, HelloFails, WakeStopped, HelloOk,
                        HandInv
    <2>2. \E to \in PCs \ {"write"} : Leave(to)
      BY <1>1 DEF Cancelled, ConnectFails, TlsHangs, HelloFails, WakeStopped, HelloOk, PCs
    <2>3. /\ media' = media \/ media' = <<>>
          /\ UNCHANGED <<backoff, stop, motion, sets, server, rest>>
      BY <1>1 DEF Cancelled, ConnectFails, TlsHangs, HelloFails, WakeStopped, HelloOk, queues
    <2> QED BY <1>a, <1>b, <2>1, <2>2, <2>3, LeaveKeeps
  <1>2. CASE \/ Connect \/ TlsConnected \/ Wake
             \/ \E ping \in PingIntervals : HelloOk(ping) /\ ping # 0
    <2>1. /\ pc \in {"connect", "tls", "hello", "sleep", "pause"}
          /\ pc' \in {"tls", "hello", "connect", "session"}
          /\ hand = Idle
          /\ UNCHANGED <<media, motion, hand, inbox, stop, sets, server, made, sent, unread, received,
                         lost, refused>>
      BY <1>0, <1>2 DEF Connect, TlsConnected, Wake, HelloOk, HandInv, queues, truth, fate, rest,
                        link
    <2>2. backoff' \in 1 .. BackoffMax
      BY <1>b, <1>2 DEF Connect, TlsConnected, Wake, HelloOk, Least
    <2>3. alive' \in BOOLEAN /\ hello' \in BOOLEAN
      BY <1>0, <1>2 DEF Connect, TlsConnected, Wake, HelloOk, TypeOK, link
    <2>4. TypeOK'
      BY <1>0, <2>1, <2>2, <2>3 DEF TypeOK, PCs
    <2>5. OrderInv'
      BY <1>0, <2>1, OrderKept DEF HandInv
    <2>6. MotionAccounted'
      BY <1>0, <2>1, AccountedKept
    <2> QED BY <2>4, <2>5, <2>6 DEF UplinkInv
  <1> QED BY <1>1, <1>2 DEF Attempt

-----------------------------------------------------------------------------
\* A message taken from the front of its queue is older than the rest.
LEMMA TakeKeeps ==
    ASSUME UplinkInv, TakeMotion \/ TakeMedia
    PROVE  UplinkInv'
  <1>0. TypeOK /\ OrderInv /\ MotionAccounted /\ HandInv /\ MediaInv /\ MotionInv /\ SentInOrder
    BY DEF UplinkInv, OrderInv
  <1>a. hand = Idle /\ hand.kind = "none" /\ pc = "session" /\ pc' = "write"
    BY <1>0 DEF TakeMotion, TakeMedia, HandInv, Idle, Message, Writing
  <1>1. CASE TakeMotion
    <2>1. /\ motion # <<>> /\ motion' = Tail(motion)
          /\ hand' = [kind |-> "motion", n |-> Head(motion)]
          /\ UNCHANGED <<backoff, stop, media, inbox, hello, alive, sets, server, made, sent, unread,
                         received, lost, refused>>
      BY <1>1 DEF TakeMotion, Writing, Message, truth, fate, rest
    <2>a. motion \in Seq(1 .. MaxMotion) /\ Len(motion) \in Nat \ {0}
      BY <1>0, <2>1, EmptySeq DEF TypeOK
    <2>b. Head(motion) = motion[1]
      BY <2>a
    <2>2. /\ Head(motion) \in 1 .. MaxMotion
          /\ motion' \in Seq(1 .. MaxMotion)
          /\ Len(motion') = Len(motion) - 1
          /\ \A i \in 1 .. Len(motion') : motion'[i] = motion[i + 1]
      BY <2>1, <2>a, HeadTailProperties
    <2>3. hand'.kind = "motion" /\ hand'.n = motion[1] /\ hand'.n \in Nat
      BY <2>1, <2>2, <2>b, UplinkAssumption
    <2>4. TypeOK'
      BY <1>0, <1>a, <2>1, <2>2, <2>3 DEF TypeOK, PCs
    <2>5. MotionInv'
      <3>1. \A i \in 1 .. Len(motion') : i + 1 \in 1 .. Len(motion) /\ motion'[i] = motion[i + 1]
        BY <2>a, <2>2
      <3>2. 1 \in 1 .. Len(motion) /\ made' = made /\ sent' = sent
        BY <2>a, <2>1
      <3>3. /\ \A i, j \in 1 .. Len(motion) : i < j => motion[i] < motion[j]
            /\ \A i \in 1 .. Len(motion) : motion[i] <= made["motion"]
            /\ \A j \in 1 .. Len(sent) :
                 sent[j].kind = "motion" => /\ sent[j].n <= made["motion"]
                                            /\ \A i \in 1 .. Len(motion) : sent[j].n < motion[i]
        BY <1>0 DEF MotionInv, KindInv
      <3>4. \A i, j \in 1 .. Len(motion') : i < j => motion'[i] < motion'[j]
        BY <3>1, <3>3
      <3>5. \A i \in 1 .. Len(motion') : motion'[i] <= made'["motion"]
        BY <3>1, <3>2, <3>3
      <3>6. hand'.n <= made'["motion"] /\ \A i \in 1 .. Len(motion') : hand'.n < motion'[i]
        BY <2>3, <3>1, <3>2, <3>3
      <3>7. \A j \in 1 .. Len(sent') :
               sent'[j].kind = "motion" => /\ sent'[j].n <= made'["motion"]
                                           /\ \A i \in 1 .. Len(motion') : sent'[j].n < motion'[i]
                                           /\ sent'[j].n < hand'.n
        BY <2>3, <3>1, <3>2, <3>3
      <3> QED BY <3>4, <3>5, <3>6, <3>7 DEF MotionInv, KindInv
    <2>6. MediaInv'
      BY <1>0, <1>a, <2>1, <2>3 DEF MediaInv, KindInv
    <2>7. OrderInv'
      BY <1>0, <1>a, <2>1, <2>5, <2>6 DEF OrderInv, HandInv, SentInOrder
    <2>8. MotionAccounted'
      <3>1. DOMAIN motion = 1 .. Len(motion) /\ DOMAIN motion' = 1 .. Len(motion')
        BY <2>2, LenProperties
      <3>2. {motion[i] : i \in DOMAIN motion}
              = {motion'[i] : i \in DOMAIN motion'} \cup {motion[1]}
        <4>1. \A i \in DOMAIN motion : i = 1 \/ (i - 1 \in DOMAIN motion' /\ motion[i] = motion'[i - 1])
          BY <2>2, <3>1
        <4>2. \A i \in DOMAIN motion' : i + 1 \in DOMAIN motion /\ motion'[i] = motion[i + 1]
          BY <2>2, <3>1
        <4>3. 1 \in DOMAIN motion
          BY <2>2, <3>1
        <4> QED BY <4>1, <4>2, <4>3
      <3>3. /\ Waiting = {motion[i] : i \in DOMAIN motion} /\ InHand = {}
            /\ Waiting' = {motion'[i] : i \in DOMAIN motion'} /\ InHand' = {motion[1]}
        BY <1>a, <2>3 DEF Waiting, InHand
      <3>4. Waiting \cup InHand = Waiting' \cup InHand'
        BY <3>2, <3>3
      <3> QED BY <1>0, <1>a, <2>1, <3>4 DEF MotionAccounted
    <2> QED BY <2>4, <2>7, <2>8 DEF UplinkInv
  <1>2. CASE TakeMedia
    <2>1. /\ media # <<>> /\ media' = Tail(media)
          /\ hand' = [kind |-> "media", n |-> Head(media)]
          /\ UNCHANGED <<backoff, stop, motion, inbox, hello, alive, sets, server, made, sent, unread,
                         received, lost, refused>>
      BY <1>2 DEF TakeMedia, Writing, Message, truth, fate, rest
    <2>a. media \in Seq(1 .. MaxMedia) /\ Len(media) \in Nat \ {0}
      BY <1>0, <2>1, EmptySeq DEF TypeOK
    <2>b. Head(media) = media[1]
      BY <2>a
    <2>2. /\ Head(media) \in 1 .. MaxMedia
          /\ media' \in Seq(1 .. MaxMedia)
          /\ Len(media') = Len(media) - 1
          /\ \A i \in 1 .. Len(media') : media'[i] = media[i + 1]
      BY <2>1, <2>a, HeadTailProperties
    <2>3. hand'.kind = "media" /\ hand'.n = media[1] /\ hand'.n \in Nat
      BY <2>1, <2>2, <2>b, UplinkAssumption
    <2>4. TypeOK'
      BY <1>0, <1>a, <2>1, <2>2, <2>3, UplinkAssumption DEF TypeOK, PCs
    <2>5. MediaInv'
      <3>1. \A i \in 1 .. Len(media') : i + 1 \in 1 .. Len(media) /\ media'[i] = media[i + 1]
        BY <2>a, <2>2
      <3>2. 1 \in 1 .. Len(media) /\ made' = made /\ sent' = sent
        BY <2>a, <2>1
      <3>3. /\ \A i, j \in 1 .. Len(media) : i < j => media[i] < media[j]
            /\ \A i \in 1 .. Len(media) : media[i] <= made["media"]
            /\ \A j \in 1 .. Len(sent) :
                 sent[j].kind = "media" => /\ sent[j].n <= made["media"]
                                           /\ \A i \in 1 .. Len(media) : sent[j].n < media[i]
        BY <1>0 DEF MediaInv, KindInv
      <3>4. \A i, j \in 1 .. Len(media') : i < j => media'[i] < media'[j]
        BY <3>1, <3>3
      <3>5. \A i \in 1 .. Len(media') : media'[i] <= made'["media"]
        BY <3>1, <3>2, <3>3
      <3>6. hand'.n <= made'["media"] /\ \A i \in 1 .. Len(media') : hand'.n < media'[i]
        BY <2>3, <3>1, <3>2, <3>3
      <3>7. \A j \in 1 .. Len(sent') :
               sent'[j].kind = "media" => /\ sent'[j].n <= made'["media"]
                                          /\ \A i \in 1 .. Len(media') : sent'[j].n < media'[i]
                                          /\ sent'[j].n < hand'.n
        BY <2>3, <3>1, <3>2, <3>3
      <3> QED BY <3>4, <3>5, <3>6, <3>7 DEF MediaInv, KindInv
    <2>6. MotionInv'
      BY <1>0, <1>a, <2>1, <2>3 DEF MotionInv, KindInv
    <2>7. OrderInv'
      BY <1>0, <1>a, <2>1, <2>5, <2>6 DEF OrderInv, HandInv, SentInOrder
    <2>8. MotionAccounted'
      BY <1>0, <1>a, <2>1, <2>3, AccountedKept
    <2> QED BY <2>4, <2>7, <2>8 DEF UplinkInv
  <1> QED BY <1>1, <1>2

\* A written message is younger than all that were written before, and is now
\* counted among them.
LEMMA WriteOkKeeps ==
    ASSUME UplinkInv, WriteOk
    PROVE  UplinkInv'
  <1>0. TypeOK /\ OrderInv /\ MotionAccounted /\ HandInv /\ MediaInv /\ MotionInv /\ SentInOrder
    BY DEF UplinkInv, OrderInv
  <1>1. /\ pc = "write" /\ pc' = "session" /\ hand' = Idle
        /\ UNCHANGED <<backoff, stop, media, motion, inbox, hello, alive, sets, server, made,
                       received, lost, refused>>
        /\ unread' = unread \cup InHand
    BY DEF WriteOk, queues
  <1>2. Idle.kind = "none" /\ Idle \in [kind : {"none", "media", "motion", "ping", "echo"}, n : Nat]
    BY DEF Idle, Message
  <1>3. CASE hand.kind \notin Kinds
    <2>1. sent' = sent /\ unread' = unread
      BY <1>1, <1>3 DEF WriteOk, Kinds, InHand
    <2>2. TypeOK'
      BY <1>0, <1>1, <1>2, <2>1 DEF TypeOK, PCs
    <2>3. OrderInv'
      BY <1>0, <1>1, <1>2, <2>1, OrderKept DEF HandInv, Kinds
    <2>4. MotionAccounted'
      BY <1>0, <1>1, <1>2, <1>3, <2>1, AccountedKept DEF Kinds
    <2> QED BY <2>2, <2>3, <2>4 DEF UplinkInv
  <1>4. CASE hand.kind \in Kinds
    <2> DEFINE Msgs == [kind : {"media", "motion"}, n : Nat]
    <2>1. sent' = Append(sent, hand) /\ sent \in Seq(Msgs) /\ hand \in Msgs
      BY <1>0, <1>4 DEF WriteOk, Kinds, TypeOK
    <2>2. /\ sent' \in Seq(Msgs) /\ Len(sent) \in Nat /\ Len(sent') = Len(sent) + 1
          /\ \A j \in 1 .. Len(sent) : sent'[j] = sent[j]
          /\ sent'[Len(sent) + 1] = hand
          /\ DOMAIN sent = 1 .. Len(sent) /\ DOMAIN sent' = 1 .. Len(sent) + 1
      BY <2>1, AppendProperties, LenProperties
    <2> HIDE DEF Msgs
    <2>3. TypeOK'
      <3>1. unread' \subseteq 1 .. MaxMotion
        BY <1>0, <1>1, InHandType DEF TypeOK
      <3> QED BY <1>0, <1>1, <1>2, <2>2, <3>1 DEF TypeOK, PCs, Msgs
    <2>4. \A j \in 1 .. Len(sent') :
             \/ j \in 1 .. Len(sent) /\ sent'[j] = sent[j]
             \/ j = Len(sent) + 1 /\ sent'[j] = hand
      BY <2>2
    <2>5. MediaInv'
      BY <1>0, <1>1, <1>2, <2>4 DEF MediaInv, KindInv
    <2>6. MotionInv'
      BY <1>0, <1>1, <1>2, <2>4 DEF MotionInv, KindInv
    <2>7. SentInOrder'
      <3> SUFFICES ASSUME NEW i \in DOMAIN sent', NEW j \in DOMAIN sent', i < j,
                          sent'[i].kind = sent'[j].kind
                   PROVE  sent'[i].n < sent'[j].n
        BY DEF SentInOrder
      <3>1. i \in 1 .. Len(sent) /\ sent'[i] = sent[i]
        BY <2>2
      <3>2. CASE j \in 1 .. Len(sent)
        BY <1>0, <2>2, <3>1, <3>2 DEF SentInOrder
      <3>3. CASE j = Len(sent) + 1
        <4>1. sent'[j] = hand
          BY <2>2, <3>3
        <4>2. sent[i].kind = "media" => sent[i].n < hand.n
          BY <1>0, <3>1, <4>1 DEF MediaInv, KindInv
        <4>3. sent[i].kind = "motion" => sent[i].n < hand.n
          BY <1>0, <3>1, <4>1 DEF MotionInv, KindInv
        <4> QED BY <1>4, <3>1, <4>1, <4>2, <4>3 DEF Kinds
      <3> QED BY <2>2, <3>2, <3>3
    <2>8. OrderInv'
      BY <1>1, <2>5, <2>6, <2>7 DEF OrderInv, HandInv
    <2>9. MotionAccounted'
      <3>1. InHand' = {} /\ Waiting' = Waiting
        BY <1>1, <1>2 DEF InHand, Waiting
      <3> QED BY <1>0, <1>1, <3>1 DEF MotionAccounted
    <2> QED BY <2>3, <2>8, <2>9 DEF UplinkInv
  <1> QED BY <1>3, <1>4

\* Every step of a session preserves the invariant.
LEMMA SessionKeeps ==
    ASSUME UplinkInv, Session
    PROVE  UplinkInv'
  <1> USE UplinkAssumption
  <1>0. TypeOK /\ OrderInv /\ MotionAccounted /\ HandInv
    BY DEF UplinkInv, OrderInv
  <1>a. Idle.kind = "none" /\ Idle \in [kind : {"none", "media", "motion", "ping", "echo"}, n : Nat]
    BY DEF Idle, Message
  <1>b. backoff \in 1 .. BackoffMax
    BY <1>0 DEF TypeOK
  <1>1. CASE SessionStopped \/ SessionClosed
    <2>1. pc = "session" /\ hand = Idle
      BY <1>0, <1>1 DEF SessionStopped, SessionClosed, HandInv
    <2>2. \E to \in PCs \ {"write"} : Leave(to)
      BY <1>1 DEF SessionStopped, SessionClosed, PCs
    <2>3. /\ media' = media \/ media' = <<>>
          /\ UNCHANGED <<backoff, stop, motion, sets, server, rest>>
      BY <1>1 DEF SessionStopped, SessionClosed, queues
    <2> QED BY <1>a, <1>b, <2>1, <2>2, <2>3, LeaveKeeps
  <1>2. CASE HandlePing \/ PingTick
    <2>1. /\ pc = "session" /\ pc' = "write" /\ hand = Idle
          /\ hand'.kind \in {"echo", "ping"}
          /\ hand' \in [kind : {"none", "media", "motion", "ping", "echo"}, n : Nat]
          /\ inbox' \in {"none", "ping", "close", "failure"}
          /\ UNCHANGED <<backoff, media, motion, hello, alive, stop, sets, server, made, sent, unread,
                         received, lost, refused>>
      BY <1>0, <1>2 DEF HandlePing, PingTick, Writing, Message, HandInv, queues, truth, fate, rest,
                        TypeOK
    <2>2. TypeOK'
      BY <1>0, <2>1 DEF TypeOK, PCs
    <2>3. OrderInv'
      BY <1>0, <2>1, OrderKept DEF HandInv, Kinds
    <2>4. MotionAccounted'
      BY <1>0, <1>a, <2>1, AccountedKept
    <2> QED BY <2>2, <2>3, <2>4 DEF UplinkInv
  <1>3. CASE TakeMotion \/ TakeMedia
    BY <1>3, TakeKeeps
  <1>4. CASE WriteOk
    BY <1>4, WriteOkKeeps
  <1>5. CASE WriteFails
    <2>1. /\ pc = "write" /\ Leave("sleep")
          /\ UNCHANGED <<backoff, stop, media, motion, sets, server, rest>>
      BY <1>5 DEF WriteFails, queues
    <2> QED BY <1>b, <2>1, LeaveKeeps DEF PCs
  <1>6. CASE EchoFails
    <2>1. /\ pc = "write" /\ pc' = "session" /\ hand' = Idle /\ hand.kind = "echo"
          /\ alive' = FALSE
          /\ UNCHANGED <<backoff, stop, media, motion, inbox, hello, sets, server, made, sent, unread,
                         received, lost, refused>>
      BY <1>6 DEF EchoFails, queues, truth, fate, rest
    <2>2. TypeOK'
      BY <1>0, <1>a, <2>1 DEF TypeOK, PCs
    <2>3. OrderInv'
      BY <1>0, <1>a, <2>1, OrderKept DEF HandInv, Kinds
    <2>4. MotionAccounted'
      BY <1>0, <1>a, <2>1, AccountedKept
    <2> QED BY <2>2, <2>3, <2>4 DEF UplinkInv
  <1> QED BY <1>1, <1>2, <1>3, <1>4, <1>5, <1>6 DEF Session

-----------------------------------------------------------------------------
\* A message behind a queue that is in order, younger than all in it.
LEMMA AppendYoungest ==
    ASSUME NEW M \in Nat, NEW q \in Seq(1 .. M), NEW m \in Nat, m < M,
           NEW r, r = Append(q, m + 1),
           \A i, j \in 1 .. Len(q) : i < j => q[i] < q[j],
           \A i \in 1 .. Len(q) : q[i] <= m
    PROVE  /\ r \in Seq(1 .. M) /\ Len(q) \in Nat /\ Len(r) = Len(q) + 1
           /\ \A i \in 1 .. Len(q) : r[i] = q[i]
           /\ r[Len(q) + 1] = m + 1
           /\ \A i, j \in 1 .. Len(r) : i < j => r[i] < r[j]
           /\ \A i \in 1 .. Len(r) : r[i] <= m + 1
           /\ \A n \in Nat : n <= m /\ (\A i \in 1 .. Len(q) : n < q[i])
                                => \A i \in 1 .. Len(r) : n < r[i]
  <1>1. /\ r \in Seq(1 .. M) /\ Len(q) \in Nat /\ Len(r) = Len(q) + 1
        /\ \A i \in 1 .. Len(q) : r[i] = q[i]
        /\ r[Len(q) + 1] = m + 1
    <2>1. m + 1 \in 1 .. M
      OBVIOUS
    <2> QED BY <2>1, AppendProperties, LenProperties
  <1>2. \A i \in 1 .. Len(q) : q[i] \in 1 .. M
    BY ElementOfSeq
  <1>3. \A i \in 1 .. Len(r) : i \in 1 .. Len(q) \/ i = Len(q) + 1
    BY <1>1
  <1>4. ASSUME NEW i \in 1 .. Len(r), NEW j \in 1 .. Len(r), i < j PROVE r[i] < r[j]
    <2>1. i \in 1 .. Len(q) /\ r[i] = q[i] /\ q[i] \in Int /\ q[i] <= m
      BY <1>1, <1>2, <1>4
    <2>2. CASE j \in 1 .. Len(q)
      BY <1>1, <1>4, <2>1, <2>2
    <2>3. CASE j = Len(q) + 1
      BY <1>1, <2>1, <2>3
    <2> QED BY <1>3, <2>2, <2>3
  <1>5. ASSUME NEW i \in 1 .. Len(r) PROVE r[i] <= m + 1
    <2>1. CASE i \in 1 .. Len(q)
      <3>1. r[i] = q[i] /\ q[i] \in Int /\ q[i] <= m
        BY <1>1, <1>2, <2>1
      <3> QED BY <3>1
    <2> QED BY <1>1, <1>3, <2>1
  <1>6. ASSUME NEW n \in Nat, n <= m, \A i \in 1 .. Len(q) : n < q[i], NEW i \in 1 .. Len(r)
        PROVE  n < r[i]
    <2>1. CASE i \in 1 .. Len(q)
      BY <1>1, <1>6, <2>1
    <2>2. CASE i = Len(q) + 1
      BY <1>1, <1>6, <2>2
    <2> QED BY <1>3, <2>1, <2>2
  <1> QED BY <1>1, <1>4, <1>5, <1>6

\* A media message that is handed over is the youngest; when it finds the queue
\* full only its number is used up.
LEMMA SendMediaKeeps ==
    ASSUME UplinkInv, SendMedia
    PROVE  UplinkInv'
  <1> USE UplinkAssumption
  <1>0. TypeOK /\ OrderInv /\ MotionAccounted /\ HandInv /\ MediaInv /\ MotionInv /\ SentInOrder
    BY DEF UplinkInv, OrderInv
  <1>1. /\ made.media \in Nat /\ made.media < MaxMedia
        /\ made'.media = made.media + 1 /\ made'.motion = made.motion
        /\ made' \in [media : 0 .. MaxMedia, motion : 0 .. MaxMotion]
    <2>1. made \in [media : 0 .. MaxMedia, motion : 0 .. MaxMotion]
      BY <1>0 DEF TypeOK
    <2>2. made.media < MaxMedia /\ made' = [made EXCEPT !.media = @ + 1]
      BY DEF SendMedia
    <2> QED BY <2>1, <2>2
  <1>2. UNCHANGED <<pc, backoff, stop, motion, hand, inbox, hello, alive, sets, server, sent, unread,
                    received, lost, refused>>
    BY DEF SendMedia, link, fate
  <1>3. media \in Seq(1 .. MaxMedia) /\ Len(media) \in Nat /\ Len(media) <= MediaCap
    BY <1>0, LenProperties DEF TypeOK
  <1>4. MotionInv'
    BY <1>0, <1>1, <1>2 DEF MotionInv, KindInv
  <1>5. MotionAccounted'
    BY <1>0, <1>1, <1>2 DEF MotionAccounted, Waiting, InHand
  <1>6. SentInOrder' /\ HandInv'
    BY <1>0, <1>2 DEF SentInOrder, HandInv
  <1>7. sent \in Seq([kind : {"media", "motion"}, n : Nat]) /\ hand.n \in Nat
    BY <1>0 DEF TypeOK
  <1>8. \A j \in 1 .. Len(sent) : sent[j].n \in Nat
    <2>1. \A j \in 1 .. Len(sent) : sent[j] \in [kind : {"media", "motion"}, n : Nat]
      BY <1>7, ElementOfSeq
    <2> QED BY <2>1
  <1>9. CASE media' = media
    <2>1. TypeOK'
      BY <1>0, <1>1, <1>2, <1>9 DEF TypeOK
    <2>2. \A i \in 1 .. Len(media) : media[i] \in Nat
      BY <1>3
    <2>3. MediaInv'
      BY SMTT(30), <1>0, <1>1, <1>2, <1>7, <1>8, <1>9, <2>2 DEF MediaInv, KindInv
    <2> QED BY <1>4, <1>5, <1>6, <2>1, <2>3 DEF UplinkInv, OrderInv
  <1>10. CASE media' = Append(media, made.media + 1) /\ Len(media) < MediaCap
    <2>1. /\ \A i, j \in 1 .. Len(media) : i < j => media[i] < media[j]
          /\ \A i \in 1 .. Len(media) : media[i] <= made.media
      BY <1>0 DEF MediaInv, KindInv
    <2>a. /\ media' = Append(media, made.media + 1) /\ media \in Seq(1 .. MaxMedia)
          /\ made.media \in Nat /\ made.media < MaxMedia /\ MaxMedia \in Nat
      BY <1>1, <1>3, <1>10
    <2>b. /\ media' \in Seq(1 .. MaxMedia) /\ Len(media) \in Nat /\ Len(media') = Len(media) + 1
          /\ \A i \in 1 .. Len(media) : media'[i] = media[i]
          /\ media'[Len(media) + 1] = made.media + 1
          /\ \A i, j \in 1 .. Len(media') : i < j => media'[i] < media'[j]
          /\ \A i \in 1 .. Len(media') : media'[i] <= made.media + 1
          /\ \A n \in Nat : n <= made.media /\ (\A i \in 1 .. Len(media) : n < media[i])
                               => \A i \in 1 .. Len(media') : n < media'[i]
      BY <2>1, <2>a, AppendYoungest
    <2>2. /\ media' \in Seq(1 .. MaxMedia) /\ Len(media') = Len(media) + 1
          /\ \A i \in 1 .. Len(media) : media'[i] = media[i]
          /\ media'[Len(media) + 1] = made.media + 1
      BY <2>b
    <2>c. ASSUME NEW n \in Nat, n <= made.media, \A i \in 1 .. Len(media) : n < media[i]
          PROVE  n <= made'.media /\ \A i \in 1 .. Len(media') : n < media'[i]
      <3>1. n <= made'.media
        BY <1>1, <2>c
      <3>2. \A i \in 1 .. Len(media') : n < media'[i]
        BY <2>b, <2>c
      <3> QED BY <3>1, <3>2
    <2>3. TypeOK'
      BY <1>0, <1>1, <1>2, <1>3, <1>10, <2>2 DEF TypeOK
    <2>5. MediaInv'
      <3>1. ASSUME hand.kind = "media"
            PROVE  hand.n <= made'.media /\ \A i \in 1 .. Len(media') : hand.n < media'[i]
        <4>1. hand.n <= made.media /\ \A i \in 1 .. Len(media) : hand.n < media[i]
          BY <1>0, <3>1 DEF MediaInv, KindInv
        <4> QED BY <1>7, <2>c, <4>1
      <3>2. ASSUME NEW j \in 1 .. Len(sent), sent[j].kind = "media"
            PROVE  /\ sent[j].n <= made'.media
                   /\ \A i \in 1 .. Len(media') : sent[j].n < media'[i]
                   /\ hand.kind = "media" => sent[j].n < hand.n
        <4>1. /\ sent[j].n <= made.media /\ \A i \in 1 .. Len(media) : sent[j].n < media[i]
              /\ hand.kind = "media" => sent[j].n < hand.n
          BY <1>0, <3>2 DEF MediaInv, KindInv
        <4> QED BY <1>8, <2>c, <4>1
      <3> QED BY <1>1, <1>2, <2>b, <3>1, <3>2 DEF MediaInv, KindInv
    <2> QED BY <1>4, <1>5, <1>6, <2>3, <2>5 DEF UplinkInv, OrderInv
  <1> QED BY <1>9, <1>10 DEF SendMedia

\* A motion message that is handed over is the youngest and waits in its queue,
\* or is refused by an uplink that has ended.
LEMMA SendMotionKeeps ==
    ASSUME UplinkInv, SendMotion
    PROVE  UplinkInv'
  <1> USE UplinkAssumption
  <1>0. TypeOK /\ OrderInv /\ MotionAccounted /\ HandInv /\ MediaInv /\ MotionInv /\ SentInOrder
    BY DEF UplinkInv, OrderInv
  <1>1. /\ made.motion \in Nat /\ made.motion < MaxMotion
        /\ made'.motion = made.motion + 1 /\ made'.media = made.media
        /\ made' \in [media : 0 .. MaxMedia, motion : 0 .. MaxMotion]
    <2>1. made \in [media : 0 .. MaxMedia, motion : 0 .. MaxMotion]
      BY <1>0 DEF TypeOK
    <2>2. made.motion < MaxMotion /\ made' = [made EXCEPT !.motion = @ + 1]
      BY DEF SendMotion
    <2> QED BY <2>1, <2>2
  <1>2. UNCHANGED <<pc, backoff, stop, media, hand, inbox, hello, alive, sets, server, sent, unread,
                    received, lost>>
    BY DEF SendMotion, link, fate
  <1>3. motion \in Seq(1 .. MaxMotion) /\ Len(motion) \in Nat
    BY <1>0, LenProperties DEF TypeOK
  <1>4. MediaInv'
    BY <1>0, <1>1, <1>2 DEF MediaInv, KindInv
  <1>6. SentInOrder' /\ HandInv'
    BY <1>0, <1>2 DEF SentInOrder, HandInv
  <1>7. sent \in Seq([kind : {"media", "motion"}, n : Nat]) /\ hand.n \in Nat
    BY <1>0 DEF TypeOK
  <1>8. \A j \in 1 .. Len(sent) : sent[j].n \in Nat
    <2>1. \A j \in 1 .. Len(sent) : sent[j] \in [kind : {"media", "motion"}, n : Nat]
      BY <1>7, ElementOfSeq
    <2> QED BY <2>1
  <1>9. CASE pc = "done"
    <2>1. motion' = motion /\ refused' = refused \cup {made.motion + 1}
      BY <1>9 DEF SendMotion
    <2>2. TypeOK'
      <3>1. refused \subseteq 1 .. MaxMotion /\ made.motion + 1 \in 1 .. MaxMotion
        BY <1>0, <1>1 DEF TypeOK
      <3>2. refused' \subseteq 1 .. MaxMotion
        BY <2>1, <3>1
      <3> QED BY <1>0, <1>1, <1>2, <2>1, <3>2 DEF TypeOK
    <2>3. \A i \in 1 .. Len(motion) : motion[i] \in Nat
      BY <1>3
    <2>4. MotionInv'
      BY SMTT(30), <1>0, <1>1, <1>2, <1>7, <1>8, <2>1, <2>3 DEF MotionInv, KindInv
    <2>5. MotionAccounted'
      BY <1>2, <1>9 DEF MotionAccounted
    <2> QED BY <1>4, <1>6, <2>2, <2>4, <2>5 DEF UplinkInv, OrderInv
  <1>10. CASE pc # "done"
    <2>0. motion' = Append(motion, made.motion + 1) /\ refused' = refused
      BY <1>10 DEF SendMotion
    <2>1. /\ \A i, j \in 1 .. Len(motion) : i < j => motion[i] < motion[j]
          /\ \A i \in 1 .. Len(motion) : motion[i] <= made.motion
      BY <1>0 DEF MotionInv, KindInv
    <2>a. /\ motion' = Append(motion, made.motion + 1) /\ motion \in Seq(1 .. MaxMotion)
          /\ made.motion \in Nat /\ made.motion < MaxMotion /\ MaxMotion \in Nat
      BY <1>1, <1>3, <2>0
    <2>b. /\ motion' \in Seq(1 .. MaxMotion) /\ Len(motion) \in Nat /\ Len(motion') = Len(motion) + 1
          /\ \A i \in 1 .. Len(motion) : motion'[i] = motion[i]
          /\ motion'[Len(motion) + 1] = made.motion + 1
          /\ \A i, j \in 1 .. Len(motion') : i < j => motion'[i] < motion'[j]
          /\ \A i \in 1 .. Len(motion') : motion'[i] <= made.motion + 1
          /\ \A n \in Nat : n <= made.motion /\ (\A i \in 1 .. Len(motion) : n < motion[i])
                               => \A i \in 1 .. Len(motion') : n < motion'[i]
      BY <2>1, <2>a, AppendYoungest
    <2>2. /\ motion' \in Seq(1 .. MaxMotion) /\ Len(motion') = Len(motion) + 1
          /\ \A i \in 1 .. Len(motion) : motion'[i] = motion[i]
          /\ motion'[Len(motion) + 1] = made.motion + 1
      BY <2>b
    <2>c. ASSUME NEW n \in Nat, n <= made.motion, \A i \in 1 .. Len(motion) : n < motion[i]
          PROVE  n <= made'.motion /\ \A i \in 1 .. Len(motion') : n < motion'[i]
      <3>1. n <= made'.motion
        BY <1>1, <2>c
      <3>2. \A i \in 1 .. Len(motion') : n < motion'[i]
        BY <2>b, <2>c
      <3> QED BY <3>1, <3>2
    <2>3. TypeOK'
      BY <1>0, <1>1, <1>2, <2>0, <2>2 DEF TypeOK
    <2>5. MotionInv'
      <3>1. ASSUME hand.kind = "motion"
            PROVE  hand.n <= made'.motion /\ \A i \in 1 .. Len(motion') : hand.n < motion'[i]
        <4>1. hand.n <= made.motion /\ \A i \in 1 .. Len(motion) : hand.n < motion[i]
          BY <1>0, <3>1 DEF MotionInv, KindInv
        <4> QED BY <1>7, <2>c, <4>1
      <3>2. ASSUME NEW j \in 1 .. Len(sent), sent[j].kind = "motion"
            PROVE  /\ sent[j].n <= made'.motion
                   /\ \A i \in 1 .. Len(motion') : sent[j].n < motion'[i]
                   /\ hand.kind = "motion" => sent[j].n < hand.n
        <4>1. /\ sent[j].n <= made.motion /\ \A i \in 1 .. Len(motion) : sent[j].n < motion[i]
              /\ hand.kind = "motion" => sent[j].n < hand.n
          BY <1>0, <3>2 DEF MotionInv, KindInv
        <4> QED BY <1>8, <2>c, <4>1
      <3> QED BY <1>1, <1>2, <2>b, <3>1, <3>2 DEF MotionInv, KindInv
    <2>6. MotionAccounted'
      <3>1. DOMAIN motion = 1 .. Len(motion) /\ DOMAIN motion' = 1 .. Len(motion) + 1
        BY <1>3, <2>2, LenProperties
      <3>2. {motion'[i] : i \in DOMAIN motion'}
               = {motion[i] : i \in DOMAIN motion} \cup {made.motion + 1}
        <4>1. \A i \in DOMAIN motion : i \in DOMAIN motion' /\ motion'[i] = motion[i]
          BY <1>3, <2>2, <3>1
        <4>2. Len(motion) + 1 \in DOMAIN motion'
          BY <1>3, <3>1
        <4>3. \A i \in DOMAIN motion' : i \in DOMAIN motion \/ i = Len(motion) + 1
          BY <1>3, <3>1
        <4> QED BY <2>2, <4>1, <4>2, <4>3
      <3>3. 1 .. made'.motion = (1 .. made.motion) \cup {made.motion + 1}
        BY <1>1
      <3>4. Waiting' = Waiting \cup {made.motion + 1} /\ InHand' = InHand
        BY <1>2, <3>2 DEF Waiting, InHand
      <3> QED BY <1>0, <1>2, <1>10, <2>0, <3>3, <3>4 DEF MotionAccounted
    <2> QED BY <1>4, <1>6, <2>3, <2>5, <2>6 DEF UplinkInv, OrderInv
  <1> QED BY <1>9, <1>10

\* Every step of the other tasks and of the server preserves the invariant.
LEMMA EnvironmentKeeps ==
    ASSUME UplinkInv, Environment
    PROVE  UplinkInv'
  <1>0. TypeOK /\ OrderInv /\ MotionAccounted /\ HandInv
    BY DEF UplinkInv, OrderInv
  <1>1. CASE SendMedia
    BY <1>1, SendMediaKeeps
  <1>2. CASE SendMotion
    BY <1>2, SendMotionKeeps
  <1>3. CASE \/ SetParameterSets \/ Shutdown
             \/ \E s \in {"up", "rejects", "mute", "down"}, cut \in BOOLEAN : ServerBecomes(s, cut)
             \/ \E r \in {"ping", "close", "failure"} : ServerSends(r)
    <2>1. /\ UNCHANGED <<pc, backoff, media, motion, hand, hello, made, sent, unread, received,
                         lost, refused>>
          /\ stop' \in BOOLEAN /\ sets' \in BOOLEAN /\ alive' \in BOOLEAN
          /\ server' \in {"up", "rejects", "mute", "down"}
          /\ inbox' \in {"none", "ping", "close", "failure"}
      BY <1>0, <1>3 DEF SetParameterSets, Shutdown, ServerBecomes, ServerSends, queues, link, truth, fate,
                        rest, TypeOK
    <2>2. TypeOK'
      BY <1>0, <2>1 DEF TypeOK
    <2>3. OrderInv'
      BY <1>0, <2>1, OrderKept DEF HandInv
    <2>4. MotionAccounted'
      BY <1>0, <2>1 DEF MotionAccounted, Waiting, InHand
    <2> QED BY <2>2, <2>3, <2>4 DEF UplinkInv
  <1>4. ASSUME NEW n \in unread, ServerReads(n) PROVE UplinkInv'
    <2>1. /\ UNCHANGED <<pc, backoff, stop, media, motion, hand, inbox, hello, alive, sets, server,
                         made, sent, lost, refused>>
          /\ received' = received \cup {k \in unread : k <= n}
          /\ unread' = {k \in unread : k > n}
      BY <1>4 DEF ServerReads, queues, link
    <2>2. unread \subseteq 1 .. MaxMotion /\ \A k \in unread : k \in Int
      BY <1>0 DEF TypeOK
    <2>3. received' \cup unread' = received \cup unread
      <3>1. \A k \in unread : k <= n \/ k > n
        BY <2>2
      <3> QED BY <2>1, <3>1
    <2>4. TypeOK'
      <3>1. received' \subseteq 1 .. MaxMotion /\ unread' \subseteq 1 .. MaxMotion
        BY <1>0, <2>1 DEF TypeOK
      <3> QED BY <1>0, <2>1, <3>1 DEF TypeOK
    <2>5. OrderInv'
      BY <1>0, <2>1, OrderKept DEF HandInv
    <2>6. MotionAccounted'
      <3>1. Waiting' = Waiting /\ InHand' = InHand
        BY <2>1 DEF Waiting, InHand
      <3>2. unread = {} => unread' = {}
        BY <2>1
      <3> QED BY <1>0, <2>1, <2>3, <3>1, <3>2 DEF MotionAccounted
    <2> QED BY <2>4, <2>5, <2>6 DEF UplinkInv
  <1> QED BY <1>1, <1>2, <1>3, <1>4 DEF Environment

-----------------------------------------------------------------------------
\* UplinkInv holds throughout: the uplink is always in one of the states its
\* loop, its queues and its connection allow.
THEOREM UplinkInvariance == Spec => []UplinkInv
  <1>1. UplinkInv /\ [Next]_vars => UplinkInv'
    <2> SUFFICES ASSUME UplinkInv, [Next]_vars PROVE UplinkInv'
      OBVIOUS
    <2>1. CASE Attempt \/ TlsHangs
      BY <2>1, AttemptKeeps
    <2>2. CASE Session
      BY <2>2, SessionKeeps
    <2>3. CASE Environment
      BY <2>3, EnvironmentKeeps
    <2>4. CASE UNCHANGED vars
      <3>1. UNCHANGED <<pc, backoff, stop, media, motion, hand, inbox, hello, alive, sets, server, made,
                        sent, unread, received, lost, refused>>
        BY <2>4 DEF vars, queues, link, truth, fate, rest
      <3>2. TypeOK' /\ HandInv'
        BY <3>1 DEF UplinkInv, OrderInv, TypeOK, HandInv
      <3>3. OrderInv'
        BY <3>1, <3>2, OrderKept DEF UplinkInv
      <3>4. MotionAccounted'
        BY <3>1 DEF UplinkInv, MotionAccounted, Waiting, InHand
      <3> QED BY <3>2, <3>3, <3>4 DEF UplinkInv
    <2> QED BY <2>1, <2>2, <2>3, <2>4 DEF Next
  <1> QED BY UplinkInit, <1>1, PTL DEF Spec

\* Over all reconnections, overflows and failed writes of connect_and_run, the
\* records of a kind are written in the order send_rtp, send_gap and send_motion
\* were called, none of them twice.
THEOREM SentAlwaysInOrder == Spec => []SentInOrder
  <1>1. UplinkInv => SentInOrder
    BY DEF UplinkInv, OrderInv
  <1> QED BY <1>1, UplinkInvariance, PTL

\* A motion message given to send_motion waits, is in hand, is on its way, was
\* received, or went with the connection it was written to: nothing acknowledges a
\* record.  Outside a session no message is at stake.
THEOREM MotionAlwaysAccounted == Spec => []MotionAccounted
  <1>1. UplinkInv => MotionAccounted
    BY DEF UplinkInv
  <1> QED BY <1>1, UplinkInvariance, PTL
=============================================================================
