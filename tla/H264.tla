-------------------------------- MODULE H264 --------------------------------
(***************************************************************************)
(* What the receivers make of an RTP payload: H264Depacketizer             *)
(* (core/h264_depacketize.rs) turns payloads into NAL units, H264SyncGate  *)
(* (core/h264_sync.rs) lets NAL units through from a decodable IDR on.     *)
(*                                                                         *)
(* Bytes are abstracted to what the gate and the pipelines tell apart: a   *)
(* NAL unit is its class.  "other" stands for every NAL type but 5, 7, 8.  *)
(***************************************************************************)
EXTENDS Naturals, Sequences

NalClass == {"sps", "pps", "idr", "other"}
ParamSets == {"sps", "pps"}

(***************************************************************************)
(* A payload is its kind and the NAL classes it names: one for "single"    *)
(* (types 1..23) and for the three FU-A kinds, several for "stap" (type    *)
(* 24).  A fragment with the start bit is "fuStart" whatever its end bit.  *)
(* "malformed" covers unsupported types, truncated FU-A and bad STAP-A     *)
(* lengths; "empty" is a packet without payload.                           *)
(***************************************************************************)
PayloadKind == {"single", "stap", "fuStart", "fuMid", "fuEnd", "empty", "malformed"}
Payload == {p \in [kind : PayloadKind, nals : Seq(NalClass)] :
               p.kind \notin {"stap", "empty", "malformed"} => Len(p.nals) = 1}

(***************************************************************************)
(* H264Depacketizer: fu is the class of the NAL unit being reassembled in  *)
(* fu_buf, "none" when fu_active is false.                                 *)
(***************************************************************************)
FuState == NalClass \cup {"none"}

\* push_rtp_payload returns an error.
Undecodable(fu, p) ==
    \/ p.kind = "malformed"
    \/ p.kind \in {"fuMid", "fuEnd"} /\ fu = "none"

\* The NAL units push_rtp_payload returns.
NalsOf(fu, p) ==
    CASE p.kind \in {"single", "stap"} -> p.nals
      [] p.kind = "fuEnd"              -> <<fu>>
      [] OTHER                         -> <<>>

\* The reassembly state push_rtp_payload leaves.
FuAfter(fu, p) ==
    CASE p.kind = "fuStart" -> p.nals[1]
      [] p.kind = "fuEnd"   -> "none"
      [] OTHER              -> fu

(***************************************************************************)
(* H264SyncGate::new(true).  sps and pps say whether a parameter set is    *)
(* cached; the cache survives reset().                                     *)
(***************************************************************************)
Gate == [synced : BOOLEAN, sps : BOOLEAN, pps : BOOLEAN]

\* new(true), then set_sprop_param_sets when the stream came with a seed.
NewGate(seeded) == [synced |-> FALSE, sps |-> seeded, pps |-> seeded]

GateReset(g) == [g EXCEPT !.synced = FALSE]

\* Feeding nals one by one to push_nal: the i-th is an IDR slice and finds
\* both parameter sets cached, so it is emitted with them in front of it.
Prefixed(g, nals, i) ==
    /\ nals[i] = "idr"
    /\ g.sps \/ \E j \in 1 .. i - 1 : nals[j] = "sps"
    /\ g.pps \/ \E j \in 1 .. i - 1 : nals[j] = "pps"

\* A fault to check against: any IDR slice opens the gate, with or without
\* parameter sets.
EmittedFromAnyIdr(g, nals) ==
    {i \in DOMAIN nals :
        /\ nals[i] \notin ParamSets
        /\ g.synced \/ \E k \in 1 .. i : nals[k] = "idr"}

\* The indices of the NAL units of nals that the gate lets through.
Emitted(g, nals) ==
    {i \in DOMAIN nals :
        /\ nals[i] \notin ParamSets
        /\ g.synced \/ \E k \in 1 .. i : Prefixed(g, nals, k)}

\* The classes of the NAL units that come out of the gate, prefixes included.
GateOutput(g, nals) ==
    {nals[i] : i \in Emitted(g, nals)}
        \cup (IF \E i \in Emitted(g, nals) : Prefixed(g, nals, i)
              THEN ParamSets ELSE {})

GateAfter(g, nals) ==
    [synced |-> g.synced \/ \E i \in DOMAIN nals : Prefixed(g, nals, i),
     sps    |-> g.sps \/ \E i \in DOMAIN nals : nals[i] = "sps",
     pps    |-> g.pps \/ \E i \in DOMAIN nals : nals[i] = "pps"]
=============================================================================
