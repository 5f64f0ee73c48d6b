------------------------------- MODULE MCH264 -------------------------------
(* H264Ref over every aggregation packet of up to four NAL units. *)
EXTENDS H264Ref

MCPayloads ==
    [kind : {"stap"}, nals : UNION {[1 .. n -> NalClass] : n \in 0 .. 4}]
        \cup [kind : {"single", "fuStart", "fuMid", "fuEnd"}, nals : [1 .. 1 -> NalClass]]
        \cup [kind : {"malformed", "empty"}, nals : {<<>>}]
=============================================================================
