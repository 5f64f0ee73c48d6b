------------------------------ MODULE MCLiveV2 ------------------------------
(* Instances of LiveV2 for TLC. *)
EXTENDS LiveV2

Packet(kind, nals, marker) == [payload |-> [kind |-> kind, nals |-> nals], marker |-> marker]

\* Parameter sets on their own, pictures of one slice, IDR pictures in
\* fragments, and now and then a payload the depacketizer refuses.
MixedCamera ==
    {Packet("stap", <<"sps", "pps">>, FALSE),
     Packet("single", <<"idr">>, TRUE),
     Packet("single", <<"other">>, TRUE),
     Packet("fuStart", <<"idr">>, FALSE),
     Packet("fuMid", <<"idr">>, FALSE),
     Packet("fuEnd", <<"idr">>, TRUE),
     Packet("malformed", <<>>, FALSE),
     Packet("empty", <<>>, TRUE)}

\* Every picture an IDR with its parameter sets.
IntraCamera == {Packet("stap", <<"sps", "pps", "idr">>, TRUE)}

\* IDR pictures of two slices.
TwoSliceCamera ==
    {Packet("stap", <<"sps", "pps">>, FALSE),
     Packet("single", <<"idr">>, FALSE),
     Packet("single", <<"idr">>, TRUE)}
=============================================================================
