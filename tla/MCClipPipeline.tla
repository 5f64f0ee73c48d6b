--------------------------- MODULE MCClipPipeline ---------------------------
(* A camera that sends parameter sets on their own and now and then garbage. *)
EXTENDS ClipPipeline

Packet(kind, nals, marker) == [payload |-> [kind |-> kind, nals |-> nals], marker |-> marker]

MCPackets ==
    {Packet("stap", <<"sps", "pps">>, FALSE),
     Packet("single", <<"idr">>, TRUE),
     Packet("single", <<"other">>, TRUE),
     Packet("malformed", <<>>, TRUE)}
=============================================================================
