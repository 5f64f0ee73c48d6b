------------------------------ MODULE H264Ref ------------------------------
(***************************************************************************)
(* The operators of H264, which treat the NAL units of a packet at once,   *)
(* run beside the code's way of doing it: the loop of run_stream_v2 hands  *)
(* the NAL units one by one to H264SyncGate::push_nal and appends what it  *)
(* returns.  Packets come in any order, with resets (a gap, a refused      *)
(* packet) between them.                                                   *)
(***************************************************************************)
EXTENDS H264

CONSTANTS Payloads   \* the payloads that may arrive

ASSUME PayloadsAssumption == Payloads \subseteq Payload

VARIABLES
    fu, gate, out,   \* H264: reassembly, gate, classes the last packet let out
    refGate, refOut  \* push_nal by push_nal: gate, NAL units in order

loopVars == <<fu, gate, out, refGate, refOut>>

\* push_nal
PushNal(g, nal) ==
    IF nal \in ParamSets
    THEN [gate |-> [g EXCEPT ![nal] = TRUE], out |-> <<>>]
    ELSE IF nal = "idr" /\ g.sps /\ g.pps
    THEN [gate |-> [g EXCEPT !.synced = TRUE], out |-> <<"sps", "pps", nal>>]
    ELSE [gate |-> g, out |-> IF g.synced THEN <<nal>> ELSE <<>>]

\* `for nal in nals { for gated in sync_gate.push_nal(nal) { ... } }`: the gate and
\* what has come out of it after i rounds.
Pushed(g, nals) ==
    LET after[i \in 0 .. Len(nals)] ==
            IF i = 0
            THEN [gate |-> g, out |-> <<>>]
            ELSE LET r == PushNal(after[i - 1].gate, nals[i])
                 IN  [gate |-> r.gate, out |-> after[i - 1].out \o r.out]
    IN  after

PushNals(g, nals) == Pushed(g, nals)[Len(nals)]

LoopInit ==
    /\ fu = "none"
    /\ \E seeded \in BOOLEAN : gate = NewGate(seeded)
    /\ refGate = gate
    /\ out = {}
    /\ refOut = <<>>

\* dep.reset(), sync_gate.reset(), current_au_nals.clear()
Reset ==
    /\ fu' = "none"
    /\ gate' = GateReset(gate)
    /\ refGate' = [refGate EXCEPT !.synced = FALSE]
    /\ out' = {}
    /\ refOut' = <<>>

Push(p) ==
    /\ ~Undecodable(fu, p)
    /\ fu' = FuAfter(fu, p)
    /\ gate' = GateAfter(gate, NalsOf(fu, p))
    /\ out' = GateOutput(gate, NalsOf(fu, p))
    /\ refGate' = PushNals(refGate, NalsOf(fu, p)).gate
    /\ refOut' = PushNals(refGate, NalsOf(fu, p)).out

LoopNext == Reset \/ \E p \in Payloads : Push(p)

LoopSpec == LoopInit /\ [][LoopNext]_loopVars

\* The set-at-once operators compute what the code's loop computes: the same
\* gate, and the same NAL units out of it.
ClosedFormAgrees == gate = refGate /\ out = {refOut[i] : i \in DOMAIN refOut}

=============================================================================
