---------------------------- MODULE MCAgentJobs -----------------------------
(***************************************************************************)
(* Two probe jobs for one camera and one for a camera without ONVIF; an    *)
(* update that starts the new agent, or a rollback.                        *)
(***************************************************************************)
EXTENDS AgentJobs

MCCamOf == [j \in 1 .. 3 |-> IF j < 3 THEN "c1" ELSE "c2"]

MCFirmware == {[action |-> "update", starts |-> TRUE], [action |-> "rollback", starts |-> FALSE]}
=============================================================================
