-------------------------- MODULE MCStreamRegistry --------------------------
(***************************************************************************)
(* Instances of StreamRegistry.  Connections are alike, and so are task    *)
(* identities; the symmetry is used by safety runs only.                   *)
(***************************************************************************)
EXTENDS StreamRegistry, TLC

=============================================================================
