--------------------------- MODULE MCMotionPoller ---------------------------
(***************************************************************************)
(* Two cameras.  Only the first names a rule; both report motion without   *)
(* one, which gives them a rule name in common.                            *)
(***************************************************************************)
EXTENDS MotionPoller

CONSTANTS c1, c2, r1

MCRulesOf == (c1 :> {r1}) @@ (c2 :> {})
=============================================================================
