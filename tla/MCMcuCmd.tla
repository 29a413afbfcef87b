----------------------------- MODULE MCMcuCmd ------------------------------
(***************************************************************************)
(* Two commands whose callers wait, one of them a STAREC_UPDATE, and one   *)
(* nobody waits for; one sequence number, so that it is wanted again while *)
(* it is in use, and again after it has been given up.                     *)
(***************************************************************************)
EXTENDS McuCmd

CONSTANTS m1, m2, m3

ThreeCmds == {m1, m2, m3}
TwoSync == {m1, m2}
OneStaRec == {m1}
=============================================================================
