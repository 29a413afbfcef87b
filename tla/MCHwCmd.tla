------------------------------ MODULE MCHwCmd ------------------------------
(***************************************************************************)
(* Two commands, one of them waited for and one with a buffer of its own;  *)
(* the interface is opened once.                                           *)
(***************************************************************************)
EXTENDS HwCmd

CONSTANTS c1, c2

TwoCmds == {c1, c2}
FirstWaits == {c1}
SecondBuffered == {c2}
=============================================================================
