---------------------------- MODULE MCBaReorder ----------------------------
(***************************************************************************)
(* A session with a window of three and sequence numbers that wrap within  *)
(* the run.  MCMsdus has A-MSDUs of three and of two MSDUs with single     *)
(* ones around them, FewMsdus one of two.                                  *)
(***************************************************************************)
EXTENDS BaReorder

MCMsdus == <<1, 3, 1, 2, 1>>
FewMsdus == <<1, 2, 1, 1>>
=============================================================================
