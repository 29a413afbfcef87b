------------------------------ MODULE MCBaOri ------------------------------
(***************************************************************************)
(* One or two stations, one transmitting thread beside the MLME thread.    *)
(* NotStale ends the exploration where the properties end: all but         *)
(* RefusalMeansFull say nothing of a state in which stale is TRUE.         *)
(***************************************************************************)
EXTENDS BaOri

CONSTANTS mt, t1, w1, w2

TwoStations == {w1, w2}
OneStation == {w1}
OneTx == {mt, t1}
NotStale == ~hist.stale
=============================================================================
