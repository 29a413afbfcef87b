--------------------------- MODULE MCBaRecipient ---------------------------
(***************************************************************************)
(* Two stations contend for one usable entry, whose buffer holds two       *)
(* frames; the stations may be exchanged.                                  *)
(***************************************************************************)
EXTENDS BaRecipient, TLC

CONSTANTS w1, w2

TwoStations == {w1, w2}
Symmetry == Permutations(TwoStations)
=============================================================================
