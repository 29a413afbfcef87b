----------------------------- MODULE MCFourWay -----------------------------
(***************************************************************************)
(* The handshake of one station with one retry of each pairwise message    *)
(* and none of the group message (the code: two and ten), one new          *)
(* group key and one allocation that fails.  The replay counter reaches    *)
(* MaxRC + 1: two first messages and a third, or a first and two thirds,   *)
(* each answered late, twice or never, and a group message behind them.    *)
(***************************************************************************)
EXTENDS FourWay
=============================================================================
