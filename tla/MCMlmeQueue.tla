---------------------------- MODULE MCMlmeQueue ----------------------------
(***************************************************************************)
(* Four messages over two interfaces: two internal ones, one for the WSC   *)
(* thread and a received one, of which the first half of the ring is all   *)
(* there may be and which comes from a station nobody knows.  The run      *)
(* takes a ring of two, three of the messages and one sender, so that the  *)
(* instance can be closed and opened again; the two findings take a ring   *)
(* of three, all four and two senders.                                     *)
(***************************************************************************)
EXTENDS MlmeQueue

CONSTANTS l1, l2, k1, r1, w1, w2, s1, s2

MCMsgs == {l1, l2, k1, r1}
FewMsgs == {l1, k1, r1}
MCKind == [m \in Msgs |-> IF m = k1 THEN "wsc"
                           ELSE IF m = r1 THEN "recv" ELSE "local"]
MCOwner == [m \in Msgs |-> IF m \in {l1, r1} THEN w1 ELSE w2]
MCUnknown == {r1}
MCWdevs == {w1, w2}
MCSenders == {s1, s2}
OneSender == {s1}
=============================================================================
