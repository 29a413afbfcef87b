----------------------------- MODULE BaReorder -----------------------------
(***************************************************************************)
(* The reordering buffer of one block-ack recipient session                *)
(* (embedded/common/ba_action.c): ba_reorder for each received MSDU,       *)
(* bar_process for each block-ack request, the 100 ms monitor with the     *)
(* flush it schedules, and ba_rec_session_add when the peer renews the     *)
(* session.  ba_reorder, bar_process and ba_timeout_flush run in the same  *)
(* tasklet, so each is one step; the renewal is taken as one step too.     *)
(*                                                                         *)
(* The environment is the peer: it numbers its MPDUs 1, 2, ..., sends any  *)
(* of its transmit window in any order and as often as it likes, each as   *)
(* its MSDUs one after the other, of which the last ones may be lost.      *)
(***************************************************************************)
EXTENDS Integers, SequencesExt

CONSTANTS
  Msdus,        \* the MPDUs the peer sends: Msdus[n] MSDUs in the n-th
  SeqSpace,     \* MAXSEQ + 1
  StartSeq,     \* the sequence number of the first MPDU
  BAWinSize,    \* the window agreed on
  MaxRenewals,  \* bound: how often the peer renews the session
  Nothing       \* no MSDU on the air; CurMpdu = NULL

ASSUME SpaceAssumption ==
  /\ BAWinSize \in Nat \ {0} /\ SeqSpace \in Nat
  /\ 2 * (BAWinSize + 1) <= SeqSpace
  /\ StartSeq \in 0 .. SeqSpace - 1
ASSUME MsduAssumption ==
  Msdus \in Seq(Nat \ {0}) /\ Msdus # <<>> /\ MaxRenewals \in Nat

MPDUs == 1 .. Len(Msdus)
SeqNums == 0 .. SeqSpace - 1
MSDUs == UNION {[n : {n}, k : 1 .. Msdus[n]] : n \in MPDUs}

ASSUME NothingAssumption == Nothing \notin SeqNums /\ Nothing \notin MSDUs

VARIABLES
  ba,       \* BA_REC_ENTRY, with what went up to the network stack
  due,      \* ba_timeout_check, and this session's bit of ba_timeout_bitmap
  air,      \* the MSDU the tasklet receives next, when inside an MPDU
  wo,       \* the peer's window starts at this MPDU
  heard,    \* history: the newest MPDU a frame has told the recipient of
  renewals  \* session renewals so far (only for the bound)

vars == <<ba, due, air, wo, heard, renewals>>

\* age is the time since LastIndSeqAtTimer: 0 up to 100 ms
\* (REORDERING_PACKET_TIMEOUT), 1 above, 2 above 250 ms
\* (MAX_REORDERING_PACKET_TIMEOUT / 6).  The rest is history, read by no
\* guard: top is the last MSDU announced; late, one was announced out of
\* order; pulled, LastIndSeq went backwards; dry, a repeated MSDU found no
\* room beside its first copy; spoilt, a freed block was written to.
Init ==
  /\ ba = [REC_BA_Status |-> "Initialization",
           LastIndSeq |-> (StartSeq - 1) % SeqSpace,
           list |-> <<>>, CurMpdu |-> Nothing, age |-> 0,
           PreviousAmsduState |-> "MSDU", PreviousSN |-> 0,
           PreviousReorderCase |-> "STEP_ONE",
           top |-> [n |-> 0, k |-> 0],
           late |-> FALSE, pulled |-> FALSE, dry |-> FALSE, spoilt |-> FALSE]
  /\ due = [check |-> FALSE, bit |-> FALSE]
  /\ air = Nothing
  /\ wo = 1
  /\ heard = [newest |-> 0, lapped |-> FALSE]
  /\ renewals = 0

(***************************************************************************)
(* Sequence numbers and the frames that carry them.                        *)
(***************************************************************************)
WrapMissing(s) == s
Wrap(s) == s % SeqSpace
SEQ_SMALLER(a, b) == (a - b) % SeqSpace >= SeqSpace \div 2

SN(p) == Wrap(StartSeq + p.n - 1)
AmsduState(p) ==
  CASE Msdus[p.n] = 1 -> "MSDU"
    [] p.k = 1 /\ Msdus[p.n] > 1 -> "FIRST"
    [] p.k = Msdus[p.n] /\ p.k > 1 -> "FINAL"
    [] OTHER -> "MIDDLE"
Complete(p) == AmsduState(p) \in {"MSDU", "FINAL"}

(***************************************************************************)
(* The list of buffered blocks, and the ways out of it.                    *)
(***************************************************************************)
Before(p, q) == p.n < q.n \/ (p.n = q.n /\ p.k < q.k)

Announce(b, pkts) ==
  LET up == <<b.top>> \o pkts IN
  [b EXCEPT !.top = Last(up),
            !.late = @ \/ \E i \in 1 .. Len(pkts) : ~Before(up[i], up[i + 1])]

\* How many blocks at the head of the list satisfy Ok, without a gap.
Leading(list, Ok(_, _)) ==
  Max({k \in 0 .. Len(list) : \A i \in 1 .. k : Ok(i, list[i].Sequence)})

Release(b, k) ==
  LET pkts == FlattenSeq([i \in 1 .. k |-> b.list[i].pkts]) IN
  Announce([b EXCEPT !.list = SubSeq(@, k + 1, Len(@))], pkts)

\* ba_indicate_reordering_mpdus_in_order, and the assignment of its result.
InOrder(b) ==
  LET k == Leading(b.list, LAMBDA i, s : s = Wrap(b.LastIndSeq + i)) IN
  IF k = 0 THEN b
           ELSE [Release(b, k) EXCEPT !.LastIndSeq = b.list[k].Sequence]

\* ba_indicate_reordering_mpdus_le_seq
LeSeq(b, seq) ==
  Release(b, Leading(b.list, LAMBDA i, s : s = seq \/ SEQ_SMALLER(s, seq)))

\* ba_refresh_reordering_mpdus
Refresh(b) ==
  LET k == Len(b.list) IN
  [Release(b, k) EXCEPT
     !.LastIndSeq = IF k = 0 THEN @ ELSE b.list[k].Sequence,
     !.CurMpdu = Nothing]

\* The window moves on to behind seq, whatever is missing before it.
ShiftNoCatchUp(b, seq) == [LeSeq(b, seq) EXCEPT !.LastIndSeq = seq, !.age = 0]
Shift(b, seq) ==
  InOrder([LeSeq(b, seq) EXCEPT !.LastIndSeq = seq, !.age = 0])

\* ba_flush_reordering_timeout_mpdus
FlushTimeout(b) ==
  CASE b.list # <<>> /\ b.age = 2 -> [Refresh(b) EXCEPT !.age = 0]
    [] b.list # <<>> /\ b.age = 1 -> Shift(b, Wrap(b.LastIndSeq + 1))
    [] OTHER -> b

(***************************************************************************)
(* amsdu_sanity: the MSDUs of the previous MPDU ended without a final one. *)
(***************************************************************************)
AmsduMiss(b, seq, state) ==
  /\ b.PreviousAmsduState \in {"FIRST", "MIDDLE"}
  /\ seq # b.PreviousSN \/ state = "FIRST"

ForgottenLate(b) == b
Forgotten(b) == [b EXCEPT !.CurMpdu = Nothing]

amsdu_sanity(b, seq, state) ==
  IF ~AmsduMiss(b, seq, state) THEN b
  ELSE IF b.PreviousReorderCase = "STEP_ONE"
    THEN InOrder([Forgotten(b) EXCEPT
                    !.LastIndSeq = b.PreviousSN, !.age = 0,
                    !.pulled = @ \/ SEQ_SMALLER(b.PreviousSN, b.LastIndSeq)])
    ELSE Forgotten(b)

(***************************************************************************)
(* ba_enqueue_reordering_packet.  Without room -- the pool is empty, or    *)
(* the MSDU is EAPOL -- everything up to the MSDU goes up at once.         *)
(***************************************************************************)
Insert(b, p) ==
  LET i == Leading(b.list, LAMBDA j, s : SEQ_SMALLER(s, SN(p))) + 1
      duplicate == i <= Len(b.list) /\ b.list[i].Sequence = SN(p)
  IN IF duplicate THEN [b EXCEPT !.CurMpdu = Nothing]
     ELSE [b EXCEPT
             !.list = InsertAt(@, i, [Sequence |-> SN(p), pkts |-> <<p>>]),
             !.CurMpdu = SN(p)]

Longer(blk, p) == [blk EXCEPT !.pkts = Append(@, p)]
AppendToCur(b, p) ==
  LET here == {i \in DOMAIN b.list : b.list[i].Sequence = b.CurMpdu}
      list == [i \in DOMAIN b.list |->
                 IF i \in here THEN Longer(b.list[i], p) ELSE b.list[i]]
  IN [b EXCEPT !.list = list, !.spoilt = @ \/ here = {}]

Enqueue(b, p, room) ==
  CASE room /\ b.CurMpdu = Nothing -> Insert(b, p)
    [] room /\ b.CurMpdu # Nothing -> AppendToCur(b, p)
    [] OTHER -> InOrder(Announce([LeSeq(b, SN(p)) EXCEPT
                  !.LastIndSeq = SN(p), !.age = 0, !.CurMpdu = Nothing,
                  !.dry = @ \/ \E i \in DOMAIN b.list :
                                 Contains(b.list[i].pkts, p)], <<p>>))

(***************************************************************************)
(* ba_reorder                                                              *)
(***************************************************************************)
Case(b, c) == [b EXCEPT !.PreviousReorderCase = c]

Initialized(b, p) ==
  IF b.REC_BA_Status # "Initialization" THEN b
  ELSE [Refresh(b) EXCEPT
          !.LastIndSeq = Wrap(SN(p) - 1), !.age = 0,
          !.PreviousAmsduState = AmsduState(p), !.PreviousSN = SN(p),
          !.REC_BA_Status = "Established"]

InOrderStep(b, p) ==
  LET c == Announce(b, <<p>>) IN
  IF Complete(p) THEN InOrder([c EXCEPT !.LastIndSeq = SN(p), !.age = 0])
                 ELSE c

SurpassesNever(b, seq) == FALSE
Surpasses(b, seq) ==
  /\ seq \notin {b.LastIndSeq, Wrap(b.LastIndSeq + 1)}
  /\ ~SEQ_SMALLER(seq, b.LastIndSeq)
  /\ ~SEQ_SMALLER(seq, Wrap(b.LastIndSeq + BAWinSize + 1))

OldUnchecked(b, seq) == FALSE
Old(b, seq) == SEQ_SMALLER(seq, b.LastIndSeq)

\* The cases I to IV; the chip de-aggregates A-MSDUs (HW_DAMSDU), so a
\* repeated sequence number is dropped without looking further.
Place(b, p, room) ==
  CASE SN(p) = Wrap(b.LastIndSeq + 1) -> Case(InOrderStep(b, p), "STEP_ONE")
    [] SN(p) = b.LastIndSeq -> Case(b, "REPEAT")
    [] Old(b, SN(p)) -> Case(b, "OLDPKT")
    [] OTHER -> Case(Enqueue(b, p, room), "WITHIN")

\* Case V moves the window and goes back to the check.
Check(b, p, room) ==
  IF Surpasses(b, SN(p))
    THEN Place(Shift(b, Wrap(SN(p) - BAWinSize)), p, room)
    ELSE Place(b, p, room)

ba_reorder(b, p, room) ==
  LET sane == amsdu_sanity(b, SN(p), AmsduState(p))
      flush == Complete(p) \/ AmsduMiss(b, SN(p), AmsduState(p))
      kept == IF flush THEN FlushTimeout(sane) ELSE sane
      done == Check(Initialized(kept, p), p, room)
  IN [done EXCEPT
        !.PreviousAmsduState = AmsduState(p), !.PreviousSN = SN(p),
        !.CurMpdu = IF Complete(p) THEN Nothing ELSE @]

bar_process(b, seq) ==
  LET sane == amsdu_sanity(b, seq, "FIRST") IN
  IF SEQ_SMALLER(sane.LastIndSeq, seq)
    THEN Shift(sane, Wrap(seq - 1)) ELSE sane

(***************************************************************************)
(* Steps of the driver.                                                    *)
(***************************************************************************)
\* A frame tells of MPDU n.  It laps the recipient when n may be half the
\* sequence numbers ahead of LastIndSeq, which is at most BAWinSize behind
\* the newest MPDU; from there on SEQ_SMALLER calls it old.
Hear(n) ==
  heard' = [newest |-> IF n > heard.newest THEN n ELSE heard.newest,
            lapped |-> heard.lapped \/
              n >= heard.newest - BAWinSize + SeqSpace \div 2]

Following(p) == IF p.k = Msdus[p.n] THEN Nothing ELSE [p EXCEPT !.k = @ + 1]

Receive(p) ==
  /\ \/ air = p
     \/ air = Nothing /\ p.k = 1 /\ p.n \in wo .. wo + BAWinSize - 1
  /\ \E room \in BOOLEAN : ba' = ba_reorder(ba, p, room)
  /\ air' = Following(p)
  /\ Hear(p.n)
  /\ UNCHANGED <<due, wo, renewals>>

ReceiveBAR ==
  /\ air = Nothing
  /\ ba' = bar_process(ba, Wrap(StartSeq + wo - 1))
  /\ Hear(wo - 1)
  /\ UNCHANGED <<due, air, wo, renewals>>

\* ba_timeout_monitor, from the 100 ms periodic timer.
ba_timeout_monitor ==
  /\ ~due.check
  /\ ba.REC_BA_Status = "Established" /\ ba.list # <<>> /\ ba.age > 0
  /\ due' = [check |-> TRUE, bit |-> TRUE]
  /\ UNCHANGED <<ba, air, wo, heard, renewals>>

\* ba_timeout_flush, in the receive tasklet when ba_timeout_check is set.
CheckKept == [check |-> TRUE, bit |-> FALSE]
CheckDone == [check |-> FALSE, bit |-> FALSE]
ba_timeout_flush ==
  /\ due.check
  /\ ba' = IF due.bit THEN FlushTimeout(ba) ELSE ba
  /\ due' = CheckDone
  /\ UNCHANGED <<air, wo, heard, renewals>>

\* ba_rec_session_add for a session that exists; the peer starts over with
\* MPDUs it has not sent yet.
ba_rec_session_add ==
  /\ air = Nothing
  /\ renewals < MaxRenewals
  /\ wo + BAWinSize <= Len(Msdus)
  /\ wo' = wo + BAWinSize
  /\ ba' = [Refresh(ba) EXCEPT
              !.REC_BA_Status = "Initialization",
              !.LastIndSeq = Wrap(StartSeq + wo' - 2)]
  /\ heard' = [heard EXCEPT !.newest = wo' - 1]
  /\ renewals' = renewals + 1
  /\ UNCHANGED <<due, air>>

(***************************************************************************)
(* Steps of the peer and of time.                                          *)
(***************************************************************************)
LoseRest ==
  /\ air # Nothing
  /\ air' = Nothing
  /\ UNCHANGED <<ba, due, wo, heard, renewals>>

SlideWindow ==
  /\ wo < Len(Msdus)
  /\ wo' = wo + 1
  /\ UNCHANGED <<ba, due, air, heard, renewals>>

Tick ==
  /\ ba.age < 2
  /\ ba' = [ba EXCEPT !.age = @ + 1]
  /\ UNCHANGED <<due, air, wo, heard, renewals>>

-----------------------------------------------------------------------------
Next ==
  \/ \E n \in MPDUs : \E k \in 1 .. Msdus[n] : Receive([n |-> n, k |-> k])
  \/ ReceiveBAR \/ ba_timeout_monitor \/ ba_timeout_flush
  \/ ba_rec_session_add
  \/ LoseRest \/ SlideWindow \/ Tick

Spec == Init /\ [][Next]_vars

\* Time passes, the periodic timer fires and the tasklet it schedules runs,
\* whatever the peer does or leaves undone.
Timeouts == ba_timeout_monitor \/ ba_timeout_flush
FairSpec == Spec /\ WF_vars(Tick) /\ WF_vars(Timeouts)

-----------------------------------------------------------------------------
(***************************************************************************)
(* Properties.                                                             *)
(***************************************************************************)
States == {"MSDU", "FIRST", "MIDDLE", "FINAL"}
Cases == {"STEP_ONE", "REPEAT", "OLDPKT", "WITHIN"}
BlockOK(blk) ==
  blk.Sequence \in SeqNums /\ blk.pkts # <<>> /\ ToSet(blk.pkts) \subseteq MSDUs

\* Sequence numbers stay below SeqSpace however often they wrap.
TypeOK ==
  /\ ba.REC_BA_Status \in {"Initialization", "Established"}
  /\ ba.LastIndSeq \in SeqNums /\ ba.PreviousSN \in SeqNums
  /\ \A i \in DOMAIN ba.list : BlockOK(ba.list[i])
  /\ ba.CurMpdu \in SeqNums \cup {Nothing}
  /\ ba.age \in 0 .. 2
  /\ ba.PreviousAmsduState \in States /\ ba.PreviousReorderCase \in Cases
  /\ {ba.late, ba.pulled, ba.dry, ba.spoilt, due.check, due.bit} \subseteq BOOLEAN
  /\ air \in MSDUs \cup {Nothing}
  /\ wo \in MPDUs /\ renewals \in 0 .. MaxRenewals
  /\ heard.newest \in 0 .. Len(Msdus) /\ heard.lapped \in BOOLEAN

Offset(i) == (ba.list[i].Sequence - ba.LastIndSeq) % SeqSpace

\* The buffered blocks lie in the window behind LastIndSeq in ascending
\* order, also where amsdu_sanity pulled LastIndSeq back, so there are at
\* most BAWinSize of them -- what ba_enqueue_reordering_packet asserts.
WindowHeld ==
  /\ Len(ba.list) <= BAWinSize
  /\ \A i \in DOMAIN ba.list : Offset(i) \in 1 .. BAWinSize
  /\ \A i, j \in DOMAIN ba.list : i < j => Offset(i) < Offset(j)

\* No handler leaves a block behind whose turn it is: every path that moves
\* LastIndSeq also releases what now follows it.
NothingReadyWaits ==
  \A i \in DOMAIN ba.list : ba.list[i].Sequence # Wrap(ba.LastIndSeq + 1)

\* An MSDU is never appended to a block that a flush, a block-ack request or
\* a renewal between two MSDUs of one MPDU has given back to the pool.
NoWriteToFreed == ~ba.spoilt

\* MSDUs go up in the peer's order, each at most once, whatever is lost,
\* repeated or timed out -- unless amsdu_sanity pulled LastIndSeq back, or a
\* repeated MSDU found no room beside its buffered copy (ba_action.c:1880
\* leaves that case to TCP/IP), or the peer got half the sequence numbers
\* ahead unheard: its numbers then no longer tell new MPDUs from old ones.
InOrderUnlessPulled == ba.late => ba.pulled \/ ba.dry \/ heard.lapped

TimeoutRestarted ==
  ba' = [ba EXCEPT !.age = 0] /\ UNCHANGED <<due, air, wo, heard, renewals>>

\* What is buffered goes up after a while even if the peer falls silent or
\* only repeats itself, because the timeouts catch every hole: the buffer is
\* empty again and again.  The one way to hold it back is to repeat
\* block-ack requests for the missing MPDU, with which bar_process restarts
\* the timeout although nothing goes up.
BufferEmpties == []<><<TimeoutRestarted>>_vars \/ []<>(ba.list = <<>>)

\* ba_action.c:2021 and :2046 say of cases II and III "Drop Duplicated
\* Packet" and "Drop Old Received Packet": what went up does not go up again
\* and nothing older follows it.
OldNeverGoesUp == ba.late => ba.dry
=============================================================================
