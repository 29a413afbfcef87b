--------------------------- MODULE McuCmd_proofs ---------------------------
(***************************************************************************)
(* Commands to the MCU, for every set of commands and every range of       *)
(* sequence numbers: a message is in one place at most, no freed message   *)
(* is in use, ackq holds messages somebody waits for, a command is         *)
(* completed by its own answer, what a call returns tells whether it was   *)
(* answered, the search for a number ends, and the end leaves nothing      *)
(* behind -- each unless the command suffered what McuCmd names.           *)
(***************************************************************************)
EXTENDS McuCmd, Lemmas

USE McuAssumption

-----------------------------------------------------------------------------
(***************************************************************************)
(* Types.                                                                  *)
(***************************************************************************)
LEMMA NextSeqFacts ==
  ASSUME FreeSeqs # {}, NEW n \in 0 .. SeqMax
  PROVE  NextSeq(n) \in Numbers /\ NextSeq(n) \notin UsedSeqs
<1> DEFINE A == {s \in FreeSeqs : s > n}
<1>1. FreeSeqs \in SUBSET Nat /\ A \in SUBSET Nat
  BY DEF FreeSeqs, Numbers
<1>2. CASE A # {}
  <2>1. Min(A) \in A
    BY <1>1, <1>2, MinIn
  <2> QED
    BY <2>1, <1>2 DEF NextSeq, FreeSeqs
<1>3. CASE A = {}
  <2>1. Min(FreeSeqs) \in FreeSeqs
    BY <1>1, MinIn
  <2> QED
    BY <2>1, <1>3 DEF NextSeq, FreeSeqs
<1> QED
  BY <1>2, <1>3

LEMMA UnlinkedFacts ==
  ASSUME NEW q \in Seq(Cmds), NEW m \in Cmds
  PROVE  /\ Unlinked(q, m) \in Seq(Cmds)
         /\ \A x : x # m => (In(x, Unlinked(q, m)) <=> In(x, q))
         /\ In(m, Unlinked(q, m)) => In(m, q)
         /\ \A x : Once(x, q) => Once(x, Unlinked(q, m))
         /\ Once(m, q) => ~In(m, Unlinked(q, m))
<1>1. CASE ~In(m, q)
  BY <1>1 DEF Unlinked
<1>2. CASE In(m, q)
  <2> DEFINE k == CHOOSE i \in DOMAIN q : q[i] = m
  <2>1. k \in DOMAIN q /\ q[k] = m
    BY <1>2 DEF In, ToSet
  <2>2. Unlinked(q, m) = RemoveAt(q, k)
    BY <1>2 DEF Unlinked
  <2> HIDE DEF k
  <2>3. \A x : Once(x, q) <=> Single(q, x)
    BY DEF Once, Single
  <2>4. \A x : Once(x, RemoveAt(q, k)) <=> Single(RemoveAt(q, k), x)
    BY DEF Once, Single
  <2> QED
    BY <2>1, <2>2, <2>3, <2>4, <1>2, RemoveAtFacts DEF In
<1> QED
  BY <1>1, <1>2

LEMMA AppendIn ==
  ASSUME NEW q \in Seq(Cmds), NEW m \in Cmds
  PROVE  /\ Append(q, m) \in Seq(Cmds)
         /\ \A x : In(x, Append(q, m)) <=> In(x, q) \/ x = m
         /\ \A x : Once(x, q) /\ (x = m => ~In(x, q)) => Once(x, Append(q, m))
<1>1. \A x : Once(x, q) <=> Single(q, x)
  BY DEF Once, Single
<1>2. \A x : Once(x, Append(q, m)) <=> Single(Append(q, m), x)
  BY DEF Once, Single
<1> QED
  BY <1>1, <1>2, AppendFacts DEF In

LEMMA TailIn ==
  ASSUME NEW q \in Seq(Cmds), q # <<>>
  PROVE  /\ Head(q) \in Cmds /\ Tail(q) \in Seq(Cmds)
         /\ \A x : In(x, q) <=> In(x, Tail(q)) \/ x = Head(q)
         /\ \A x : Once(x, q) => Once(x, Tail(q))
         /\ Once(Head(q), q) => ~In(Head(q), Tail(q))
<1>1. \A x : Once(x, q) <=> Single(q, x)
  BY DEF Once, Single
<1>2. \A x : Once(x, Tail(q)) <=> Single(Tail(q), x)
  BY DEF Once, Single
<1> QED
  BY <1>1, <1>2, TailFacts DEF In

LEMMA EmptyIn == <<>> \in Seq(Cmds) /\ \A x : ~In(x, <<>>) /\ Once(x, <<>>)
BY EmptyFacts DEF In, Once, Single

\* Where a call holds a message, which one has the ring, and what its
\* commands are.
HoldOK ==
  \A c \in Cmds :
    call[c].hold # NoCmd <=> call[c].pc \in {"check", "spin", "kick", "post"}
RingOK ==
  /\ \A c, d \in Cmds : call[c].pc = "ring" /\ call[d].pc = "ring" => c = d
  /\ ring # NoCmd <=> \E c \in Cmds : call[c].pc = "ring"
SyncOK ==
  /\ wire \subseteq Sync
  /\ \A m \in Cmds : /\ In(m, ackq) => m \in Sync
                     /\ call[m].pc \in {"wait", "finish"} => m \in Sync

MsgTypeFacts == \A r \in MsgType :
  /\ \A s \in States : [r EXCEPT !.state = s] \in MsgType
  /\ \A n \in 0 .. SeqMax : [r EXCEPT !.seq = n] \in MsgType
  /\ [r EXCEPT !.done = TRUE] \in MsgType
  /\ \A s \in {"SUCCESS", "FAILURE"} : Answered(r, s) \in MsgType
  /\ [r EXCEPT !.mem = "live"] \in MsgType
  /\ \A b \in BOOLEAN : [r EXCEPT !.mem = "freed", !.done = b] \in MsgType
LEMMA MsgTypes == MsgTypeFacts
BY DEF MsgTypeFacts, MsgType, Answered

LEMMA FreedType ==
  ASSUME msg \in [Cmds -> MsgType], NEW m \in Cmds
  PROVE  Freed(m) \in MsgType
<1>1. msg[m] \in MsgType /\ msg[m].done \in BOOLEAN
  BY DEF MsgType
<1> QED
  BY <1>1, MsgTypes DEF MsgTypeFacts, Freed

LEMMA TypeInit == Init => TypeOK /\ HoldOK /\ RingOK /\ SyncOK
<1> SUFFICES ASSUME Init PROVE TypeOK /\ HoldOK /\ RingOK /\ SyncOK
  OBVIOUS
<1>1. At("idle", NoCmd) \in CallType
  BY DEF At, CallType, Steps
<1>2. \A c \in Cmds : call[c] = At("idle", NoCmd)
  BY DEF Init
<1>3. call \in [Cmds -> CallType]
  BY <1>1 DEF Init
<1>4. \A c \in Cmds : call[c].hold = NoCmd /\ call[c].pc = "idle"
  BY <1>2 DEF At
<1>5. msg \in [Cmds -> MsgType]
  BY DEF Init, MsgType, States
<1>6. TypeOK
  BY <1>3, <1>5, EmptyIn DEF Init, TypeOK, CtlType, Exits, Harms
<1>7. HoldOK /\ RingOK /\ SyncOK
  BY <1>4, EmptyIn DEF Init, HoldOK, RingOK, SyncOK
<1> QED
  BY <1>6, <1>7

LEMMA HarmType ==
  ASSUME harm \in [Cmds -> SUBSET Harms], NEW S, NEW r \in Harms
  PROVE  Harm(S, r) \in [Cmds -> SUBSET Harms]
BY DEF Harm

TInv == TypeOK /\ HoldOK /\ RingOK /\ SyncOK

\* What a step of call c makes of its record; the other calls stay.
Others(c) == \A d \in Cmds \ {c} : call'[d] = call[d]
Moved(c, p, h) ==
  call' \in [Cmds -> CallType] /\ Others(c)
  /\ call'[c].pc = p /\ call'[c].hold = h

LEMMA GotoMoved ==
  ASSUME call \in [Cmds -> CallType], NEW c \in Cmds, NEW p \in Steps,
         Goto(c, p)
  PROVE  Moved(c, p, call[c].hold) /\ call'[c].ret = call[c].ret
<1> DEFINE r == [call[c] EXCEPT !.pc = p]
<1>1. r \in CallType /\ r.pc = p /\ r.hold = call[c].hold /\ r.ret = call[c].ret
  BY DEF CallType
<1>2. call' = [call EXCEPT ![c] = r]
  BY DEF Goto
<1> HIDE DEF r
<1> QED
  BY <1>1, <1>2 DEF Moved, Others

LEMMA AtMoved ==
  ASSUME call \in [Cmds -> CallType], NEW c \in Cmds, NEW p \in Steps,
         NEW h \in Cmds \cup {NoCmd}, call' = [call EXCEPT ![c] = At(p, h)]
  PROVE  Moved(c, p, h) /\ call'[c].ret = "SUCCESS"
<1>1. /\ At(p, h) \in CallType
      /\ At(p, h).pc = p /\ At(p, h).hold = h /\ At(p, h).ret = "SUCCESS"
  BY DEF CallType, At
<1> QED
  BY <1>1 DEF Moved, Others

LEMMA RetMoved ==
  ASSUME call \in [Cmds -> CallType], NEW c \in Cmds, NEW p \in Steps,
         NEW x \in {"SUCCESS", "FAILURE"},
         call' = [call EXCEPT ![c] = [@ EXCEPT !.pc = p, !.ret = x]]
  PROVE  Moved(c, p, call[c].hold) /\ call'[c].ret = x
<1> DEFINE r == [call[c] EXCEPT !.pc = p, !.ret = x]
<1>1. r \in CallType /\ r.pc = p /\ r.hold = call[c].hold /\ r.ret = x
  BY DEF CallType
<1>2. call' = [call EXCEPT ![c] = r]
  OBVIOUS
<1> HIDE DEF r
<1> QED
  BY <1>1, <1>2 DEF Moved, Others

\* Both kinds of calls stay as they are: a call that holds a message is at a
\* step that says so, and only calls of Sync wait.
LEMMA MovedHold ==
  ASSUME HoldOK, NEW c \in Cmds, NEW p \in Steps, NEW h, Moved(c, p, h),
         h # NoCmd <=> p \in {"check", "spin", "kick", "post"}
  PROVE  HoldOK'
BY DEF HoldOK, Moved, Others

LEMMA MovedSync ==
  ASSUME SyncOK, NEW c \in Cmds, NEW p \in Steps, NEW h, Moved(c, p, h),
         p \in {"wait", "finish"} => c \in Sync,
         wire' \subseteq Sync, \A m \in Cmds : In(m, ackq') => m \in Sync
  PROVE  SyncOK'
BY DEF SyncOK, Moved, Others

LEMMA HeldType ==
  ASSUME TypeOK, HoldOK, NEW c \in Cmds,
         call[c].pc \in {"check", "spin", "kick", "post"}
  PROVE  call[c].hold \in Cmds
BY DEF TypeOK, HoldOK, CallType

StepNames == Steps = {"idle", "queue", "loop", "check", "spin", "kick", "post",
                      "ring", "wait", "finish", "returned"}
LEMMA NamesOfSteps == StepNames
BY DEF StepNames, Steps

\* A step of call c that only moves it keeps the types, if it does so for
\* the other variables.
LEMMA MoveTypes ==
  ASSUME TInv, NEW c \in Cmds, NEW p \in Steps, NEW h, Moved(c, p, h),
         h # NoCmd <=> p \in {"check", "spin", "kick", "post"},
         p \in {"wait", "finish"} => c \in Sync,
         call[c].pc # "ring", p # "ring",
         wire' \subseteq Sync,
         ackq' = ackq \/ \A m \in Cmds : In(m, ackq') => m \in Sync,
         msg' \in [Cmds -> MsgType], harm' \in [Cmds -> SUBSET Harms],
         txq' \in Seq(Cmds), ackq' \in Seq(Cmds), tx_doneq' \in Seq(Cmds),
         ctl' \in CtlType, UNCHANGED <<ring, exit, took>>
  PROVE  TInv'
<1>1. HoldOK' /\ RingOK'
  BY MovedHold DEF TInv, RingOK, Moved, Others
<1>2. SyncOK'
  <2>1. \A m \in Cmds : In(m, ackq') => m \in Sync
    BY DEF TInv, SyncOK
  <2> QED
    BY <2>1, MovedSync DEF TInv
<1>3. TypeOK'
  BY DEF TInv, TypeOK, Moved
<1> QED
  BY <1>1, <1>2, <1>3 DEF TInv

LEMMA BeginTypes ==
  ASSUME TInv, NEW c \in Cmds, Refuse(c) \/ Accept(c) \/ Queue(c)
  PROVE  TInv'
<1>0. call[c].pc \in {"idle", "queue"} => call[c].hold = NoCmd
  BY DEF TInv, HoldOK
<1>1. CASE Refuse(c)
  <2>1. Moved(c, "returned", NoCmd)
    <3>1. call' = [call EXCEPT ![c] = [@ EXCEPT !.pc = "returned",
                                                !.ret = "FAILURE"]]
      BY <1>1 DEF Refuse
    <3>2. call \in [Cmds -> CallType] /\ "returned" \in Steps
          /\ call[c].hold = NoCmd
      BY <1>0, <1>1, NamesOfSteps DEF Refuse, TInv, TypeOK, StepNames
    <3> QED
      BY <3>1, <3>2, RetMoved
  <2>2. msg' \in [Cmds -> MsgType]
    BY <1>1, FreedType DEF Refuse, AndesFreeCmdMsg, TInv, TypeOK
  <2>3. harm' \in [Cmds -> SUBSET Harms]
    BY <1>1, HarmType DEF Refuse, TInv, TypeOK, Harms
  <2> QED
    BY <1>1, <2>1, <2>2, <2>3, MoveTypes, NamesOfSteps
       DEF Refuse, TInv, TypeOK, SyncOK, StepNames
<1>2. CASE Accept(c)
  <2>1. Moved(c, "queue", NoCmd)
    BY <1>0, <1>2, GotoMoved, NamesOfSteps DEF Accept, TInv, TypeOK, StepNames
  <2>2. msg' \in [Cmds -> MsgType]
    BY <1>2, MsgTypes DEF Accept, TInv, TypeOK, MsgTypeFacts
  <2> QED
    BY <1>2, <2>1, <2>2, MoveTypes, NamesOfSteps
       DEF Accept, TInv, TypeOK, SyncOK, StepNames
<1>3. CASE Queue(c)
  <2>1. Moved(c, "loop", NoCmd)
    BY <1>0, <1>3, GotoMoved, NamesOfSteps DEF Queue, TInv, TypeOK, StepNames
  <2>2. msg' \in [Cmds -> MsgType]
    BY <1>3, MsgTypes DEF Queue, Queued, TInv, TypeOK, MsgTypeFacts, States
  <2>3. txq' \in Seq(Cmds)
    BY <1>3, AppendIn DEF Queue, TInv, TypeOK
  <2> QED
    BY <1>3, <2>1, <2>2, <2>3, MoveTypes, NamesOfSteps
       DEF Queue, TInv, TypeOK, SyncOK, StepNames
<1> QED
  BY <1>1, <1>2, <1>3

LEMMA LoopTypes ==
  ASSUME TInv, NEW c \in Cmds, Dequeue(c) \/ Drop(c) \/ NoSeq(c)
  PROVE  TInv'
<1>1. CASE Dequeue(c)
  <2>0. call[c].hold = NoCmd
    BY <1>1 DEF Dequeue, TInv, HoldOK
  <2>1. CASE txq = <<>>
    <3>1. PICK p \in Steps : Moved(c, p, NoCmd) /\ p \in {"wait", "returned"}
                            /\ (p = "wait" => c \in Sync)
      BY <1>1, <2>0, <2>1, GotoMoved, NamesOfSteps
         DEF Dequeue, LoopSucceeds, TInv, TypeOK, StepNames
    <3>2. ctl' \in CtlType
      BY <1>1, <2>1 DEF Dequeue, AndesBhSchedule, TInv, TypeOK, CtlType
    <3> QED
      BY <1>1, <2>1, <3>1, <3>2, MoveTypes DEF Dequeue, TInv, TypeOK, SyncOK
  <2>2. CASE txq # <<>>
    <3>1. Head(txq) \in Cmds /\ Tail(txq) \in Seq(Cmds)
      BY <2>2, TailIn DEF TInv, TypeOK
    <3>2. Moved(c, "check", Head(txq))
      BY <1>1, <2>2, <3>1, AtMoved, NamesOfSteps
         DEF Dequeue, TInv, TypeOK, StepNames
    <3> QED
      BY <1>1, <2>2, <3>1, <3>2, MoveTypes, NamesOfSteps
         DEF Dequeue, TInv, TypeOK, SyncOK, StepNames
  <2> QED
    BY <2>1, <2>2
<1>2. CASE Drop(c)
  <2>1. call[c].hold \in Cmds
    BY <1>2, HeldType DEF Drop, TInv
  <2>2. Moved(c, "loop", NoCmd)
    BY <1>2, AtMoved, NamesOfSteps DEF Drop, GoOn, TInv, TypeOK, StepNames
  <2>3. msg' \in [Cmds -> MsgType]
    BY <1>2, <2>1, FreedType DEF Drop, AndesFreeCmdMsg, TInv, TypeOK
  <2> QED
    BY <1>2, <2>2, <2>3, MoveTypes, NamesOfSteps
       DEF Drop, TInv, TypeOK, SyncOK, StepNames
<1>3. CASE NoSeq(c)
  <2>1. call[c].hold # NoCmd
    BY <1>3, HeldType DEF NoSeq, TInv
  <2>2. Moved(c, "kick", call[c].hold)
    BY <1>3, GotoMoved, NamesOfSteps DEF NoSeq, TInv, TypeOK, StepNames
  <2> QED
    BY <1>3, <2>1, <2>2, MoveTypes, NamesOfSteps
       DEF NoSeq, TInv, TypeOK, SyncOK, StepNames
<1> QED
  BY <1>1, <1>2, <1>3

LEMMA SeqTypes ==
  ASSUME TInv, NEW c \in Cmds, AndesGetCmdMsgSeq(c)
  PROVE  TInv'
<1> DEFINE h == call[c].hold
           s == NextSeq(ctl.cmd_seq)
<1>1. h \in Cmds
  BY HeldType DEF AndesGetCmdMsgSeq, TInv
<1>2. PICK p \in {"spin", "kick"} : Moved(c, p, h)
  BY GotoMoved, NamesOfSteps DEF AndesGetCmdMsgSeq, TInv, TypeOK, StepNames
<1>3. /\ msg' \in [Cmds -> MsgType] /\ ctl' \in CtlType
      /\ harm' \in [Cmds -> SUBSET Harms]
  <2>1. CASE FreeSeqs = {}
    BY <2>1 DEF AndesGetCmdMsgSeq, TInv, TypeOK
  <2>2. CASE FreeSeqs # {}
    <3>1. s \in 0 .. SeqMax
      BY <2>2, NextSeqFacts DEF TInv, TypeOK, CtlType, Numbers
    <3>2. msg' = [msg EXCEPT ![h].seq = s] /\ ctl' = [ctl EXCEPT !.cmd_seq = s]
      BY <2>2 DEF AndesGetCmdMsgSeq
    <3>3. harm' \in [Cmds -> SUBSET Harms]
      BY <2>2, HarmType DEF AndesGetCmdMsgSeq, TInv, TypeOK, Harms
    <3> HIDE DEF s
    <3> QED
      BY <1>1, <3>1, <3>2, <3>3, MsgTypes
         DEF TInv, TypeOK, CtlType, MsgTypeFacts
  <2> QED
    BY <2>1, <2>2
<1>4. /\ UNCHANGED <<txq, ackq, tx_doneq, ring, wire, exit, took>>
      /\ call[c].pc = "check"
  BY DEF AndesGetCmdMsgSeq
<1> HIDE DEF h
<1> QED
  BY <1>1, <1>2, <1>3, <1>4, MoveTypes, NamesOfSteps
     DEF TInv, TypeOK, SyncOK, StepNames

\* What Post and Ring do.
LEMMA PostFacts ==
  ASSUME TInv, NEW c \in Cmds, Post(c), NEW h, h = call[c].hold
  PROVE  /\ h \in Cmds /\ (h \in Sync => AckqLockFree)
         /\ ackq' = IF h \in Sync THEN Append(ackq, h) ELSE ackq
         /\ tx_doneq' = IF h \in Sync THEN tx_doneq ELSE Append(tx_doneq, h)
         /\ msg' = Queued(h, IF h \in Sync THEN "wait_ack" ELSE "tx_done")
         /\ ring = NoCmd /\ ring' = h /\ Moved(c, "ring", NoCmd)
         /\ UNCHANGED <<txq, ctl, wire, exit, took, harm>>
<1>1. h \in Cmds
  BY HeldType DEF Post, TInv
<1>2. Moved(c, "ring", NoCmd)
  BY AtMoved, NamesOfSteps DEF Post, TInv, TypeOK, StepNames
<1> QED
  BY <1>1, <1>2 DEF Post

LEMMA RingFacts ==
  ASSUME TInv, NEW c \in Cmds, Ring(c)
  PROVE  /\ ring \in Cmds /\ ring' = NoCmd
         /\ wire' = IF ctl.init /\ ring \in Sync THEN wire \cup {ring} ELSE wire
         /\ \/ ctl.init /\ Moved(c, "loop", NoCmd) /\ harm' = harm
            \/ ~ctl.init /\ Moved(c, "returned", NoCmd)
               /\ harm' = [Harm({c}, "unsent") EXCEPT ![ring] = @ \cup {"stray"}]
         /\ call[c].pc = "ring" /\ call[c].hold = NoCmd
         /\ UNCHANGED <<msg, txq, ackq, tx_doneq, ctl, exit, took>>
<1>1. ring \in Cmds /\ call[c].pc = "ring" /\ call[c].hold = NoCmd
  BY DEF Ring, TInv, RingOK, HoldOK, TypeOK
<1>2. CASE ctl.init
  <2>1. Moved(c, "loop", NoCmd)
    BY <1>2, AtMoved, NamesOfSteps DEF Ring, GoOn, TInv, TypeOK, StepNames
  <2> QED
    BY <1>1, <1>2, <2>1 DEF Ring
<1>3. CASE ~ctl.init
  <2>1. Moved(c, "returned", NoCmd)
    BY <1>3, AtMoved, NamesOfSteps DEF Ring, LoopFails, TInv, TypeOK, StepNames
  <2> QED
    BY <1>1, <1>3, <2>1 DEF Ring
<1> QED
  BY <1>2, <1>3

LEMMA RingTypes ==
  ASSUME TInv, NEW c \in Cmds, Post(c) \/ Ring(c)
  PROVE  TInv'
<1>1. CASE Post(c)
  <2> DEFINE h == call[c].hold
  <2>1. /\ h \in Cmds
        /\ ackq' = IF h \in Sync THEN Append(ackq, h) ELSE ackq
        /\ tx_doneq' = IF h \in Sync THEN tx_doneq ELSE Append(tx_doneq, h)
        /\ msg' = Queued(h, IF h \in Sync THEN "wait_ack" ELSE "tx_done")
        /\ ring = NoCmd /\ ring' = h /\ Moved(c, "ring", NoCmd)
        /\ UNCHANGED <<txq, ctl, wire, exit, took, harm>>
    BY <1>1, PostFacts
  <2> HIDE DEF h
  <2>2. msg' \in [Cmds -> MsgType]
    BY <2>1, MsgTypes DEF Queued, TInv, TypeOK, MsgTypeFacts, States
  <2>3. ackq' \in Seq(Cmds) /\ tx_doneq' \in Seq(Cmds)
    BY <2>1, AppendIn DEF TInv, TypeOK
  <2>4. \A m \in Cmds : In(m, ackq') => m \in Sync
    BY <2>1, AppendIn DEF TInv, SyncOK, TypeOK
  <2>5. TypeOK'
    BY <2>1, <2>2, <2>3 DEF TInv, TypeOK, Moved
  <2>6. HoldOK' /\ SyncOK'
    BY <2>1, <2>4, MovedHold, MovedSync, NamesOfSteps
       DEF TInv, SyncOK, StepNames
  <2>7. RingOK'
    BY <2>1, McuAssumption DEF TInv, RingOK, Moved, Others
  <2> QED
    BY <2>5, <2>6, <2>7 DEF TInv
<1>2. CASE Ring(c)
  <2>1. /\ ring \in Cmds /\ ring' = NoCmd /\ call[c].pc = "ring"
        /\ wire' = IF ctl.init /\ ring \in Sync THEN wire \cup {ring} ELSE wire
        /\ \/ Moved(c, "loop", NoCmd) /\ harm' = harm
           \/ Moved(c, "returned", NoCmd)
              /\ harm' = [Harm({c}, "unsent") EXCEPT ![ring] = @ \cup {"stray"}]
        /\ UNCHANGED <<msg, txq, ackq, tx_doneq, ctl, exit, took>>
    BY <1>2, RingFacts
  <2>2. harm' \in [Cmds -> SUBSET Harms]
    <3> DEFINE g == Harm({c}, "unsent")
    <3>1. g \in [Cmds -> SUBSET Harms] /\ "stray" \in Harms
      BY HarmType DEF TInv, TypeOK, Harms
    <3>2. harm \in [Cmds -> SUBSET Harms]
      BY DEF TInv, TypeOK
    <3>3. harm' = harm \/ harm' = [g EXCEPT ![ring] = @ \cup {"stray"}]
      BY <2>1
    <3> HIDE DEF g
    <3> QED
      BY <2>1, <3>1, <3>2, <3>3
  <2>3. PICK p \in {"loop", "returned"} : Moved(c, p, NoCmd)
    BY <2>1
  <2>4. wire' \subseteq Sync
    BY <2>1 DEF TInv, SyncOK
  <2>5. TypeOK'
    BY <2>1, <2>2, <2>3, <2>4 DEF TInv, TypeOK, Moved
  <2>6. HoldOK' /\ SyncOK'
    BY <2>1, <2>3, <2>4, MovedHold, MovedSync, NamesOfSteps
       DEF TInv, SyncOK, StepNames
  <2>7. RingOK'
    BY <2>1, <2>3 DEF TInv, RingOK, Moved, Others
  <2> QED
    BY <2>5, <2>6, <2>7 DEF TInv
<1> QED
  BY <1>1, <1>2

LEMMA KickTypes ==
  ASSUME TInv, NEW c \in Cmds, KickFails(c) \/ KickPasses(c)
  PROVE  TInv'
<1> DEFINE h == call[c].hold
<1>0. h \in Cmds
  BY HeldType DEF KickFails, KickPasses, TInv
<1>a. \A r \in Harms : [Harm({c}, "unsent") EXCEPT ![h] = @ \cup {r}]
                           \in [Cmds -> SUBSET Harms]
      /\ Harm({c}, "unsent") \in [Cmds -> SUBSET Harms]
  <2>1. Harm({c}, "unsent") \in [Cmds -> SUBSET Harms]
    BY HarmType DEF TInv, TypeOK, Harms
  <2> QED
    BY <1>0, <2>1
<1>1. CASE KickFails(c)
  <2>1. harm' \in [Cmds -> SUBSET Harms]
    <3>1. harm' = [Harm({c}, "unsent") EXCEPT
                     ![h] = @ \cup {r \in {"foreign"} : h # c}]
      BY <1>1 DEF KickFails
    <3> HIDE DEF h
    <3> QED
      BY <3>1, <1>0, <1>a DEF Harms
  <2>2. ctl' \in CtlType
    BY <1>1 DEF KickFails, AndesBhSchedule, TInv, TypeOK, CtlType
  <2>3. Moved(c, "returned", NoCmd)
    BY <1>1, AtMoved, NamesOfSteps
       DEF KickFails, LoopFails, TInv, TypeOK, StepNames
  <2>4. msg' \in [Cmds -> MsgType]
    BY <1>1, <1>0, FreedType DEF KickFails, AndesFreeCmdMsg, TInv, TypeOK
  <2> QED
    BY <1>1, <2>1, <2>2, <2>3, <2>4, MoveTypes, NamesOfSteps
       DEF KickFails, TInv, TypeOK, SyncOK, StepNames
<1>2. CASE KickPasses(c)
  <2>1. Moved(c, "post", h)
    BY <1>2, GotoMoved, NamesOfSteps DEF KickPasses, TInv, TypeOK, StepNames
  <2> QED
    BY <1>0, <1>2, <2>1, MoveTypes, NamesOfSteps
       DEF KickPasses, TInv, TypeOK, SyncOK, StepNames
<1> QED
  BY <1>1, <1>2

LEMMA FinishMoved ==
  ASSUME TInv, NEW m \in Cmds, Finish(m)
  PROVE  Moved(m, "returned", call[m].hold) /\ call'[m].ret = FinalRet(m)
<1>1. FinalRet(m) \in {"SUCCESS", "FAILURE"}
  BY DEF FinalRet, TInv, TypeOK, MsgType, CallType
<1>2. call' = [call EXCEPT ![m] = [@ EXCEPT !.pc = "returned",
                                          !.ret = FinalRet(m)]]
  BY DEF Finish
<1> QED
  BY <1>1, <1>2, RetMoved, NamesOfSteps DEF TInv, TypeOK, StepNames

LEMMA WaitTypes ==
  ASSUME TInv, NEW m \in Cmds, WokenAtExit(m) \/ Woken(m) \/ Finish(m)
  PROVE  TInv'
<1>0. call[m].hold = NoCmd /\ m \in Sync
  BY DEF TInv, HoldOK, SyncOK, WokenAtExit, Woken, Finish
<1>1. CASE WokenAtExit(m)
  <2>1. harm' \in [Cmds -> SUBSET Harms]
    BY <1>1, HarmType DEF WokenAtExit, TInv, TypeOK, Harms
  <2>2. Moved(m, "returned", NoCmd)
    BY <1>0, <1>1, GotoMoved, NamesOfSteps
       DEF WokenAtExit, TInv, TypeOK, StepNames
  <2>3. msg' \in [Cmds -> MsgType]
    BY <1>1, FreedType DEF WokenAtExit, AndesFreeCmdMsg, TInv, TypeOK
  <2> QED
    BY <1>1, <2>1, <2>2, <2>3, MoveTypes, NamesOfSteps
       DEF WokenAtExit, TInv, TypeOK, SyncOK, StepNames
<1>2. CASE Woken(m)
  <2>1. harm' \in [Cmds -> SUBSET Harms]
    BY <1>2, HarmType DEF Woken, TInv, TypeOK, Harms
  <2>2. ackq' = ackq \/ ackq' = Unlinked(ackq, m)
    BY <1>2 DEF Woken
  <2>3. /\ ackq' \in Seq(Cmds)
        /\ ackq' = ackq \/ \A x \in Cmds : In(x, ackq') => x \in Sync
    BY <1>0, <2>2, UnlinkedFacts DEF TInv, TypeOK, SyncOK
  <2>4. Moved(m, "finish", NoCmd)
    <3>1. PICK r \in {"SUCCESS", "FAILURE"} :
            call' = [call EXCEPT ![m] = [@ EXCEPT !.pc = "finish", !.ret = r]]
      BY <1>2 DEF Woken, Outcomes
    <3> QED
      BY <1>0, <3>1, RetMoved, NamesOfSteps DEF TInv, TypeOK, StepNames
  <2>5. /\ UNCHANGED <<msg, txq, tx_doneq, ring, ctl, wire, exit, took>>
        /\ call[m].pc = "wait"
    BY <1>2 DEF Woken
  <2> QED
    BY <1>0, <2>1, <2>3, <2>4, <2>5, MoveTypes, NamesOfSteps
       DEF TInv, TypeOK, SyncOK, StepNames
<1>3. CASE Finish(m)
  <2>1. harm' \in [Cmds -> SUBSET Harms]
    BY <1>3, HarmType DEF Finish, TInv, TypeOK, Harms
  <2>2. Moved(m, "returned", NoCmd)
    BY <1>0, <1>3, FinishMoved
  <2>3. msg' \in [Cmds -> MsgType] /\ tx_doneq' \in Seq(Cmds)
    BY <1>3, MsgTypes, AppendIn
       DEF Finish, Queued, TInv, TypeOK, MsgTypeFacts, States
  <2> QED
    BY <1>3, <2>1, <2>2, <2>3, MoveTypes, NamesOfSteps
       DEF Finish, TInv, TypeOK, SyncOK, StepNames
<1> QED
  BY <1>1, <1>2, <1>3

\* The receiver of an answer is a command of ackq with its number.
LEMMA ReceiverFacts ==
  ASSUME TypeOK, NEW m \in Cmds, Matching(m) # {}
  PROVE  /\ Receiver(m) \in Cmds /\ In(Receiver(m), ackq)
         /\ msg[Receiver(m)].seq = msg[m].seq
<1>1. Matching(m) \in SUBSET Nat
  BY DEF Matching, TypeOK
<1>2. \E i \in Matching(m) : \A j \in Matching(m) : i <= j
  BY <1>1, Smallest
<1>3. PICK i \in Matching(m) : Receiver(m) = ackq[i]
  BY <1>2 DEF Receiver
<1> QED
  BY <1>3 DEF Matching, In, ToSet, TypeOK

LEMMA TaskletTypes ==
  ASSUME TInv,
         (\E m \in Cmds : AndesMTRxEventHandler(m)) \/ AndesCmdMsgBh
  PROVE  TInv'
<1> USE DEF TInv
<1>1. ASSUME NEW m \in Cmds, AndesMTRxEventHandler(m)
      PROVE  TInv'
  <2>1. HoldOK' /\ RingOK' /\ SyncOK'
    <3>1. UNCHANGED <<call, ring, ackq>> /\ wire' \subseteq wire
      BY <1>1 DEF AndesMTRxEventHandler
    <3> QED
      BY <3>1 DEF HoldOK, RingOK, SyncOK, In
  <2>2. msg' \in [Cmds -> MsgType] /\ took' \in [Cmds -> Cmds \cup {NoCmd}]
    <3> DEFINE r == Receiver(m)
    <3>1. CASE ~UNCHANGED <<msg, took>>
      <4>0. Matching(m) # {}
        BY <1>1, <3>1 DEF AndesMTRxEventHandler
      <4>1. r \in Cmds
        BY <4>0, ReceiverFacts
      <4>2. PICK x \in MsgType : msg' = [msg EXCEPT ![r] = x]
        <5>1. PICK s \in Statuses(r) : msg' = [msg EXCEPT ![r] = Answered(@, s)]
          BY <1>1, <3>1 DEF AndesMTRxEventHandler
        <5>2. msg[r] \in MsgType /\ s \in {"SUCCESS", "FAILURE"}
          BY <4>1, <5>1 DEF Statuses, TypeOK, MsgType
        <5>3. Answered(msg[r], s) \in MsgType
          BY <5>2, MsgTypes DEF MsgTypeFacts
        <5> QED
          BY <4>1, <5>1, <5>3
      <4>3. took' = [took EXCEPT ![r] = m]
        BY <1>1, <3>1 DEF AndesMTRxEventHandler
      <4> HIDE DEF r
      <4> QED
        BY <4>1, <4>2, <4>3 DEF TypeOK
    <3> QED
      BY <1>1, <3>1 DEF AndesMTRxEventHandler, TypeOK
  <2> QED
    BY <1>1, <2>1, <2>2 DEF AndesMTRxEventHandler, TypeOK
<1>2. CASE AndesCmdMsgBh
  <2>1. HoldOK' /\ RingOK' /\ SyncOK'
    <3>1. UNCHANGED <<call, ring, ackq, wire>>
      BY <1>2 DEF AndesCmdMsgBh
    <3> QED
      BY <3>1 DEF HoldOK, RingOK, SyncOK, In
  <2>2. TypeOK'
    <3>1. CASE tx_doneq # <<>>
      <4> DEFINE h == Head(tx_doneq)
      <4>1. h \in Cmds /\ Tail(tx_doneq) \in Seq(Cmds)
        BY <3>1, TailIn DEF TypeOK
      <4>2. Freed(h) \in MsgType
        BY <4>1, FreedType DEF TypeOK
      <4>3. /\ msg' = [msg EXCEPT ![h] = Freed(h)]
            /\ tx_doneq' = Tail(tx_doneq)
            /\ UNCHANGED <<ctl, call, txq, ackq, ring, wire, exit, took, harm>>
        BY <1>2, <3>1 DEF AndesCmdMsgBh, AndesFreeCmdMsg
      <4> HIDE DEF h
      <4> QED
        BY <4>1, <4>2, <4>3 DEF TypeOK
    <3>2. CASE tx_doneq = <<>>
      BY <1>2, <3>2 DEF AndesCmdMsgBh, TypeOK, CtlType
    <3> QED
      BY <3>1, <3>2
  <2> QED
    BY <2>1, <2>2
<1> QED
  BY <1>1, <1>2

LEMMA CleanedType ==
  ASSUME TypeOK, NEW q
  PROVE  Cleaned(q) \in [Cmds -> MsgType]
<1>1. \A m \in Cmds : msg[m] \in MsgType
  BY DEF TypeOK
<1>2. \A m \in Cmds : Freed(m) \in MsgType
  BY FreedType DEF TypeOK
<1> QED
  BY <1>1, <1>2, MsgTypes DEF Cleaned, MsgTypeFacts

LEMMA ExitTypes ==
  ASSUME TInv,
         \/ ExitSend \/ ExitClear \/ ExitKill
         \/ CleanTxq \/ CleanAckq \/ CleanDoneq
  PROVE  TInv'
<1> USE DEF TInv
<1>1. CASE ExitSend \/ ExitClear \/ ExitKill
  BY <1>1 DEF ExitSend, ExitClear, ExitKill, AndesBhSchedule, TypeOK, HoldOK,
              RingOK, SyncOK, CtlType, Exits, In
<1>2. CASE CleanTxq \/ CleanAckq \/ CleanDoneq
  <2>1. msg' \in [Cmds -> MsgType]
    BY <1>2, CleanedType DEF CleanTxq, CleanAckq, CleanDoneq
  <2>2. TypeOK'
    BY <1>2, <2>1, EmptyIn
       DEF CleanTxq, CleanAckq, CleanDoneq, TypeOK, Exits
  <2>3. HoldOK' /\ RingOK' /\ SyncOK'
    BY <1>2, EmptyIn
       DEF CleanTxq, CleanAckq, CleanDoneq, HoldOK, RingOK, SyncOK
  <2> QED
    BY <2>2, <2>3
<1> QED
  BY <1>1, <1>2

LEMMA TypeStep == TInv /\ [Next]_vars => TInv'
<1> SUFFICES ASSUME TInv, [Next]_vars PROVE TInv'
  OBVIOUS
<1>1. ASSUME NEW c \in Cmds,
             \/ Refuse(c) \/ Accept(c) \/ Queue(c)
             \/ Dequeue(c) \/ Drop(c) \/ AndesGetCmdMsgSeq(c) \/ NoSeq(c)
             \/ KickFails(c) \/ KickPasses(c) \/ Post(c) \/ Ring(c)
             \/ WokenAtExit(c) \/ Woken(c) \/ Finish(c)
      PROVE  TInv'
  BY <1>1, BeginTypes, LoopTypes, SeqTypes, KickTypes, RingTypes, WaitTypes
<1>2. CASE UNCHANGED vars
  BY <1>2 DEF vars, TInv, TypeOK, HoldOK, RingOK, SyncOK, In
<1> QED
  BY <1>1, <1>2, TaskletTypes, ExitTypes DEF Next

\* Every variable keeps its type, whatever the interleaving.
THEOREM TypeCorrect == Spec => []TypeOK
<1>1. Init => TInv
  BY TypeInit DEF TInv
<1>2. TInv /\ [Next]_vars => TInv'
  BY TypeStep
<1>3. TInv => TypeOK
  BY DEF TInv
<1> QED
  BY <1>1, <1>2, <1>3, PTL DEF Spec

-----------------------------------------------------------------------------
(***************************************************************************)
(* Where a message is.  The invariant is one of each command alone.        *)
(***************************************************************************)
OnlyHolder(m) ==
  \A c, d \in Cmds : call[c].hold = m /\ call[d].hold = m => c = d
Linked(m) ==
  /\ ~InTwo(m)
  /\ Once(m, txq) /\ Once(m, ackq) /\ Once(m, tx_doneq)
  /\ OnlyHolder(m)
Place(m) ==
  /\ call[m].pc \in {"idle", "queue"} => Nowhere(m) /\ ring # m
  /\ m \in Sync /\ In(m, tx_doneq) => call[m].pc = "returned"
  /\ "early" \notin harm[m] =>
       /\ Linked(m)
       /\ call[m].pc = "finish" => Nowhere(m)
       /\ In(m, ackq) => msg[m].state = "wait_ack"
       /\ m \in Sync /\ ring = m =>
            /\ ~In(m, txq) /\ ~In(m, tx_doneq) /\ ~Held(m)
            /\ call[m].pc # "finish"
Sound(m) ==
  {"foreign", "early", "exit"} \cap harm[m] = {} /\ msg[m].mem = "freed"
    => ~Uses(m) /\ Nowhere(m)
OnItsWay(m) == m \in Sync /\ (In(m, txq) \/ Held(m) \/ In(m, ackq))
Awaited(m) ==
  {"unsent", "stray", "early", "exit"} \cap harm[m] = {} /\ OnItsWay(m)
    => call[m].pc \in Inside
CmdOK(m) == Place(m) /\ Sound(m) /\ Awaited(m)

Looping == {"loop", "check", "spin", "kick", "post", "ring"}

\* What a step leaves of one command: its place, what befell it, its call.
SameList(m, q, r) == (In(m, r) <=> In(m, q)) /\ (Once(m, q) => Once(m, r))
SameHolders(m) == \A c \in Cmds : call'[c].hold = m <=> call[c].hold = m
SamePlace(m) ==
  /\ SameList(m, txq, txq') /\ SameList(m, ackq, ackq')
  /\ SameList(m, tx_doneq, tx_doneq')
  /\ SameHolders(m)
  /\ ring' = m => ring = m
SameMsg(m) == msg'[m].state = msg[m].state /\ msg'[m].mem = msg[m].mem
Suffers(m) == harm[m] \subseteq harm'[m]
Walks(m) ==
  \/ call'[m].pc = call[m].pc
  \/ /\ call[m].pc \in Looping
     /\ \/ call'[m].pc \in Looping \cup {"wait"}
        \/ call'[m].pc = "returned" /\ (m \in Sync => "unsent" \in harm'[m])

LEMMA NowhereStays ==
  ASSUME NEW m \in Cmds, SamePlace(m)
  PROVE  (Nowhere(m) <=> Nowhere(m)') /\ (Held(m) <=> Held(m)')
         /\ (Linked(m) => Linked(m)') /\ (OnItsWay(m) <=> OnItsWay(m)')
<1>1. Held(m) <=> Held(m)'
  BY DEF Held, SamePlace, SameHolders
<1>2. OnlyHolder(m) => OnlyHolder(m)'
  BY DEF OnlyHolder, SamePlace, SameHolders
<1>3. /\ In(m, txq)' <=> In(m, txq)
      /\ In(m, ackq)' <=> In(m, ackq)
      /\ In(m, tx_doneq)' <=> In(m, tx_doneq)
      /\ Once(m, txq) => Once(m, txq)'
      /\ Once(m, ackq) => Once(m, ackq)'
      /\ Once(m, tx_doneq) => Once(m, tx_doneq)'
  BY DEF SamePlace, SameList, In, Once
<1> QED
  BY <1>1, <1>2, <1>3 DEF Nowhere, Linked, InTwo, OnItsWay

LEMMA Frame ==
  ASSUME NEW m \in Cmds, CmdOK(m),
         SamePlace(m), SameMsg(m), Suffers(m), Walks(m)
  PROVE  CmdOK(m)'
<1>1. (Nowhere(m) <=> Nowhere(m)') /\ (Linked(m) => Linked(m)')
      /\ (OnItsWay(m) <=> OnItsWay(m)')
      /\ (In(m, ackq)' <=> In(m, ackq))
      /\ (In(m, txq)' <=> In(m, txq)) /\ (Held(m)' <=> Held(m))
      /\ (ring' = m => ring = m)
      /\ (In(m, tx_doneq)' <=> In(m, tx_doneq))
  BY NowhereStays DEF SamePlace, SameList, In
<1>2. Place(m)'
  BY <1>1 DEF CmdOK, Place, SameMsg, Suffers, Walks, Looping
<1>3. Sound(m)'
  BY <1>1 DEF CmdOK, Sound, SameMsg, Suffers, Walks, Looping, Uses, Inside
<1>4. Awaited(m)'
  BY <1>1 DEF CmdOK, Awaited, Suffers, Walks, Looping, Inside, OnItsWay
<1> QED
  BY <1>2, <1>3, <1>4 DEF CmdOK

LEMMA HarmGrows ==
  ASSUME TypeOK, NEW S, NEW r, harm' = Harm(S, r)
  PROVE  \A m \in Cmds : Suffers(m) /\ (m \in S => r \in harm'[m])
BY DEF Harm, Suffers, TypeOK

LEMMA HarmSame == UNCHANGED harm => \A m \in Cmds : Suffers(m)
BY DEF Suffers

\* What Frame needs of the commands whose call moves, or does not.
LEMMA MovedRest ==
  ASSUME NEW c \in Cmds, NEW p, NEW h, Moved(c, p, h)
  PROVE  /\ \A m \in Cmds : m # c => call'[m].pc = call[m].pc
         /\ \A m \in Cmds : m # h /\ m # call[c].hold => SameHolders(m)
         /\ h = call[c].hold => \A m \in Cmds : SameHolders(m)
         /\ call'[c].pc = p
BY DEF Moved, Others, SameHolders

LEMMA SameLists ==
  ASSUME UNCHANGED <<txq, ackq, tx_doneq>>, NEW m \in Cmds, SameHolders(m),
         ring' \in {ring, NoCmd}
  PROVE  SamePlace(m)
BY DEF SamePlace, SameList

\* The invariant of the lists.
SInv == TInv /\ \A m \in Cmds : CmdOK(m)

LEMMA BeginSafe ==
  ASSUME SInv, NEW c \in Cmds, Refuse(c) \/ Accept(c) \/ Queue(c),
         NEW m \in Cmds
  PROVE  CmdOK(m)'
<1>0. CmdOK(m) /\ TypeOK /\ HoldOK /\ Suffers(m) /\ UNCHANGED ring
  BY HarmGrows, HarmSame DEF SInv, TInv, Refuse, Accept, Queue
<1>1. CASE Refuse(c)
  <2>1. Moved(c, "returned", call[c].hold)
    <3>1. call' = [call EXCEPT ![c] = [@ EXCEPT !.pc = "returned",
                                                !.ret = "FAILURE"]]
      BY <1>1 DEF Refuse
    <3>2. call \in [Cmds -> CallType] /\ "returned" \in Steps
      BY <1>0, NamesOfSteps DEF TypeOK, StepNames
    <3> QED
      BY <3>1, <3>2, RetMoved
  <2>2. SamePlace(m)
    BY <1>0, <1>1, <2>1, MovedRest, SameLists DEF Refuse
  <2>3. CASE m # c
    <3>1. SameMsg(m)
      BY <1>1, <2>3, <1>0 DEF Refuse, AndesFreeCmdMsg, SameMsg, TypeOK
    <3> QED
      BY <1>0, <2>1, <2>2, <2>3, <3>1, MovedRest, Frame DEF Walks
  <2>4. CASE m = c
    <3>1. call[m].pc = "idle" /\ call'[m].pc = "returned"
      BY <1>1, <2>1, <2>4 DEF Refuse, Moved
    <3>2. Nowhere(m) /\ Nowhere(m)' /\ ring # m /\ ring' # m
      BY <1>0, <2>2, <3>1, NowhereStays DEF CmdOK, Place
    <3> QED
      BY <1>0, <2>2, <3>1, <3>2, NowhereStays
         DEF CmdOK, Place, Sound, Awaited, Nowhere, OnItsWay, Uses, Inside,
             Suffers
  <2> QED
    BY <2>3, <2>4
<1>2. CASE Accept(c)
  <2>1. Moved(c, "queue", call[c].hold)
    BY <1>0, <1>2, GotoMoved, NamesOfSteps DEF Accept, TypeOK, StepNames
  <2>2. SamePlace(m)
    BY <1>0, <1>2, <2>1, MovedRest, SameLists DEF Accept
  <2>3. CASE m # c
    <3>1. SameMsg(m)
      BY <1>2, <2>3, <1>0 DEF Accept, SameMsg, TypeOK
    <3> QED
      BY <1>0, <2>1, <2>2, <2>3, <3>1, MovedRest, Frame DEF Walks
  <2>4. CASE m = c
    <3>1. /\ call[m].pc = "idle" /\ call'[m].pc = "queue" /\ harm'[m] = harm[m]
      BY <1>2, <2>1, <2>4 DEF Accept, Moved
    <3>2. msg'[m].mem = "live"
      BY <1>0, <1>2, <2>4 DEF Accept, TypeOK, MsgType
    <3>3. Nowhere(m) /\ Nowhere(m)' /\ ring # m /\ ring' # m
      BY <1>0, <2>2, <3>1, NowhereStays DEF CmdOK, Place
    <3> QED
      BY <1>0, <2>2, <3>1, <3>2, <3>3, NowhereStays
         DEF CmdOK, Place, Sound, Awaited, Nowhere, OnItsWay
  <2> QED
    BY <2>3, <2>4
<1>3. CASE Queue(c)
  <2>1. Moved(c, "loop", call[c].hold)
    BY <1>0, <1>3, GotoMoved, NamesOfSteps DEF Queue, TypeOK, StepNames
  <2>2. SameHolders(m) /\ UNCHANGED <<ackq, tx_doneq>> /\ txq' = Append(txq, c)
    BY <1>3, <2>1, MovedRest DEF Queue
  <2>3. txq \in Seq(Cmds)
    BY <1>0 DEF TypeOK
  <2>4. CASE m # c
    <3>1. SameMsg(m)
      BY <1>3, <2>4, <1>0 DEF Queue, Queued, SameMsg, TypeOK
    <3>2. SameList(m, txq, txq')
      BY <2>2, <2>3, <2>4, AppendIn DEF SameList
    <3>3. SamePlace(m)
      BY <1>0, <2>2, <3>2 DEF SamePlace, SameList
    <3> QED
      BY <1>0, <2>1, <2>4, <3>1, <3>3, MovedRest, Frame DEF Walks
  <2>5. CASE m = c
    <3>1. /\ call[m].pc = "queue" /\ call'[m].pc = "loop" /\ harm'[m] = harm[m]
          /\ msg'[m].mem = msg[m].mem
      BY <1>0, <1>3, <2>1, <2>5 DEF Queue, Queued, Moved, TypeOK, MsgType
    <3>2. Nowhere(m) /\ ring' # m
      BY <1>0, <3>1 DEF CmdOK, Place
    <3>3. /\ ~In(m, ackq') /\ ~In(m, tx_doneq') /\ ~Held(m)'
          /\ OnlyHolder(m)'
      BY <2>2, <3>2 DEF Nowhere, Held, SameHolders, OnlyHolder
    <3>4. Once(m, txq) => Once(m, txq')
      BY <2>2, <2>3, <2>5, <3>2, AppendIn DEF Nowhere
    <3>5. Once(m, ackq) => Once(m, ackq')
      BY <2>2
    <3>6. Once(m, tx_doneq) => Once(m, tx_doneq')
      BY <2>2
    <3>7. Place(m)'
      BY <1>0, <3>1, <3>2, <3>3, <3>4, <3>5, <3>6
         DEF CmdOK, Place, Linked, InTwo, In, Once
    <3>8. Sound(m)' /\ Awaited(m)'
      BY <1>0, <3>1 DEF CmdOK, Sound, Awaited, Uses, Inside
    <3> QED
      BY <3>7, <3>8 DEF CmdOK
  <2> QED
    BY <2>4, <2>5
<1> QED
  BY <1>1, <1>2, <1>3

\* A loop takes steps of the kind Frame allows.
LEMMA LoopWalks ==
  ASSUME NEW c \in Cmds, NEW p, NEW h, Moved(c, p, h), call[c].pc \in Looping,
         \/ p \in Looping \cup {"wait"}
         \/ p = "returned" /\ (c \in Sync => "unsent" \in harm'[c])
  PROVE  \A m \in Cmds : Walks(m)
BY MovedRest DEF Walks

\* A message its only holder lets go is held by nobody.
LEMMA Released ==
  ASSUME NEW c \in Cmds, NEW h \in Cmds, NEW p, Moved(c, p, NoCmd),
         call[c].hold = h, OnlyHolder(h)
  PROVE  ~Held(h)' /\ OnlyHolder(h)'
BY DEF Moved, Others, OnlyHolder, Held

\* A message that is held is in no list, if its wait did not end too early;
\* and its call is on its way.
LEMMA HeldFacts ==
  ASSUME NEW c \in Cmds, NEW h \in Cmds, CmdOK(h), call[c].hold = h
  PROVE  /\ Held(h) /\ ~Nowhere(h) /\ call[h].pc \notin {"idle", "queue"}
         /\ "early" \notin harm[h] =>
              /\ ~In(h, txq) /\ ~In(h, ackq) /\ ~In(h, tx_doneq)
              /\ Linked(h) /\ OnlyHolder(h) /\ call[h].pc # "finish"
BY DEF CmdOK, Place, Linked, InTwo, Held, Nowhere

LEMMA DequeueSafe ==
  ASSUME SInv, NEW c \in Cmds, Dequeue(c), NEW m \in Cmds
  PROVE  CmdOK(m)'
<1>0. /\ CmdOK(m) /\ TypeOK /\ HoldOK /\ Suffers(m) /\ SameMsg(m)
      /\ call[c].pc = "loop" /\ call[c].pc \in Looping /\ call[c].hold = NoCmd
      /\ UNCHANGED <<ackq, tx_doneq, ring>>
  BY HarmSame DEF SInv, TInv, Dequeue, SameMsg, Looping, HoldOK
<1>1. CASE txq = <<>>
  <2>1. PICK p \in {"wait", "returned"} :
          Moved(c, p, NoCmd) /\ (p = "returned" => c \notin Sync)
    BY <1>0, <1>1, GotoMoved, NamesOfSteps
       DEF Dequeue, LoopSucceeds, TypeOK, StepNames
  <2>2. SamePlace(m)
    BY <1>0, <1>1, <2>1, MovedRest, SameLists DEF Dequeue
  <2>3. Walks(m)
    BY <1>0, <2>1, LoopWalks
  <2> QED
    BY <1>0, <2>2, <2>3, Frame
<1>2. CASE txq # <<>>
  <2> DEFINE h == Head(txq)
  <2>1. /\ h \in Cmds /\ txq \in Seq(Cmds) /\ txq' = Tail(txq)
        /\ call' = [call EXCEPT ![c] = At("check", h)]
    BY <1>0, <1>2, TailIn DEF Dequeue, TypeOK
  <2>2. Moved(c, "check", h)
    BY <1>0, <2>1, AtMoved, NamesOfSteps DEF TypeOK, StepNames
  <2>3. Walks(m)
    BY <1>0, <2>2, LoopWalks DEF Looping
  <2>4. CASE m # h
    <3>1. SameHolders(m)
      BY <1>0, <2>2, <2>4, MovedRest
    <3>2. SameList(m, txq, txq')
      BY <1>2, <2>1, <2>4, TailIn DEF SameList
    <3>3. SamePlace(m)
      BY <1>0, <3>1, <3>2 DEF SamePlace, SameList
    <3> QED
      BY <1>0, <2>3, <3>3, Frame
  <2>5. CASE m = h
    <3>1. In(m, txq) /\ (Once(m, txq) => ~In(m, txq') /\ Once(m, txq'))
      BY <1>2, <2>1, <2>5, TailIn
    <3>3. (\A d \in Cmds : call[d].hold # m) => OnlyHolder(m)'
      BY <2>2, <2>5 DEF Moved, Others, OnlyHolder
    <3>4. "early" \notin harm[m] =>
            /\ ~In(m, ackq) /\ ~In(m, tx_doneq)
            /\ Once(m, ackq) /\ Once(m, tx_doneq) /\ Once(m, txq)
            /\ OnlyHolder(m)' /\ call[m].pc # "finish"
            /\ m \in Sync => ring # m
      BY <1>0, <3>1, <3>3 DEF CmdOK, Place, Linked, InTwo, Held, Nowhere
    <3>5. harm'[m] = harm[m] /\ msg' = msg
      BY DEF Dequeue
    <3>6. call[m].pc \notin {"idle", "queue"}
      BY <1>0, <3>1 DEF CmdOK, Place, Nowhere
    <3>7. call'[m].pc \notin {"idle", "queue"} /\
          (call'[m].pc = "finish" => call[m].pc = "finish") /\
          (call[m].pc = "returned" => call'[m].pc = "returned")
      BY <2>3, <3>6 DEF Walks, Looping
    <3>8. /\ In(m, ackq)' <=> In(m, ackq)
          /\ In(m, tx_doneq)' <=> In(m, tx_doneq)
          /\ (Once(m, ackq)' <=> Once(m, ackq))
          /\ (Once(m, tx_doneq)' <=> Once(m, tx_doneq))
      BY <1>0 DEF In, Once
    <3>9. Place(m)'
      BY <1>0, <3>1, <3>4, <3>5, <3>7, <3>8
         DEF CmdOK, Place, Linked, InTwo, In, Once
    <3>10. Sound(m)'
      BY <1>0, <3>1, <3>5 DEF CmdOK, Sound, Nowhere
    <3>11. call[m].pc \in Inside => call'[m].pc \in Inside \/ m \notin Sync
      BY <1>0, <2>2, MovedRest DEF Inside
    <3>12. Awaited(m)'
      BY <1>0, <3>1, <3>5, <3>11 DEF CmdOK, Awaited, OnItsWay
    <3> QED
      BY <3>9, <3>10, <3>12 DEF CmdOK
  <2> QED
    BY <2>4, <2>5
<1> QED
  BY <1>1, <1>2

LEMMA StepSafe ==
  ASSUME SInv, NEW c \in Cmds,
         AndesGetCmdMsgSeq(c) \/ NoSeq(c) \/ KickPasses(c), NEW m \in Cmds
  PROVE  CmdOK(m)'
<1>0. CmdOK(m) /\ TypeOK /\ call[c].pc \in Looping
  BY DEF SInv, TInv, AndesGetCmdMsgSeq, NoSeq, KickPasses, Looping
<1>1. PICK p \in {"spin", "kick", "post"} : Moved(c, p, call[c].hold)
  BY <1>0, GotoMoved, NamesOfSteps
     DEF AndesGetCmdMsgSeq, NoSeq, KickPasses, TypeOK, StepNames
<1>2. SamePlace(m)
  BY <1>1, MovedRest, SameLists DEF AndesGetCmdMsgSeq, NoSeq, KickPasses
<1>3. Walks(m)
  BY <1>0, <1>1, LoopWalks DEF Looping
<1>4. SameMsg(m)
  <2>1. \/ msg' = msg
        \/ \E h, s : msg' = [msg EXCEPT ![h] = [@ EXCEPT !.seq = s]]
    BY DEF AndesGetCmdMsgSeq, NoSeq, KickPasses
  <2>2. CASE msg' = msg
    BY <2>2 DEF SameMsg
  <2>3. ASSUME NEW h, NEW s, msg' = [msg EXCEPT ![h] = [@ EXCEPT !.seq = s]]
        PROVE  SameMsg(m)
    <3>1. DOMAIN msg = Cmds /\ msg[m] \in MsgType
      BY <1>0 DEF TypeOK, MsgType
    <3>2. CASE m = h
      <4>1. msg'[m] = [msg[m] EXCEPT !.seq = s]
        BY <2>3, <3>1, <3>2
      <4> QED
        BY <3>1, <4>1 DEF SameMsg
    <3>3. CASE m # h
      BY <2>3, <3>1, <3>3 DEF SameMsg
    <3> QED
      BY <3>2, <3>3
  <2> QED
    BY <2>1, <2>2, <2>3
<1>5. Suffers(m)
  BY <1>0, HarmGrows, HarmSame DEF AndesGetCmdMsgSeq, NoSeq, KickPasses
<1> QED
  BY <1>0, <1>2, <1>3, <1>4, <1>5, Frame

\* A message let go of is nowhere, and may be freed; if its call waits, it
\* was freed by another's.
LEMMA LetGo ==
  ASSUME NEW c \in Cmds, NEW h \in Cmds, NEW p \in {"loop", "returned"},
         Moved(c, p, NoCmd), call[c].hold = h, CmdOK(h), Walks(h), Suffers(h),
         UNCHANGED <<txq, ackq, tx_doneq, ring>>,
         msg'[h].state = msg[h].state,
         \/ msg'[h].mem = msg[h].mem
         \/ h \in Sync => call'[h].pc = "returned" \/ "foreign" \in harm'[h]
  PROVE  CmdOK(h)'
<1>1. call[h].pc \notin {"idle", "queue"} /\ Held(h) /\ ~Nowhere(h)
  BY HeldFacts
<1>2. "early" \notin harm[h] =>
        ~Held(h)' /\ OnlyHolder(h)' /\ Nowhere(h)' /\ Linked(h)
        /\ call[h].pc # "finish" /\ (h \in Sync => ring' # h)
  <2> SUFFICES ASSUME "early" \notin harm[h]
               PROVE  ~Held(h)' /\ OnlyHolder(h)' /\ Nowhere(h)' /\ Linked(h)
                      /\ call[h].pc # "finish" /\ (h \in Sync => ring' # h)
    OBVIOUS
  <2>1. ~In(h, txq) /\ ~In(h, ackq) /\ ~In(h, tx_doneq) /\ OnlyHolder(h)
        /\ Linked(h) /\ call[h].pc # "finish"
    BY HeldFacts
  <2>2. ~Held(h)' /\ OnlyHolder(h)'
    BY <2>1, Released
  <2>3. h \in Sync => ring' # h
    BY <1>1 DEF CmdOK, Place
  <2> QED
    BY <2>1, <2>2, <2>3 DEF Nowhere, In
<1>3. call'[h].pc \notin {"idle", "queue"}
      /\ (call'[h].pc = "finish" => call[h].pc = "finish")
      /\ (call[h].pc = "returned" => call'[h].pc = "returned")
  BY <1>1 DEF Walks, Looping
<1>4. Place(h)'
  BY <1>2, <1>3 DEF CmdOK, Place, Linked, InTwo, In, Once, Suffers, Nowhere
<1>5. Sound(h)'
  <2>1. Uses(h)' => h \in Sync /\ (call'[h].pc # "returned" \/ ring' = h)
    BY <1>3 DEF Uses, Inside
  <2> QED
    BY <1>1, <1>2, <2>1 DEF CmdOK, Sound, Suffers
<1>6. Awaited(h)'
  BY <1>2 DEF CmdOK, Awaited, OnItsWay, Nowhere, Suffers
<1> QED
  BY <1>4, <1>5, <1>6 DEF CmdOK

LEMMA LetGoSafe ==
  ASSUME SInv, NEW c \in Cmds, Drop(c) \/ KickFails(c), NEW m \in Cmds
  PROVE  CmdOK(m)'
<1> DEFINE h == call[c].hold
<1>0. /\ CmdOK(m) /\ TypeOK /\ h \in Cmds /\ call[c].pc \in Looping
      /\ UNCHANGED <<txq, ackq, tx_doneq, ring>>
  BY HeldType DEF SInv, TInv, Drop, KickFails, Looping
<1>1. PICK p \in {"loop", "returned"} :
        /\ Moved(c, p, NoCmd)
        /\ \/ KickFails(c) /\ p = "returned"
           \/ ~KickFails(c) /\ p = "loop"
  <2>1. CASE KickFails(c)
    BY <1>0, <2>1, AtMoved, NamesOfSteps
       DEF KickFails, LoopFails, TypeOK, StepNames
  <2>2. CASE Drop(c) /\ ~KickFails(c)
    BY <1>0, <2>2, AtMoved, NamesOfSteps DEF Drop, GoOn, TypeOK, StepNames
  <2> QED
    BY <2>1, <2>2
<1>2. \/ msg' = msg
      \/ msg' = [msg EXCEPT ![h] = Freed(h)] /\ (KickFails(c) \/ h \notin Sync)
  BY DEF Drop, KickFails, AndesFreeCmdMsg
<1>3. /\ \A x \in Cmds : Suffers(x)
      /\ KickFails(c) =>
           "unsent" \in harm'[c] /\ (h # c => "foreign" \in harm'[h])
  <2>1. CASE KickFails(c)
    <3> DEFINE g == Harm({c}, "unsent")
    <3>1. harm' = [g EXCEPT ![h] = @ \cup {r \in {"foreign"} : h # c}]
      BY <2>1 DEF KickFails
    <3>2. /\ \A x \in Cmds : harm[x] \subseteq g[x]
          /\ "unsent" \in g[c] /\ DOMAIN g = Cmds
      BY DEF Harm
    <3> HIDE DEF g, h
    <3>3. \A x \in Cmds : g[x] \subseteq harm'[x]
      BY <3>1, <3>2, <1>0
    <3> QED
      BY <3>1, <3>2, <3>3, <1>0 DEF Suffers
  <2>2. CASE ~KickFails(c)
    BY <2>2, HarmSame DEF Drop
  <2> QED
    BY <2>1, <2>2
<1>4. Walks(m)
  <2>1. p = "loop" \/ (p = "returned" /\ "unsent" \in harm'[c])
    <3>1. CASE KickFails(c)
      BY <3>1, <1>1, <1>3
    <3>2. CASE ~KickFails(c)
      BY <3>2, <1>1
    <3> QED
      BY <3>1, <3>2
  <2> QED
    BY <1>0, <1>1, <2>1, LoopWalks DEF Looping
<1>5. CASE m # h
  <2>1. m # NoCmd
    OBVIOUS
  <2>2. SameHolders(m)
    BY <1>1, <1>5, <2>1, MovedRest
  <2>3. SamePlace(m)
    BY <1>0, <2>2, SameLists
  <2>4. SameMsg(m)
    BY <1>0, <1>2, <1>5 DEF SameMsg, TypeOK
  <2> QED
    BY <1>0, <1>3, <1>4, <2>3, <2>4, Frame
<1>6. CASE m = h
  <2>1. msg'[h].state = msg[h].state
    <3>1. Freed(h).state = msg[h].state
      BY <1>0 DEF Freed, TypeOK, MsgType
    <3> HIDE DEF h
    <3> QED
      BY <1>0, <1>2, <3>1 DEF TypeOK
  <2>2. \/ msg'[h].mem = msg[h].mem
        \/ h \in Sync => call'[h].pc = "returned" \/ "foreign" \in harm'[h]
    BY <1>1, <1>2, <1>3, MovedRest
  <2> HIDE DEF h
  <2>3. call[c].hold = h
    BY DEF h
  <2> QED
    BY <1>0, <1>1, <1>3, <1>4, <1>6, <2>1, <2>2, <2>3, LetGo
<1> QED
  BY <1>5, <1>6

LEMMA PostSafe ==
  ASSUME SInv, NEW c \in Cmds, Post(c), NEW m \in Cmds
  PROVE  CmdOK(m)'
<1> DEFINE h == call[c].hold
<1>0. /\ CmdOK(m) /\ TypeOK /\ call[c].pc \in Looping
      /\ ackq \in Seq(Cmds) /\ tx_doneq \in Seq(Cmds)
  BY DEF SInv, TInv, Post, Looping, TypeOK
<1>1. /\ h \in Cmds
      /\ ackq' = IF h \in Sync THEN Append(ackq, h) ELSE ackq
      /\ tx_doneq' = IF h \in Sync THEN tx_doneq ELSE Append(tx_doneq, h)
      /\ msg' = Queued(h, IF h \in Sync THEN "wait_ack" ELSE "tx_done")
      /\ Moved(c, "ring", NoCmd) /\ ring' = h
      /\ UNCHANGED <<txq, harm>>
  BY PostFacts DEF SInv
<1>2. \A x \in Cmds : Suffers(x)
  BY <1>1, HarmSame
<1>4. Walks(m)
  BY <1>0, <1>1, LoopWalks DEF Looping
<1>6. CASE m # h
  <2>1. SameHolders(m)
    BY <1>1, <1>6, MovedRest
  <2>2. SameList(m, ackq, ackq') /\ SameList(m, tx_doneq, tx_doneq')
    BY <1>0, <1>1, <1>6, AppendIn DEF SameList
  <2>3. SamePlace(m)
    BY <1>1, <1>6, <2>1, <2>2 DEF SamePlace, SameList
  <2>4. SameMsg(m)
    BY <1>0, <1>1, <1>6 DEF SameMsg, Queued, TypeOK
  <2> QED
    BY <1>0, <1>2, <1>4, <2>3, <2>4, Frame
<1>7. CASE m = h
  <2>1. call[m].pc \notin {"idle", "queue"} /\ Held(m) /\ ~Nowhere(m)
        /\ ("early" \notin harm[m] =>
              /\ ~In(m, txq) /\ ~In(m, ackq) /\ ~In(m, tx_doneq)
              /\ Linked(m) /\ OnlyHolder(m) /\ call[m].pc # "finish")
    BY <1>0, <1>7, HeldFacts
  <2>2. /\ (m \notin Sync => (In(m, ackq') <=> In(m, ackq)))
        /\ (m \in Sync => (In(m, tx_doneq') <=> In(m, tx_doneq)))
        /\ (~In(m, ackq) => (Once(m, ackq) => Once(m, ackq')))
        /\ (~In(m, tx_doneq) => (Once(m, tx_doneq) => Once(m, tx_doneq')))
    BY <1>0, <1>1, <1>7, AppendIn
  <2>3. "early" \notin harm[m] => ~Held(m)' /\ OnlyHolder(m)'
    BY <1>1, <1>7, <2>1, Released
  <2>4. call'[m].pc \notin {"idle", "queue"}
        /\ (call'[m].pc = "finish" => call[m].pc = "finish")
        /\ (call[m].pc = "returned" => call'[m].pc = "returned")
    BY <1>4, <2>1 DEF Walks, Looping
  <2>5. /\ m \in Sync => msg'[m].state = "wait_ack"
        /\ msg'[m].mem = msg[m].mem
    BY <1>0, <1>1, <1>7 DEF Queued, TypeOK, MsgType
  <2>6. (In(m, txq') <=> In(m, txq)) /\ (Once(m, txq') <=> Once(m, txq))
    BY <1>1
  <2>7. Suffers(m)
    BY <1>2
  <2> HIDE DEF h
  <2>8. Place(m)'
    BY <1>0, <2>1, <2>2, <2>3, <2>4, <2>5, <2>6, <2>7
       DEF CmdOK, Place, Linked, InTwo, In, Once, Suffers, Nowhere
  <2>9. Sound(m)'
    BY <1>0, <2>1, <2>5, <2>7 DEF CmdOK, Sound, Suffers
  <2>10. Awaited(m)'
    <3>1. OnItsWay(m)' => OnItsWay(m)
      BY <2>1, <2>2 DEF OnItsWay
    <3>2. m \in Sync /\ call[m].pc \in Inside
            => call'[m].pc \in Inside \/ "unsent" \in harm'[m]
      BY <1>4 DEF Walks, Looping, Inside
    <3> QED
      BY <1>0, <3>1, <3>2, <2>7 DEF CmdOK, Awaited, Suffers, OnItsWay
  <2> QED
    BY <2>8, <2>9, <2>10 DEF CmdOK
<1> QED
  BY <1>6, <1>7

LEMMA RingSafe ==
  ASSUME SInv, NEW c \in Cmds, Ring(c), NEW m \in Cmds
  PROVE  CmdOK(m)'
<1>0. /\ CmdOK(m) /\ TypeOK /\ ring' = NoCmd /\ ring \in Cmds
      /\ call[c].pc = "ring" /\ call[c].hold = NoCmd
      /\ UNCHANGED <<msg, txq, ackq, tx_doneq>>
  BY RingFacts DEF SInv, TInv
<1>1. \/ Moved(c, "loop", NoCmd) /\ harm' = harm
      \/ /\ Moved(c, "returned", NoCmd)
         /\ harm' = [Harm({c}, "unsent") EXCEPT ![ring] = @ \cup {"stray"}]
  BY RingFacts DEF SInv
<1>2. PICK p \in {"loop", "returned"} : Moved(c, p, NoCmd)
  BY <1>1
<1>3. Suffers(m)
  BY <1>0, <1>1, HarmSame, ZenonT(40) DEF Harm, Suffers
<1>4. Walks(m)
  <2>1. \/ Moved(c, "loop", NoCmd)
        \/ Moved(c, "returned", NoCmd) /\ "unsent" \in harm'[c]
    <3>1. harm' = [Harm({c}, "unsent") EXCEPT ![ring] = @ \cup {"stray"}]
            => "unsent" \in harm'[c]
      BY <1>0 DEF Harm
    <3> QED
      BY <1>1, <3>1
  <2> QED
    BY <1>0, <2>1, LoopWalks DEF Looping
<1>5. SamePlace(m)
  BY <1>0, <1>2, MovedRest, SameLists
<1> QED
  BY <1>0, <1>3, <1>4, <1>5, Frame DEF SameMsg

LEMMA AtExitSafe ==
  ASSUME SInv, NEW c \in Cmds, WokenAtExit(c), NEW m \in Cmds
  PROVE  CmdOK(m)'
<1>0. /\ CmdOK(m) /\ CmdOK(c) /\ TypeOK /\ call[c].pc = "wait" /\ c \in Sync
      /\ UNCHANGED <<txq, ackq, tx_doneq, ring>>
      /\ msg' = [msg EXCEPT ![c] = Freed(c)]
  BY DEF SInv, TInv, SyncOK, WokenAtExit, AndesFreeCmdMsg
<1>1. Moved(c, "returned", call[c].hold)
  BY <1>0, GotoMoved, NamesOfSteps DEF WokenAtExit, TypeOK, StepNames
<1>2. \A x \in Cmds : Suffers(x)
  BY <1>0, HarmGrows DEF WokenAtExit
<1>3. "exit" \in harm'[c] \/ (~InHands(c) /\ ~In(c, txq) /\ ~In(c, ackq))
  BY <1>0, HarmGrows DEF WokenAtExit
<1>4. SamePlace(m)
  BY <1>0, <1>1, MovedRest, SameLists
<1>5. CASE m # c
  <2>1. SameMsg(m)
    BY <1>0, <1>5 DEF SameMsg, TypeOK
  <2> QED
    BY <1>0, <1>1, <1>2, <1>4, <1>5, <2>1, MovedRest, Frame DEF Walks
<1>6. CASE m = c
  <2>1. call[m].pc = "wait" /\ call'[m].pc = "returned" /\ m \in Sync
        /\ msg'[m].state = msg[m].state
    <3>1. Freed(c).state = msg[c].state
      BY <1>0 DEF Freed, TypeOK, MsgType
    <3> QED
      BY <1>0, <1>1, <1>6, <3>1, MovedRest DEF TypeOK
  <2>2. ~In(m, tx_doneq)
    BY <1>0, <2>1 DEF CmdOK, Place
  <2>3. /\ Nowhere(m) <=> Nowhere(m)'
        /\ Linked(m) => Linked(m)'
        /\ OnItsWay(m) <=> OnItsWay(m)'
        /\ In(m, ackq)' <=> In(m, ackq)
        /\ In(m, tx_doneq)' <=> In(m, tx_doneq)
        /\ In(m, txq)' <=> In(m, txq)
        /\ Held(m)' <=> Held(m)
    BY <1>0, <1>4, NowhereStays DEF In
  <2>4. "exit" \in harm'[m] \/ (Nowhere(m) /\ ~OnItsWay(m) /\ ring' # m)
    BY <1>0, <1>3, <1>6, <2>2 DEF Nowhere, OnItsWay, InHands
  <2>5. harm[m] \subseteq harm'[m]
    BY <1>2 DEF Suffers
  <2>6. Place(m)'
    BY <1>0, <2>1, <2>2, <2>3, <2>5 DEF CmdOK, Place
  <2>7. Sound(m)'
    BY <2>1, <2>3, <2>4 DEF Sound, Uses, Inside
  <2>8. Awaited(m)'
    BY <2>3, <2>4 DEF Awaited
  <2> QED
    BY <2>6, <2>7, <2>8 DEF CmdOK
<1> QED
  BY <1>5, <1>6

LEMMA WokenSafe ==
  ASSUME SInv, NEW c \in Cmds, Woken(c), NEW m \in Cmds
  PROVE  CmdOK(m)'
<1>0. /\ CmdOK(m) /\ CmdOK(c) /\ TypeOK /\ call[c].pc = "wait" /\ c \in Sync
      /\ UNCHANGED <<msg, txq, tx_doneq, ring>> /\ ackq \in Seq(Cmds)
      /\ \/ msg[c].state = "wait_ack" /\ ackq' = Unlinked(ackq, c)
         \/ msg[c].state # "wait_ack" /\ ackq' = ackq
  BY DEF SInv, TInv, SyncOK, Woken, TypeOK
<1>1. Moved(c, "finish", call[c].hold)
  <2>1. PICK r \in {"SUCCESS", "FAILURE"} :
          call' = [call EXCEPT ![c] = [@ EXCEPT !.pc = "finish", !.ret = r]]
    BY DEF Woken, Outcomes
  <2> QED
    BY <1>0, <2>1, RetMoved, NamesOfSteps DEF TypeOK, StepNames
<1>2. /\ \A x \in Cmds : Suffers(x)
      /\ "early" \in harm'[c] \/ (~Held(c) /\ ring # c /\ ~In(c, txq))
  <2>1. harm' = Harm({x \in {c} : InHands(x) \/ In(x, txq)}, "early")
    BY DEF Woken
  <2>2. Held(c) \/ ring = c \/ In(c, txq)
          => c \in {x \in {c} : InHands(x) \/ In(x, txq)}
    BY DEF InHands
  <2> QED
    BY <1>0, <2>1, <2>2, HarmGrows
<1>3. /\ \A x \in Cmds \ {c} : SameList(x, ackq, ackq')
      /\ In(c, ackq') => In(c, ackq)
      /\ Once(c, ackq) => Once(c, ackq')
      /\ "early" \notin harm[c] => ~In(c, ackq')
  <2>1. CASE ackq' = ackq
    <3>1. "early" \notin harm[c] => ~In(c, ackq) \/ ackq' = Unlinked(ackq, c)
      BY <1>0 DEF CmdOK, Place
    <3>2. Once(c, ackq) \/ "early" \in harm[c]
      BY <1>0 DEF CmdOK, Place, Linked
    <3> QED
      BY <1>0, <2>1, <3>1, <3>2, UnlinkedFacts DEF SameList
  <2>2. CASE ackq' = Unlinked(ackq, c)
    <3>1. Once(c, ackq) \/ "early" \in harm[c]
      BY <1>0 DEF CmdOK, Place, Linked
    <3> QED
      BY <1>0, <2>2, <3>1, UnlinkedFacts DEF SameList
  <2> QED
    BY <1>0, <2>1, <2>2
<1>4. SameHolders(m)
  BY <1>1, MovedRest
<1>5. CASE m # c
  <2>1. SamePlace(m)
    BY <1>0, <1>3, <1>4, <1>5 DEF SamePlace, SameList
  <2> QED
    BY <1>0, <1>1, <1>2, <1>5, <2>1, MovedRest, Frame DEF Walks, SameMsg
<1>6. CASE m = c
  <2>1. call[m].pc = "wait" /\ call'[m].pc = "finish" /\ m \in Sync
        /\ msg' = msg /\ harm[m] \subseteq harm'[m]
    BY <1>0, <1>1, <1>2, <1>6, MovedRest DEF Suffers
  <2>2. ~In(m, tx_doneq)
    BY <1>0, <2>1 DEF CmdOK, Place
  <2>3. /\ Held(m)' <=> Held(m)
        /\ OnlyHolder(m) => OnlyHolder(m)'
        /\ In(m, txq)' <=> In(m, txq)
        /\ In(m, tx_doneq)' <=> In(m, tx_doneq)
        /\ Once(m, txq) => Once(m, txq)'
        /\ Once(m, tx_doneq) => Once(m, tx_doneq)'
    BY <1>0, <1>4 DEF Held, SameHolders, OnlyHolder, In, Once
  <2>4. "early" \notin harm'[m] =>
          ~In(m, ackq') /\ ~Held(m) /\ ring' # m /\ ~In(m, txq) /\ Linked(m)
    BY <1>0, <1>2, <1>3, <1>6, <2>1 DEF CmdOK, Place, Linked
  <2>5. Once(m, ackq) => Once(m, ackq)'
    BY <1>3, <1>6 DEF Once
  <2>6. Place(m)'
    <3>1. "early" \notin harm'[m] => Nowhere(m)'
      BY <2>2, <2>3, <2>4 DEF Nowhere, In
    <3> QED
      BY <2>1, <2>2, <2>3, <2>4, <2>5, <3>1
         DEF Place, Linked, InTwo, Nowhere
  <2>7. Sound(m)'
    BY <1>0, <2>1 DEF CmdOK, Sound, Uses, Inside
  <2>8. Awaited(m)'
    BY <2>1 DEF Awaited, Inside
  <2> QED
    BY <2>6, <2>7, <2>8 DEF CmdOK
<1> QED
  BY <1>5, <1>6

LEMMA FinishSafe ==
  ASSUME SInv, NEW c \in Cmds, Finish(c), NEW m \in Cmds
  PROVE  CmdOK(m)'
<1>0. /\ CmdOK(m) /\ CmdOK(c) /\ TypeOK /\ call[c].pc = "finish" /\ c \in Sync
      /\ UNCHANGED <<txq, ackq, ring>> /\ tx_doneq \in Seq(Cmds)
      /\ tx_doneq' = Append(tx_doneq, c)
      /\ msg' = [msg EXCEPT ![c].state = "tx_done"]
  BY DEF SInv, TInv, SyncOK, Finish, TypeOK, Queued
<1>1. Moved(c, "returned", call[c].hold)
  BY <1>0, FinishMoved DEF SInv
<1>2. \A x \in Cmds : Suffers(x)
  BY <1>0, HarmGrows DEF Finish
<1>3. SameHolders(m)
  BY <1>1, MovedRest
<1>4. CASE m # c
  <2>1. SameList(m, tx_doneq, tx_doneq')
    BY <1>0, <1>4, AppendIn DEF SameList
  <2>2. SamePlace(m)
    BY <1>0, <1>3, <2>1 DEF SamePlace, SameList
  <2>3. SameMsg(m)
    BY <1>0, <1>4 DEF SameMsg, TypeOK
  <2> QED
    BY <1>0, <1>1, <1>2, <1>4, <2>2, <2>3, MovedRest, Frame DEF Walks
<1>5. CASE m = c
  <2>1. call[m].pc = "finish" /\ call'[m].pc = "returned" /\ m \in Sync
        /\ msg'[m].mem = msg[m].mem /\ harm[m] \subseteq harm'[m]
    BY <1>0, <1>1, <1>2, <1>5, MovedRest DEF Suffers, TypeOK, MsgType
  <2>2. "early" \notin harm[m] => Nowhere(m) /\ Linked(m)
    BY <1>0, <2>1 DEF CmdOK, Place
  <2>3. /\ Held(m)' <=> Held(m)
        /\ OnlyHolder(m) => OnlyHolder(m)'
        /\ In(m, txq)' <=> In(m, txq)
        /\ In(m, ackq)' <=> In(m, ackq)
        /\ Once(m, txq) => Once(m, txq)'
        /\ Once(m, ackq) => Once(m, ackq)'
        /\ Once(m, tx_doneq) /\ ~In(m, tx_doneq) => Once(m, tx_doneq)'
    BY <1>0, <1>3, AppendIn DEF Held, SameHolders, OnlyHolder, In, Once
  <2>7. "early" \notin harm[m] => ring' # m
    BY <1>0, <2>1 DEF CmdOK, Place
  <2>4. Place(m)'
    BY <2>1, <2>2, <2>3, <2>7 DEF Place, Linked, InTwo, Nowhere
  <2>5. {"foreign", "early", "exit"} \cap harm'[m] = {} => msg'[m].mem # "freed"
    BY <1>0, <2>1 DEF CmdOK, Sound, Uses, Inside
  <2>6. "early" \notin harm'[m] => ~OnItsWay(m)'
    BY <2>1, <2>2, <2>3 DEF OnItsWay, Nowhere
  <2> QED
    BY <2>4, <2>5, <2>6 DEF CmdOK, Sound, Awaited
<1> QED
  BY <1>4, <1>5

\* A message taken out of a list by no call of AndesSendCmdMsg is nowhere.
Shrinks(m, q, r) == (In(m, r) => In(m, q)) /\ (Once(m, q) => Once(m, r))
LEMMA Removed ==
  ASSUME NEW m \in Cmds, CmdOK(m), ~Nowhere(m), UNCHANGED <<call, harm>>,
         Shrinks(m, txq, txq'), Shrinks(m, ackq, ackq'),
         Shrinks(m, tx_doneq, tx_doneq'),
         Linked(m) => Nowhere(m)',
         msg'[m].state = msg[m].state,
         \/ msg'[m].mem = msg[m].mem
         \/ m \notin Sync
         \/ call[m].pc = "returned" /\ ("early" \in harm[m] \/ ring # m),
         UNCHANGED ring
  PROVE  CmdOK(m)'
<1>1. /\ In(m, txq)' => In(m, txq)
      /\ In(m, ackq)' => In(m, ackq)
      /\ In(m, tx_doneq)' => In(m, tx_doneq)
      /\ Once(m, txq) => Once(m, txq)'
      /\ Once(m, ackq) => Once(m, ackq)'
      /\ Once(m, tx_doneq) => Once(m, tx_doneq)'
      /\ Held(m)' <=> Held(m)
      /\ OnlyHolder(m) => OnlyHolder(m)'
  BY DEF Shrinks, In, Once, Held, OnlyHolder
<1>2. call[m].pc \notin {"idle", "queue"}
  BY DEF CmdOK, Place
<1>3. Linked(m) => Linked(m)'
  BY <1>1 DEF Linked, InTwo
<1>4. Place(m)'
  BY <1>1, <1>2, <1>3 DEF CmdOK, Place, Nowhere
<1>5. Sound(m)'
  BY <1>2 DEF CmdOK, Sound, Place, Uses, Inside
<1>6. Awaited(m)'
  BY <1>1 DEF CmdOK, Awaited, OnItsWay
<1> QED
  BY <1>4, <1>5, <1>6 DEF CmdOK

LEMMA FreedMsg ==
  ASSUME TypeOK, NEW m \in Cmds
  PROVE  Freed(m).state = msg[m].state
BY DEF TypeOK, MsgType, Freed

LEMMA TaskletSafe ==
  ASSUME SInv,
         (\E x \in Cmds : AndesMTRxEventHandler(x)) \/ AndesCmdMsgBh,
         NEW m \in Cmds
  PROVE  CmdOK(m)'
<1>0. /\ CmdOK(m) /\ TypeOK /\ UNCHANGED <<call, harm, txq, ackq, ring>>
      /\ SameHolders(m) /\ Suffers(m) /\ Walks(m)
  BY DEF SInv, TInv, AndesMTRxEventHandler, AndesCmdMsgBh, SameHolders,
         Suffers, Walks
<1>1. ASSUME NEW x \in Cmds, AndesMTRxEventHandler(x)
      PROVE  CmdOK(m)'
  <2>1. SamePlace(m)
    BY <1>0, <1>1, SameLists DEF AndesMTRxEventHandler
  <2>2. SameMsg(m)
    <3>1. CASE msg' = msg
      BY <3>1 DEF SameMsg
    <3>2. CASE msg' # msg
      <4> DEFINE r == Receiver(x)
      <4>1. PICK s : r \in Cmds /\ msg' = [msg EXCEPT ![r] = Answered(@, s)]
        BY <1>0, <1>1, <3>2, ReceiverFacts DEF AndesMTRxEventHandler
      <4>2. /\ Answered(msg[r], s).state = msg[r].state
            /\ Answered(msg[r], s).mem = msg[r].mem
        BY <1>0, <4>1 DEF Answered, TypeOK, MsgType
      <4> HIDE DEF r
      <4> QED
        BY <1>0, <4>1, <4>2 DEF SameMsg, TypeOK
    <3> QED
      BY <3>1, <3>2
  <2> QED
    BY <1>0, <2>1, <2>2, Frame
<1>2. CASE AndesCmdMsgBh
  <2>1. CASE tx_doneq = <<>>
    <3>1. UNCHANGED <<msg, tx_doneq>>
      BY <1>2, <2>1 DEF AndesCmdMsgBh
    <3> QED
      BY <1>0, <3>1, SameLists, Frame DEF SameMsg
  <2>2. CASE tx_doneq # <<>>
    <3> DEFINE h == Head(tx_doneq)
    <3>1. /\ h \in Cmds /\ tx_doneq' = Tail(tx_doneq)
          /\ msg' = [msg EXCEPT ![h] = Freed(h)] /\ tx_doneq \in Seq(Cmds)
      BY <1>0, <1>2, <2>2, TailIn DEF AndesCmdMsgBh, AndesFreeCmdMsg, TypeOK
    <3>2. /\ In(m, tx_doneq) <=> In(m, tx_doneq') \/ m = h
          /\ Once(m, tx_doneq) => Once(m, tx_doneq')
          /\ Once(h, tx_doneq) => ~In(h, tx_doneq')
      BY <2>2, <3>1, TailIn
    <3> HIDE DEF h
    <3>3. CASE m # h
      <4>1. SamePlace(m)
        BY <1>0, <3>2, <3>3 DEF SamePlace, SameList
      <4>2. SameMsg(m)
        BY <1>0, <3>1, <3>3 DEF SameMsg, TypeOK
      <4> QED
        BY <1>0, <4>1, <4>2, Frame
    <3>4. CASE m = h
      <4>1. In(m, tx_doneq) /\ ~Nowhere(m)
        BY <3>2, <3>4 DEF Nowhere
      <4>2. Linked(m) => Nowhere(m)'
        BY <1>0, <3>2, <3>4, <4>1 DEF Linked, InTwo, Nowhere, Held, In
      <4>3. \/ m \notin Sync
            \/ (call[m].pc = "returned" /\ ("early" \in harm[m] \/ ring # m))
        BY <1>0, <4>1 DEF CmdOK, Place
      <4>4. msg'[m].state = msg[m].state
        BY <1>0, <3>1, <3>4, FreedMsg DEF TypeOK
      <4>5. Shrinks(m, txq, txq') /\ Shrinks(m, ackq, ackq')
            /\ Shrinks(m, tx_doneq, tx_doneq')
        BY <1>0, <3>2 DEF Shrinks
      <4> QED
        BY <1>0, <4>1, <4>2, <4>3, <4>4, <4>5, Removed
    <3> QED
      BY <3>3, <3>4
  <2> QED
    BY <2>1, <2>2
<1> QED
  BY <1>1, <1>2

\* What the clean-up does to a message that is in the list, and to another.
LEMMA CleanedFacts ==
  ASSUME TypeOK, NEW q, msg' = Cleaned(q), NEW m \in Cmds
  PROVE  /\ msg'[m].state = msg[m].state
         /\ ~In(m, q) => SameMsg(m)
         /\ msg'[m].mem = msg[m].mem \/ m \notin Sync
<1>1. msg[m] \in MsgType
  BY DEF TypeOK
<1>2. CASE ~In(m, q)
  <2>1. msg'[m] = msg[m]
    BY <1>2 DEF Cleaned
  <2> QED
    BY <2>1 DEF SameMsg
<1>3. CASE In(m, q) /\ m \in Sync
  <2>1. msg'[m] = [msg[m] EXCEPT !.done = TRUE]
    BY <1>3 DEF Cleaned
  <2> QED
    BY <1>1, <1>3, <2>1 DEF MsgType
<1>4. CASE In(m, q) /\ m \notin Sync
  <2>1. msg'[m] = Freed(m)
    BY <1>4 DEF Cleaned
  <2> QED
    BY <1>4, <2>1, FreedMsg
<1> QED
  BY <1>2, <1>3, <1>4

LEMMA ExitSafe ==
  ASSUME SInv, \/ ExitSend \/ ExitClear \/ ExitKill
               \/ CleanTxq \/ CleanAckq \/ CleanDoneq,
         NEW m \in Cmds
  PROVE  CmdOK(m)'
<1>0. /\ CmdOK(m) /\ TypeOK /\ UNCHANGED <<call, harm, ring>>
      /\ SameHolders(m) /\ Suffers(m) /\ Walks(m)
  BY DEF SInv, TInv, ExitSend, ExitClear, ExitKill, CleanTxq, CleanAckq,
         CleanDoneq, SameHolders, Suffers, Walks
<1>1. CASE ExitSend \/ ExitClear \/ ExitKill
  <2>1. UNCHANGED <<msg, txq, ackq, tx_doneq>>
    BY <1>1 DEF ExitSend, ExitClear, ExitKill
  <2> QED
    BY <1>0, <2>1, SameLists, Frame DEF SameMsg
<1>2. ASSUME NEW q, msg' = Cleaned(q),
             \/ q = txq /\ txq' = <<>> /\ UNCHANGED <<ackq, tx_doneq>>
             \/ q = ackq /\ ackq' = <<>> /\ UNCHANGED <<txq, tx_doneq>>
             \/ q = tx_doneq /\ tx_doneq' = <<>> /\ UNCHANGED <<txq, ackq>>
      PROVE  CmdOK(m)'
  <2>1. ~In(m, <<>>) /\ Once(m, <<>>)
    BY EmptyIn
  <2>2. CASE ~In(m, q)
    <3>1. SamePlace(m)
      BY <1>0, <1>2, <2>1, <2>2 DEF SamePlace, SameList
    <3> QED
      BY <1>0, <1>2, <2>2, <3>1, CleanedFacts, Frame
  <2>3. CASE In(m, q)
    <3>1. ~Nowhere(m)
      BY <1>2, <2>3 DEF Nowhere
    <3>2. Shrinks(m, txq, txq') /\ Shrinks(m, ackq, ackq')
          /\ Shrinks(m, tx_doneq, tx_doneq')
      BY <1>2, <2>1 DEF Shrinks
    <3>3. Held(m)' <=> Held(m)
      BY <1>0 DEF Held
    <3>4. Linked(m) => Nowhere(m)'
      BY <1>2, <2>1, <2>3, <3>3 DEF Linked, InTwo, Nowhere, In
    <3> QED
      BY <1>0, <1>2, <3>1, <3>2, <3>4, CleanedFacts, Removed
  <2> QED
    BY <2>2, <2>3
<1>3. CASE CleanTxq
  BY <1>2, <1>3 DEF CleanTxq
<1>4. CASE CleanAckq
  BY <1>2, <1>4 DEF CleanAckq
<1>5. CASE CleanDoneq
  BY <1>2, <1>5 DEF CleanDoneq
<1> QED
  BY <1>1, <1>3, <1>4, <1>5

LEMMA SafeInit == Init => SInv
<1> SUFFICES ASSUME Init PROVE SInv
  OBVIOUS
<1>1. TInv
  BY TypeInit DEF TInv
<1>2. ASSUME NEW m \in Cmds PROVE CmdOK(m)
  <2>1. /\ \A c \in Cmds : call[c].hold = NoCmd /\ call[c].pc = "idle"
        /\ ring = NoCmd /\ txq = <<>> /\ ackq = <<>> /\ tx_doneq = <<>>
        /\ msg[m].mem = "none"
    BY DEF Init, At
  <2>2. Nowhere(m) /\ OnlyHolder(m) /\ Once(m, txq) /\ Once(m, ackq)
        /\ Once(m, tx_doneq)
    BY <2>1, EmptyIn DEF Nowhere, Held, OnlyHolder
  <2> QED
    BY <2>1, <2>2, McuAssumption
       DEF CmdOK, Place, Sound, Awaited, Linked, InTwo, Nowhere, OnItsWay
<1> QED
  BY <1>1, <1>2 DEF SInv

LEMMA SafeStep == SInv /\ [Next]_vars => SInv'
<1> SUFFICES ASSUME SInv, [Next]_vars PROVE SInv'
  OBVIOUS
<1>1. TInv'
  BY TypeStep DEF SInv
<1>2. ASSUME NEW m \in Cmds PROVE CmdOK(m)'
  <2>1. ASSUME NEW c \in Cmds,
               \/ Refuse(c) \/ Accept(c) \/ Queue(c)
               \/ Dequeue(c) \/ Drop(c) \/ AndesGetCmdMsgSeq(c) \/ NoSeq(c)
               \/ KickFails(c) \/ KickPasses(c) \/ Post(c) \/ Ring(c)
               \/ WokenAtExit(c) \/ Woken(c) \/ Finish(c)
        PROVE  CmdOK(m)'
    BY <2>1, BeginSafe, DequeueSafe, LetGoSafe, StepSafe, PostSafe, RingSafe,
       AtExitSafe, WokenSafe, FinishSafe
  <2>2. CASE UNCHANGED vars
    <3>1. CmdOK(m) /\ UNCHANGED <<txq, ackq, tx_doneq, ring>> /\ SameHolders(m)
          /\ SameMsg(m) /\ Suffers(m) /\ Walks(m)
      BY <2>2 DEF SInv, vars, SameHolders, SameMsg, Suffers, Walks
    <3> QED
      BY <3>1, SameLists, Frame
  <2> QED
    BY <2>1, <2>2, TaskletSafe, ExitSafe DEF Next
<1> QED
  BY <1>1, <1>2 DEF SInv

LEMMA SafeMeans == SInv => OneList /\ NoDangling /\ AckqHoldsWaiters
<1> SUFFICES ASSUME SInv, NEW m \in Cmds
             PROVE  /\ Unless(m, {"early"}, Linked(m))
                    /\ Unless(m, {"foreign", "early", "exit"},
                         msg[m].mem = "freed" => ~Uses(m) /\ Nowhere(m))
                    /\ Unless(m, {"unsent", "stray", "early", "exit"},
                         In(m, ackq) => call[m].pc \in Inside)
  BY DEF OneList, NoDangling, AckqHoldsWaiters, Linked, OnlyHolder, Unless
<1>1. CmdOK(m)
  BY DEF SInv
<1>2. In(m, ackq) => m \in Sync
  BY DEF SInv, TInv, SyncOK
<1> QED
  BY <1>1, <1>2 DEF CmdOK, Place, Sound, Awaited, OnItsWay, Unless

LEMMA SafeAlways == Spec => []SInv
<1>1. Init => SInv
  BY SafeInit
<1>2. SInv /\ [Next]_vars => SInv'
  BY SafeStep
<1> QED
  BY <1>1, <1>2, PTL DEF Spec

\* A message is in one list at most, or in the hands of one loop, unless its
\* wait timed out while it was on its way.
THEOREM InOneList == Spec => []OneList
BY SafeAlways, SafeMeans, PTL

\* A freed message is in no list and no hands and its call makes no use of
\* it, unless it suffered what NoDangling names.
THEOREM FreedIsUnlinked == Spec => []NoDangling
BY SafeAlways, SafeMeans, PTL

\* A message whose number is taken has a call that will take it out of ackq,
\* unless it suffered what AckqHoldsWaiters names.
THEOREM NumbersAreAwaited == Spec => []AckqHoldsWaiters
BY SafeAlways, SafeMeans, PTL

-----------------------------------------------------------------------------
(***************************************************************************)
(* Numbers.  Two commands of which the MCU may know, or soon will, or that *)
(* are in ackq, have the same number only if both had it marked.           *)
(***************************************************************************)
Sent(x) ==
  \/ x \in wire
  \/ In(x, ackq)
  \/ x = ring /\ x \in Sync
  \/ /\ x \in Sync
     /\ \E c \in Cmds : call[c].hold = x /\ call[c].pc \in {"kick", "post"}
Marked(a, b) ==
  a # b /\ Sent(a) /\ Sent(b) /\ msg[a].seq = msg[b].seq
    => "number" \in harm[a] /\ "number" \in harm[b]
NInv == TInv /\ (\A a, b \in Cmds : Marked(a, b)) /\ OwnAnswer

SameSeq == \A x \in Cmds : msg'[x].seq = msg[x].seq
LEMMA SeqKept ==
  ASSUME TypeOK, NEW m \in Cmds,
         \/ UNCHANGED msg
         \/ AndesFreeCmdMsg(m)
         \/ msg' = [msg EXCEPT ![m].mem = "live"]
         \/ \E s : msg' = [msg EXCEPT ![m] = Answered(@, s)]
         \/ \E s \in States : msg' = Queued(m, s)
         \/ \E q : msg' = Cleaned(q)
  PROVE  SameSeq
<1>1. \A x \in Cmds : msg[x] \in MsgType
  BY DEF TypeOK
<1>2. \A x \in Cmds : Freed(x).seq = msg[x].seq
  BY <1>1 DEF Freed, MsgType
<1>3. CASE \E q : msg' = Cleaned(q)
  <2>1. PICK q : msg' = Cleaned(q)
    BY <1>3
  <2>2. ASSUME NEW x \in Cmds PROVE msg'[x].seq = msg[x].seq
    <3>1. \/ msg'[x] = msg[x] \/ msg'[x] = Freed(x)
          \/ msg'[x] = [msg[x] EXCEPT !.done = TRUE]
      BY <2>1 DEF Cleaned
    <3> QED
      BY <1>1, <1>2, <3>1 DEF MsgType
  <2> QED
    BY <2>2 DEF SameSeq
<1>4. CASE AndesFreeCmdMsg(m)
  BY <1>2, <1>4 DEF AndesFreeCmdMsg, SameSeq, TypeOK
<1>5. CASE \/ UNCHANGED msg
           \/ msg' = [msg EXCEPT ![m].mem = "live"]
           \/ \E s : msg' = [msg EXCEPT ![m] = Answered(@, s)]
           \/ \E s \in States : msg' = Queued(m, s)
  <2>1. \/ msg' = msg
        \/ \E r : msg' = [msg EXCEPT ![m] = r] /\ r.seq = msg[m].seq
    BY <1>1, <1>5, ZenonT(40) DEF Queued, Answered, MsgType
  <2> QED
    BY <2>1 DEF SameSeq, TypeOK
<1> QED
  BY <1>3, <1>4, <1>5

LEMMA CallSeqs ==
  ASSUME TypeOK, HoldOK, NEW c \in Cmds,
         \/ Refuse(c) \/ Accept(c) \/ Queue(c) \/ Dequeue(c) \/ Drop(c)
         \/ NoSeq(c) \/ KickFails(c) \/ KickPasses(c)
         \/ WokenAtExit(c) \/ Woken(c) \/ Finish(c)
  PROVE  SameSeq
<1>1. \/ UNCHANGED msg \/ AndesFreeCmdMsg(c)
      \/ AndesFreeCmdMsg(call[c].hold) /\ call[c].hold \in Cmds
      \/ msg' = [msg EXCEPT ![c].mem = "live"]
      \/ \E s \in States : msg' = Queued(c, s)
  <2>1. CASE Drop(c) \/ KickFails(c)
    <3>1. call[c].hold \in Cmds
      BY <2>1, HeldType DEF Drop, KickFails
    <3> QED
      BY <2>1, <3>1 DEF Drop, KickFails
  <2>2. CASE Queue(c) \/ Finish(c)
    BY <2>2 DEF Queue, Finish, States
  <2> QED
    BY <2>1, <2>2 DEF Refuse, Accept, Dequeue, NoSeq, KickPasses,
                      WokenAtExit, Woken
<1> QED
  BY <1>1, SeqKept

LEMMA RestSeqs ==
  ASSUME TypeOK,
         \/ AndesCmdMsgBh \/ ExitSend \/ ExitClear \/ ExitKill
         \/ CleanTxq \/ CleanAckq \/ CleanDoneq \/ UNCHANGED vars
  PROVE  SameSeq
<1>1. CASE AndesCmdMsgBh /\ tx_doneq # <<>>
  <2>1. Head(tx_doneq) \in Cmds /\ AndesFreeCmdMsg(Head(tx_doneq))
    BY <1>1, TailIn DEF AndesCmdMsgBh, TypeOK
  <2> QED
    BY <2>1, SeqKept
<1>2. CASE msg' = msg
  BY <1>2 DEF SameSeq
<1>3. CASE \E q : msg' = Cleaned(q)
  <2>1. CASE Cmds = {}
    BY <2>1 DEF SameSeq
  <2>2. CASE Cmds # {}
    BY <1>3, <2>2, SeqKept
  <2> QED
    BY <2>1, <2>2
<1> QED
  BY <1>1, <1>2, <1>3
     DEF AndesCmdMsgBh, ExitSend, ExitClear, ExitKill,
         CleanTxq, CleanAckq, CleanDoneq, vars

\* Nothing is sent that was not, and the numbers stay: nothing to mark.
LEMMA NothingNew ==
  ASSUME NInv, TInv', SameSeq, UNCHANGED took,
         \A x \in Cmds : (Sent(x)' => Sent(x)) /\ Suffers(x)
  PROVE  NInv'
<1>1. ASSUME NEW a \in Cmds, NEW b \in Cmds PROVE Marked(a, b)'
  BY DEF NInv, Marked, SameSeq, Suffers
<1>2. OwnAnswer'
  <2> SUFFICES ASSUME NEW m \in Cmds, took[m] \notin {NoCmd, m}
               PROVE  "number" \in harm'[m] /\ "number" \in harm'[took[m]]
    BY DEF OwnAnswer
  <2>1. took[m] \in Cmds
    BY DEF NInv, TInv, TypeOK
  <2> QED
    BY <2>1 DEF NInv, OwnAnswer, Suffers
<1> QED
  BY <1>1, <1>2 DEF NInv

Sends(x) == x \in wire' \/ In(x, ackq') \/ (x = ring' /\ x \in Sync)
LEMMA SentMoved ==
  ASSUME NEW c \in Cmds, NEW p, NEW h, Moved(c, p, h),
         \/ p \notin {"kick", "post"} \/ h \notin Sync
         \/ h = call[c].hold /\ call[c].pc \in {"kick", "post"},
         \A x \in Cmds : Sends(x) => Sent(x)
  PROVE  \A x \in Cmds : Sent(x)' => Sent(x)
<1> SUFFICES ASSUME NEW x \in Cmds, Sent(x)' PROVE Sent(x)
  OBVIOUS
<1>1. CASE Sends(x)
  BY <1>1
<1>2. CASE x \in Sync /\ \E d \in Cmds :
             call'[d].hold = x /\ call'[d].pc \in {"kick", "post"}
  <2>1. PICK d \in Cmds : call'[d].hold = x /\ call'[d].pc \in {"kick", "post"}
    BY <1>2
  <2>2. CASE d = c
    BY <1>2, <2>1, <2>2 DEF Moved, Sent
  <2>3. CASE d # c
    BY <1>2, <2>1, <2>3 DEF Moved, Others, Sent
  <2> QED
    BY <2>2, <2>3
<1> QED
  BY <1>1, <1>2 DEF Sent, Sends, In

LEMMA SentStays ==
  ASSUME UNCHANGED call, \A x \in Cmds : Sends(x) => Sent(x)
  PROVE  \A x \in Cmds : Sent(x)' => Sent(x)
BY DEF Sent, Sends, In

LEMMA SentSame ==
  ASSUME UNCHANGED <<wire, ackq, ring>>
  PROVE  \A x \in Cmds : Sends(x) => Sent(x)
BY DEF Sent, Sends

LEMMA CallNumbers ==
  ASSUME NInv, TInv', NEW c \in Cmds,
         \/ Refuse(c) \/ Accept(c) \/ Queue(c) \/ Dequeue(c) \/ Drop(c)
         \/ NoSeq(c) \/ KickFails(c) \/ KickPasses(c)
         \/ WokenAtExit(c) \/ Woken(c) \/ Finish(c)
  PROVE  NInv'
<1>0. /\ TypeOK /\ HoldOK /\ SyncOK /\ ackq \in Seq(Cmds)
      /\ UNCHANGED <<wire, ring, took>>
  BY DEF NInv, TInv, TypeOK, Refuse, Accept, Queue, Dequeue, Drop, NoSeq,
         KickFails, KickPasses, WokenAtExit, Woken, Finish
<1>1. \E p, h : /\ Moved(c, p, h)
                /\ \/ p \notin {"kick", "post"} \/ h \notin Sync
                   \/ h = call[c].hold /\ call[c].pc \in {"kick", "post"}
  <2>1. CASE Refuse(c) \/ Woken(c)
    <3>1. \E p \in {"returned", "finish"}, x \in {"SUCCESS", "FAILURE"} :
            call' = [call EXCEPT ![c] = [@ EXCEPT !.pc = p, !.ret = x]]
      BY <2>1 DEF Refuse, Woken, Outcomes
    <3> QED
      BY <1>0, <3>1, RetMoved, NamesOfSteps DEF TypeOK, StepNames
  <2>6. CASE Finish(c)
    BY <2>6, FinishMoved DEF NInv
  <2>2. CASE Accept(c) \/ Queue(c) \/ WokenAtExit(c)
    <3>1. \E p \in {"queue", "loop", "returned"} : Goto(c, p)
      BY <2>2 DEF Accept, Queue, WokenAtExit
    <3> QED
      BY <1>0, <3>1, GotoMoved, NamesOfSteps DEF TypeOK, StepNames
  <2>3. CASE Dequeue(c) \/ Drop(c) \/ KickFails(c)
    <3>1. \/ \E p \in {"wait", "returned"} : Goto(c, p)
          \/ \E p \in {"check", "loop", "returned"}, h \in Cmds \cup {NoCmd} :
               call' = [call EXCEPT ![c] = At(p, h)]
      BY <1>0, <2>3, TailIn
         DEF Dequeue, Drop, KickFails, LoopSucceeds, LoopFails, GoOn, TypeOK
    <3>2. CASE \E p \in {"wait", "returned"} : Goto(c, p)
      BY <1>0, <3>2, GotoMoved, NamesOfSteps DEF TypeOK, StepNames
    <3>3. CASE \E p \in {"check", "loop", "returned"}, h \in Cmds \cup {NoCmd} :
                 call' = [call EXCEPT ![c] = At(p, h)]
      BY <1>0, <3>3, AtMoved, NamesOfSteps DEF TypeOK, StepNames
    <3> QED
      BY <3>1, <3>2, <3>3
  <2>4. CASE NoSeq(c)
    BY <1>0, <2>4, GotoMoved, NamesOfSteps DEF NoSeq, TypeOK, StepNames
  <2>5. CASE KickPasses(c)
    BY <1>0, <2>5, GotoMoved, NamesOfSteps DEF KickPasses, TypeOK, StepNames
  <2> QED
    BY <2>1, <2>2, <2>3, <2>4, <2>5, <2>6
<1>2. \A x \in Cmds : Sends(x) => Sent(x)
  <2>1. ackq' = ackq \/ ackq' = Unlinked(ackq, c)
    BY DEF Refuse, Accept, Queue, Dequeue, Drop, NoSeq,
           KickFails, KickPasses, WokenAtExit, Woken, Finish
  <2>2. \A x \in Cmds : In(x, ackq') => In(x, ackq)
    BY <1>0, <2>1, UnlinkedFacts
  <2> QED
    BY <1>0, <2>2 DEF Sent, Sends
<1>3. \A x \in Cmds : Sent(x)' => Sent(x)
  BY <1>1, <1>2, SentMoved
<1>4. SameSeq
  BY <1>0, CallSeqs
<1>5. \A x \in Cmds : Suffers(x)
  <2>1. CASE KickFails(c)
    <3> DEFINE h == call[c].hold
               g == Harm({c}, "unsent")
    <3>1. harm' = [g EXCEPT ![h] = @ \cup {r \in {"foreign"} : h # c}]
      BY <2>1 DEF KickFails
    <3>2. (\A x \in Cmds : harm[x] \subseteq g[x]) /\ DOMAIN g = Cmds
      BY DEF Harm
    <3> HIDE DEF g, h
    <3>3. \A x \in Cmds : g[x] \subseteq harm'[x]
      BY <3>1, <3>2
    <3> QED
      BY <3>2, <3>3 DEF Suffers
  <2>2. CASE Refuse(c) \/ WokenAtExit(c) \/ Woken(c) \/ Finish(c)
    <3>1. \E S, r : harm' = Harm(S, r)
      BY <2>2 DEF Refuse, WokenAtExit, Woken, Finish
    <3> QED
      BY <1>0, <3>1, HarmGrows
  <2> QED
    BY <2>1, <2>2, HarmSame DEF Accept, Queue, Dequeue, Drop, NoSeq,
                                KickPasses
<1> QED
  BY <1>0, <1>3, <1>4, <1>5, NothingNew

LEMMA PostNumbers ==
  ASSUME NInv, TInv', NEW c \in Cmds, Post(c)
  PROVE  NInv'
<1> DEFINE h == call[c].hold
<1>0. TypeOK /\ TInv /\ ackq \in Seq(Cmds) /\ call[c].pc = "post"
  BY DEF NInv, TInv, TypeOK, Post
<1>1. /\ h \in Cmds
      /\ ackq' = IF h \in Sync THEN Append(ackq, h) ELSE ackq
      /\ msg' = Queued(h, IF h \in Sync THEN "wait_ack" ELSE "tx_done")
      /\ ring' = h /\ Moved(c, "ring", NoCmd)
      /\ UNCHANGED <<wire, took, harm>>
  BY <1>0, PostFacts
<1>2. h \in Sync => Sent(h)
  BY <1>0 DEF Sent
<1>3. \A x \in Cmds : Sends(x) => Sent(x)
  <2>1. \A x \in Cmds : In(x, ackq') => In(x, ackq) \/ (x = h /\ h \in Sync)
    BY <1>0, <1>1, AppendIn
  <2> HIDE DEF h
  <2> QED
    BY <1>1, <1>2, <2>1 DEF Sent, Sends
<1>4. \A x \in Cmds : Sent(x)' => Sent(x)
  BY <1>1, <1>3, SentMoved
<1>5. SameSeq
  <2>1. \E s \in States : msg' = Queued(h, s)
    BY <1>1 DEF States
  <2> QED
    BY <1>0, <1>1, <2>1, SeqKept
<1>6. \A x \in Cmds : Suffers(x)
  BY <1>1, HarmSame
<1> QED
  BY <1>1, <1>4, <1>5, <1>6, NothingNew

LEMMA RingNumbers ==
  ASSUME NInv, TInv', NEW c \in Cmds, Ring(c)
  PROVE  NInv'
<1>1. /\ ring \in Cmds /\ ring' = NoCmd
      /\ wire' = IF ctl.init /\ ring \in Sync THEN wire \cup {ring} ELSE wire
      /\ \/ Moved(c, "loop", NoCmd) /\ harm' = harm
         \/ Moved(c, "returned", NoCmd)
            /\ harm' = [Harm({c}, "unsent") EXCEPT ![ring] = @ \cup {"stray"}]
      /\ UNCHANGED <<msg, ackq, took>>
  BY RingFacts DEF NInv
<1>2. \A x \in Cmds : Sends(x) => Sent(x)
  BY <1>1, McuAssumption DEF Sent, Sends
<1>3. \A x \in Cmds : Sent(x)' => Sent(x)
  <2>1. \E p : Moved(c, p, NoCmd) /\ p \notin {"kick", "post"}
    BY <1>1
  <2> QED
    BY <1>2, <2>1, SentMoved
<1>4. \A x \in Cmds : Suffers(x)
  <2>1. CASE harm' = harm
    BY <2>1, HarmSame
  <2>2. CASE harm' = [Harm({c}, "unsent") EXCEPT ![ring] = @ \cup {"stray"}]
    BY <2>2, <1>1 DEF Harm, Suffers
  <2> QED
    BY <1>1, <2>1, <2>2
<1> QED
  BY <1>1, <1>3, <1>4, NothingNew DEF SameSeq

\* The number a command gets is that of no other in ackq; what else may have
\* it is marked.
LEMMA SeqNumbers ==
  ASSUME NInv, TInv', NEW c \in Cmds, AndesGetCmdMsgSeq(c)
  PROVE  NInv'
<1> DEFINE h == call[c].hold
           s == NextSeq(ctl.cmd_seq)
           R == Reused(h, s)
<1>0. /\ TypeOK /\ TInv /\ h \in Cmds /\ h \in Sync
      /\ UNCHANGED <<wire, ackq, ring, took>>
  BY HeldType DEF NInv, TInv, AndesGetCmdMsgSeq
<1>1. PICK p \in {"spin", "kick"} :
        Moved(c, p, h) /\ (FreeSeqs = {} => p = "spin")
  BY <1>0, GotoMoved, NamesOfSteps DEF AndesGetCmdMsgSeq, TypeOK, StepNames
<1>2. CASE FreeSeqs = {}
  <2>1. p = "spin" /\ UNCHANGED <<msg, harm>>
    BY <1>1, <1>2 DEF AndesGetCmdMsgSeq
  <2>2. \A x \in Cmds : Sent(x)' => Sent(x)
    BY <1>0, <1>1, <2>1, SentSame, SentMoved
  <2> QED
    BY <1>0, <2>1, <2>2, HarmSame, NothingNew DEF SameSeq
<1>3. CASE FreeSeqs # {}
  <2>1. /\ msg' = [msg EXCEPT ![h].seq = s]
        /\ harm' = Harm({x \in {h} \cup R : R # {}}, "number")
    BY <1>3 DEF AndesGetCmdMsgSeq
  <2>2. s \notin UsedSeqs
    BY <1>0, <1>3, NextSeqFacts DEF TypeOK, CtlType
  <2>3. \A x \in Cmds :
          x # h => (Sent(x)' => Sent(x)) /\ msg'[x].seq = msg[x].seq
    <3>1. \A x \in Cmds : x # h => (Sent(x)' => Sent(x))
      BY <1>0, <1>1 DEF Sent, In, Moved, Others
    <3>2. \A x \in Cmds : x # h => msg'[x] = msg[x]
      BY <1>0, <2>1 DEF TypeOK
    <3> QED
      BY <3>1, <3>2
  <2>4. msg'[h].seq = s
    <3> HIDE DEF s, h
    <3> QED
      BY <1>0, <2>1 DEF TypeOK, MsgType
  <2>5. \A x \in Cmds : Suffers(x) /\ (x \in {y \in {h} \cup R : R # {}}
                                         => "number" \in harm'[x])
    BY <1>0, <2>1, HarmGrows
  <2>6. ASSUME NEW b \in Cmds, b # h, Sent(b)', msg'[b].seq = s
        PROVE  "number" \in harm'[h] /\ "number" \in harm'[b]
    <3>1. Sent(b) /\ msg[b].seq = s
      BY <2>3, <2>6
    <3>2. ~In(b, ackq)
      BY <2>2, <3>1 DEF In, UsedSeqs
    <3>3. b \in R
      BY <2>6, <3>1, <3>2 DEF Sent, Reused, Pending
    <3> HIDE DEF R, h
    <3> QED
      BY <1>0, <2>5, <3>3
  <2>7. ASSUME NEW a \in Cmds, NEW b \in Cmds PROVE Marked(a, b)'
    <3> HIDE DEF R, h, s
    <3>1. CASE a # h /\ b # h
      <4>1. Marked(a, b)
        BY DEF NInv
      <4> QED
        BY <2>3, <2>5, <3>1, <4>1 DEF Marked, Suffers
    <3>2. CASE a = h
      BY <2>4, <2>6, <3>2 DEF Marked
    <3>3. CASE b = h
      BY <2>4, <2>6, <3>3 DEF Marked
    <3> QED
      BY <3>1, <3>2, <3>3
  <2>8. OwnAnswer'
    <3> SUFFICES ASSUME NEW m \in Cmds, took[m] \notin {NoCmd, m}
                 PROVE  "number" \in harm'[m] /\ "number" \in harm'[took[m]]
      BY <1>0 DEF OwnAnswer
    <3>1. took[m] \in Cmds
      BY <1>0 DEF TypeOK
    <3> QED
      BY <2>5, <3>1 DEF NInv, OwnAnswer, Suffers
  <2> QED
    BY <2>7, <2>8 DEF NInv
<1> QED
  BY <1>2, <1>3

LEMMA AnswerNumbers ==
  ASSUME NInv, TInv', NEW m \in Cmds, AndesMTRxEventHandler(m)
  PROVE  NInv'
<1> DEFINE r == Receiver(m)
<1>0. /\ TypeOK /\ m \in wire /\ wire' \subseteq wire
      /\ UNCHANGED <<call, ackq, ring, harm>>
  BY DEF NInv, TInv, AndesMTRxEventHandler
<1>1. \A x \in Cmds : Sent(x)' => Sent(x)
  BY <1>0, SentStays DEF Sent, Sends
<1>2. CASE UNCHANGED <<msg, took>>
  BY <1>0, <1>1, <1>2, HarmSame, NothingNew DEF SameSeq
<1>3. CASE ~UNCHANGED <<msg, took>>
  <2>1. /\ \E s : msg' = [msg EXCEPT ![r] = Answered(@, s)]
        /\ took' = [took EXCEPT ![r] = m]
        /\ Matching(m) # {}
    BY <1>3 DEF AndesMTRxEventHandler
  <2>2. r \in Cmds /\ In(r, ackq) /\ msg[r].seq = msg[m].seq
    BY <1>0, <2>1, ReceiverFacts
  <2> HIDE DEF r
  <2>3. SameSeq
    BY <1>0, <2>1, <2>2, SeqKept
  <2>4. ASSUME NEW a \in Cmds, NEW b \in Cmds PROVE Marked(a, b)'
    BY <1>0, <1>1, <2>3 DEF NInv, Marked, SameSeq
  <2>5. r = m \/ ("number" \in harm[r] /\ "number" \in harm[m])
    <3>1. Sent(r) /\ Sent(m) /\ Marked(r, m)
      BY <1>0, <2>2 DEF Sent, NInv
    <3> QED
      BY <2>2, <3>1 DEF Marked
  <2>6. OwnAnswer'
    BY <1>0, <2>1, <2>2, <2>5 DEF NInv, OwnAnswer, TypeOK
  <2> QED
    BY <2>4, <2>6 DEF NInv
<1> QED
  BY <1>2, <1>3

LEMMA RestNumbers ==
  ASSUME NInv, TInv',
         \/ AndesCmdMsgBh \/ ExitSend \/ ExitClear \/ ExitKill
         \/ CleanTxq \/ CleanAckq \/ CleanDoneq \/ UNCHANGED vars
  PROVE  NInv'
<1>0. TypeOK /\ UNCHANGED <<call, wire, ring, took, harm>>
  BY DEF NInv, TInv, AndesCmdMsgBh, ExitSend, ExitClear, ExitKill,
         CleanTxq, CleanAckq, CleanDoneq, vars
<1>1. ackq' = ackq \/ ackq' = <<>>
  BY DEF AndesCmdMsgBh, ExitSend, ExitClear, ExitKill,
         CleanTxq, CleanAckq, CleanDoneq, vars
<1>2. \A x \in Cmds : Sent(x)' => Sent(x)
  BY <1>0, <1>1, EmptyIn, SentStays DEF Sent, Sends
<1>3. SameSeq
  BY <1>0, RestSeqs
<1> QED
  BY <1>0, <1>2, <1>3, HarmSame, NothingNew

LEMMA NumberInit == Init => NInv
<1> SUFFICES ASSUME Init PROVE NInv
  OBVIOUS
<1>1. TInv
  BY TypeInit DEF TInv
<1>2. ASSUME NEW x \in Cmds PROVE ~Sent(x)
  <2>1. /\ \A c \in Cmds : call[c].pc = "idle"
        /\ wire = {} /\ ackq = <<>> /\ ring = NoCmd
    BY DEF Init, At
  <2> QED
    BY <2>1, EmptyIn DEF Sent
<1> QED
  BY <1>1, <1>2 DEF NInv, Marked, OwnAnswer, Init

LEMMA NumberStep == NInv /\ [Next]_vars => NInv'
<1> SUFFICES ASSUME NInv, [Next]_vars PROVE NInv'
  OBVIOUS
<1>1. TInv'
  BY TypeStep DEF NInv
<1> QED
  BY <1>1, CallNumbers, PostNumbers, RingNumbers, SeqNumbers, AnswerNumbers, RestNumbers
     DEF Next

\* A command is completed by its own answer, unless its number had been that
\* of a command the MCU may still answer, or of one about to be queued.
THEOREM AnswersMatch == Spec => []OwnAnswer
<1>1. Init => NInv
  BY NumberInit
<1>2. NInv /\ [Next]_vars => NInv'
  BY NumberStep
<1>3. NInv => OwnAnswer
  BY DEF NInv
<1> QED
  BY <1>1, <1>2, <1>3, PTL DEF Spec
-----------------------------------------------------------------------------
(***************************************************************************)
(* Answers.  Until MCU_INIT is cleared, nothing but an answer completes a  *)
(* command whose call has not returned, and whose loop did not fail.       *)
(***************************************************************************)
Failed(m) == harm[m] \cap {"refused", "unsent", "foreign"} # {}
Claims(m) ==
  \/ /\ m \notin StaRec
     /\ call[m].pc \in {"finish", "returned"} /\ call[m].ret = "SUCCESS"
  \/ m \in StaRec /\ call[m].pc = "returned" /\ call[m].ret = "FAILURE"
Heard(m) ==
  m \in Sync /\ ctl.init /\ ~Failed(m) =>
    /\ msg[m].done /\ call[m].pc # "returned" => took[m] # NoCmd
    /\ msg[m].status = "FAILURE" => took[m] # NoCmd
    /\ Claims(m) => took[m] # NoCmd
ExitOrder == ctl.init <=> exit \in {"no", "clear"}
VInv == SInv /\ ExitOrder /\ \A m \in Cmds : Heard(m)

\* What a step that answers nothing leaves of one command.
StillInit == ctl'.init => ctl.init
StillDone(m) ==
  m \in Sync => /\ msg'[m].done => msg[m].done
                /\ msg'[m].status = msg[m].status
StillCalls(m) ==
  m \in Sync =>
    /\ call[m].pc = "returned" => call'[m].pc = "returned"
    /\ Claims(m)' => Claims(m) \/ Failed(m)'

LEMMA ToldFrame ==
  ASSUME NEW m \in Cmds, Heard(m), StillInit, Suffers(m), UNCHANGED took,
         StillDone(m), StillCalls(m)
  PROVE  Heard(m)'
BY DEF Heard, StillInit, Suffers, StillDone, StillCalls, Failed

\* A call at one of the steps that wait for nothing.
LEMMA CallStays ==
  ASSUME NEW c \in Cmds, NEW p, NEW h, Moved(c, p, h), NEW m \in Cmds,
         m = c /\ m \in Sync =>
           call[c].pc # "returned" /\ (p \in {"finish", "returned"} => Failed(m)')
  PROVE  StillCalls(m)
BY DEF Moved, Others, StillCalls, Claims

LEMMA DoneStays ==
  ASSUME TypeOK, NEW x \in Cmds, NEW m \in Cmds,
         \/ UNCHANGED msg
         \/ AndesFreeCmdMsg(x) /\ (x \notin Sync \/ x # m)
         \/ msg' = [msg EXCEPT ![x].mem = "live"]
         \/ \E n : msg' = [msg EXCEPT ![x].seq = n]
         \/ \E s \in States : msg' = Queued(x, s)
  PROVE  StillDone(m)
<1>0. \A y \in Cmds : msg[y] \in MsgType
  BY DEF TypeOK
<1>1. CASE m # x \/ UNCHANGED msg
  <2>1. msg'[m] = msg[m]
    BY <1>1 DEF AndesFreeCmdMsg, Queued, TypeOK
  <2> QED
    BY <2>1 DEF StillDone
<1>2. CASE m = x /\ m \in Sync /\ ~UNCHANGED msg
  <2>1. \/ msg' = [msg EXCEPT ![m].mem = "live"]
        \/ \E n : msg' = [msg EXCEPT ![m].seq = n]
        \/ \E s \in States : msg' = [msg EXCEPT ![m].state = s]
    BY <1>2 DEF Queued
  <2>2. \E r : msg' = [msg EXCEPT ![m] = r] /\ r.done = msg[m].done
              /\ r.status = msg[m].status
    BY <1>0, <2>1 DEF MsgType
  <2> QED
    BY <2>2 DEF StillDone, TypeOK
<1> QED
  BY <1>1, <1>2 DEF StillDone

\* The steps of a call that answer nothing and free no message of Sync.
LEMMA CallTold ==
  ASSUME VInv, NEW c \in Cmds, NEW m \in Cmds,
         \/ Accept(c) \/ Queue(c) \/ Dequeue(c) \/ Drop(c)
         \/ AndesGetCmdMsgSeq(c) \/ NoSeq(c) \/ KickPasses(c)
  PROVE  Heard(m)'
<1>0. TypeOK /\ HoldOK /\ Heard(m) /\ call \in [Cmds -> CallType]
  BY DEF VInv, SInv, TInv, TypeOK
<1>1. \E p \in Steps : \E h :
        /\ Moved(c, p, h) /\ call[c].pc # "returned"
        /\ p \in {"finish", "returned"} => c \notin Sync
  <2>1. CASE \/ Accept(c) \/ Queue(c) \/ AndesGetCmdMsgSeq(c) \/ NoSeq(c)
             \/ KickPasses(c) \/ (Dequeue(c) /\ txq = <<>>)
    <3>1. /\ call[c].pc # "returned"
          /\ \E p \in {"queue", "loop", "spin", "kick", "post", "wait",
                       "returned"} :
               Goto(c, p) /\ (p = "returned" => c \notin Sync)
      BY <2>1 DEF Accept, Queue, AndesGetCmdMsgSeq, NoSeq, KickPasses, Dequeue,
                  LoopSucceeds
    <3> QED
      BY <1>0, <3>1, GotoMoved, NamesOfSteps DEF StepNames
  <2>2. CASE Drop(c) \/ (Dequeue(c) /\ txq # <<>>)
    <3>1. /\ call[c].pc # "returned"
          /\ \E p \in {"loop", "check"}, h \in Cmds \cup {NoCmd} :
               call' = [call EXCEPT ![c] = At(p, h)]
      BY <1>0, <2>2, TailIn DEF Drop, GoOn, Dequeue, TypeOK
    <3> QED
      BY <1>0, <3>1, AtMoved, NamesOfSteps, ZenonT(40) DEF StepNames
  <2> QED
    BY <2>1, <2>2
<1>2. StillCalls(m)
  BY <1>1, CallStays
<1>3. StillDone(m)
  <2>1. CASE Drop(c)
    BY <1>0, <2>1, HeldType, DoneStays DEF Drop
  <2>2. CASE AndesGetCmdMsgSeq(c)
    BY <1>0, <2>2, HeldType, DoneStays DEF AndesGetCmdMsgSeq
  <2>3. CASE ~Drop(c) /\ ~AndesGetCmdMsgSeq(c)
    BY <1>0, <2>3, DoneStays
       DEF Accept, Queue, Dequeue, NoSeq, KickPasses, States
  <2> QED
    BY <2>1, <2>2, <2>3
<1>4. Suffers(m)
  BY <1>0, HarmGrows, HarmSame
     DEF Accept, Queue, Dequeue, Drop, AndesGetCmdMsgSeq, NoSeq, KickPasses
<1>5. StillInit /\ UNCHANGED took
  BY <1>0 DEF Accept, Queue, Dequeue, Drop, AndesGetCmdMsgSeq, NoSeq,
              KickPasses, AndesBhSchedule, StillInit, TypeOK, CtlType
<1> QED
  BY <1>0, <1>2, <1>3, <1>4, <1>5, ToldFrame
\* A command that is refused fails; a message the loop cannot send, and the
\* call whose loop it is, are marked.
LEMMA RefuseTold ==
  ASSUME VInv, NEW c \in Cmds, Refuse(c), NEW m \in Cmds
  PROVE  Heard(m)'
<1>0. TypeOK /\ Heard(m) /\ call \in [Cmds -> CallType]
      /\ UNCHANGED <<ctl, took>> /\ Suffers(m) /\ (m = c => Failed(m)')
  BY HarmGrows DEF VInv, SInv, TInv, TypeOK, Refuse, Failed
<1>1. Moved(c, "returned", call[c].hold) /\ call'[c].ret = "FAILURE"
  <2>1. call' = [call EXCEPT ![c] = [@ EXCEPT !.pc = "returned",
                                              !.ret = "FAILURE"]]
    BY DEF Refuse
  <2> QED
    BY <1>0, <2>1, RetMoved, NamesOfSteps DEF StepNames
<1>2. CASE m = c
  BY <1>0, <1>2 DEF Heard
<1>3. CASE m # c
  <2>1. StillDone(m)
    BY <1>0, <1>3, DoneStays DEF Refuse
  <2>2. StillCalls(m)
    BY <1>1, <1>3, CallStays
  <2> QED
    BY <1>0, <2>1, <2>2, ToldFrame DEF StillInit
<1> QED
  BY <1>2, <1>3

LEMMA KickFailsTold ==
  ASSUME VInv, NEW c \in Cmds, KickFails(c), NEW m \in Cmds
  PROVE  Heard(m)'
<1> DEFINE h == call[c].hold
           g == Harm({c}, "unsent")
<1>0. TypeOK /\ Heard(m) /\ h \in Cmds /\ call[c].pc = "kick"
  BY HeldType DEF VInv, SInv, TInv, KickFails
<1>1. Moved(c, "returned", NoCmd)
  BY <1>0, AtMoved, NamesOfSteps DEF KickFails, LoopFails, TypeOK, StepNames
<1>2. harm' = [g EXCEPT ![h] = @ \cup {r \in {"foreign"} : h # c}]
  BY DEF KickFails
<1>3. (\A x \in Cmds : harm[x] \subseteq g[x]) /\ DOMAIN g = Cmds
      /\ "unsent" \in g[c]
  BY DEF Harm
<1>4. AndesFreeCmdMsg(h) /\ UNCHANGED took /\ StillInit
  BY <1>0 DEF KickFails, AndesBhSchedule, StillInit, TypeOK, CtlType
<1> HIDE DEF g, h
<1>5. Suffers(m) /\ (m = c \/ m = h => Failed(m)')
  BY <1>0, <1>2, <1>3 DEF Suffers, Failed
<1>6. CASE m = c \/ m = h
  BY <1>5, <1>6 DEF Heard
<1>7. CASE m # c /\ m # h
  <2>1. StillDone(m)
    BY <1>0, <1>4, <1>7, DoneStays
  <2>2. StillCalls(m)
    BY <1>1, <1>7, CallStays
  <2> QED
    BY <1>0, <1>4, <1>5, <2>1, <2>2, ToldFrame
<1> QED
  BY <1>6, <1>7

LEMMA PostTold ==
  ASSUME VInv, NEW c \in Cmds, Post(c), NEW m \in Cmds
  PROVE  Heard(m)'
<1> DEFINE h == call[c].hold
<1>0. TInv /\ TypeOK /\ Heard(m) /\ call[c].pc = "post"
  BY DEF VInv, SInv, TInv, Post
<1>1. /\ h \in Cmds
      /\ msg' = Queued(h, IF h \in Sync THEN "wait_ack" ELSE "tx_done")
      /\ Moved(c, "ring", NoCmd)
      /\ UNCHANGED <<ctl, took, harm>>
  BY <1>0, PostFacts
<1> HIDE DEF h
<1>2. StillDone(m)
  <2>1. \E s \in States : msg' = Queued(h, s)
    BY <1>1 DEF States
  <2> QED
    BY <1>0, <1>1, <2>1, DoneStays
<1>3. StillCalls(m)
  BY <1>0, <1>1, CallStays
<1> QED
  BY <1>0, <1>1, <1>2, <1>3, HarmSame, ToldFrame DEF StillInit

LEMMA RingTold ==
  ASSUME VInv, NEW c \in Cmds, Ring(c), NEW m \in Cmds
  PROVE  Heard(m)'
<1>0. TInv /\ TypeOK /\ Heard(m)
  BY DEF VInv, SInv, TInv
<1>1. /\ ring \in Cmds /\ call[c].pc = "ring"
      /\ \/ Moved(c, "loop", NoCmd) /\ harm' = harm
         \/ /\ Moved(c, "returned", NoCmd)
            /\ harm' = [Harm({c}, "unsent") EXCEPT ![ring] = @ \cup {"stray"}]
      /\ UNCHANGED <<msg, ctl, took>>
  BY <1>0, RingFacts
<1>2. StillDone(m)
  BY <1>1 DEF StillDone
<1>3. CASE Moved(c, "loop", NoCmd) /\ harm' = harm
  <2>1. StillCalls(m)
    BY <1>1, <1>3, CallStays
  <2> QED
    BY <1>0, <1>1, <1>2, <1>3, <2>1, HarmSame, ToldFrame DEF StillInit
<1>4. CASE /\ Moved(c, "returned", NoCmd)
           /\ harm' = [Harm({c}, "unsent") EXCEPT ![ring] = @ \cup {"stray"}]
  <2>1. Suffers(m) /\ (m = c => Failed(m)')
    BY <1>1, <1>4 DEF Harm, Suffers, Failed
  <2>2. StillCalls(m)
    BY <1>1, <1>4, <2>1, CallStays
  <2> QED
    BY <1>0, <1>1, <1>2, <2>1, <2>2, ToldFrame DEF StillInit
<1> QED
  BY <1>1, <1>3, <1>4

\* A wait ends with SUCCESS only when ack_done is completed.
LEMMA WaitTold ==
  ASSUME VInv, NEW c \in Cmds, WokenAtExit(c) \/ Woken(c) \/ Finish(c),
         NEW m \in Cmds
  PROVE  Heard(m)'
<1>0. /\ TypeOK /\ Heard(m) /\ call \in [Cmds -> CallType]
      /\ UNCHANGED <<ctl, took>> /\ StillInit
  BY DEF VInv, SInv, TInv, TypeOK, WokenAtExit, Woken, Finish, StillInit
<1>1. Suffers(m)
  BY <1>0, HarmGrows DEF WokenAtExit, Woken, Finish
<1>2. CASE WokenAtExit(c)
  BY <1>0, <1>2 DEF WokenAtExit, Heard
<1>3. CASE Woken(c)
  <2>1. PICK r \in Outcomes(c) :
          call' = [call EXCEPT ![c] = [@ EXCEPT !.pc = "finish", !.ret = r]]
    BY <1>3 DEF Woken
  <2>2. r \in {"SUCCESS", "FAILURE"} /\ (r = "SUCCESS" => msg[c].done)
    BY DEF Outcomes
  <2>3. Moved(c, "finish", call[c].hold) /\ call'[c].ret = r
    BY <1>0, <2>1, <2>2, RetMoved, NamesOfSteps DEF StepNames
  <2>4. UNCHANGED msg /\ call[c].pc = "wait"
    BY <1>3 DEF Woken
  <2>5. CASE m = c
    BY <1>0, <1>1, <2>2, <2>3, <2>4, <2>5
       DEF Heard, Moved, Claims, Suffers, Failed
  <2>6. CASE m # c
    BY <1>0, <1>1, <2>3, <2>4, <2>6, CallStays, DoneStays, ToldFrame
  <2> QED
    BY <2>5, <2>6
<1>4. CASE Finish(c)
  <2>1. Moved(c, "returned", call[c].hold) /\ call'[c].ret = FinalRet(c)
        /\ call[c].pc = "finish"
    BY <1>4, FinishMoved DEF Finish, VInv, SInv
  <2>2. StillDone(m)
    BY <1>0, <1>4, DoneStays DEF Finish, States
  <2>3. CASE m # c
    <3>1. StillCalls(m)
      BY <2>1, <2>3, CallStays
    <3> QED
      BY <1>0, <1>1, <2>2, <3>1, ToldFrame
  <2>4. CASE m = c
    <3>1. Claims(m)' => Claims(m) \/ (m \in StaRec /\ msg[m].status = "FAILURE")
      BY <2>1, <2>4 DEF Moved, Claims, FinalRet
    <3> QED
      BY <1>0, <1>1, <2>1, <2>2, <2>4, <3>1
         DEF Heard, Moved, Suffers, StillInit, StillDone, Failed
  <2> QED
    BY <2>3, <2>4
<1> QED
  BY <1>2, <1>3, <1>4

LEMMA AnswerTold ==
  ASSUME VInv, NEW x \in Cmds, AndesMTRxEventHandler(x), NEW m \in Cmds
  PROVE  Heard(m)'
<1>0. TypeOK /\ Heard(m) /\ UNCHANGED <<call, ctl, harm>>
  BY DEF VInv, SInv, TInv, AndesMTRxEventHandler
<1>1. CASE UNCHANGED <<msg, took>>
  BY <1>0, <1>1 DEF Heard, Failed, Claims
<1>2. CASE ~UNCHANGED <<msg, took>>
  <2> DEFINE r == Receiver(x)
  <2>1. /\ \E s : msg' = [msg EXCEPT ![r] = Answered(@, s)]
        /\ took' = [took EXCEPT ![r] = x]
        /\ Matching(x) # {}
    BY <1>2 DEF AndesMTRxEventHandler
  <2>2. r \in Cmds
    BY <1>0, <2>1, ReceiverFacts
  <2> HIDE DEF r
  <2>3. CASE m = r
    BY <2>1, <2>2, <2>3, McuAssumption DEF Heard, TypeOK, TInv, SInv, VInv
  <2>4. CASE m # r
    <3>1. msg'[m] = msg[m] /\ took'[m] = took[m]
      BY <1>0, <2>1, <2>2, <2>4 DEF TypeOK
    <3> QED
      BY <1>0, <3>1 DEF Heard, Failed, Claims
  <2> QED
    BY <2>3, <2>4
<1> QED
  BY <1>1, <1>2

\* The tasklet completes only what has returned; the end completes more, but
\* with MCU_INIT clear.
LEMMA RestTold ==
  ASSUME VInv,
         \/ AndesCmdMsgBh \/ ExitSend \/ ExitClear \/ ExitKill
         \/ CleanTxq \/ CleanAckq \/ CleanDoneq \/ UNCHANGED vars,
         NEW m \in Cmds
  PROVE  Heard(m)'
<1>0. /\ TypeOK /\ CmdOK(m) /\ Heard(m) /\ UNCHANGED <<call, took, harm>>
      /\ StillInit
  BY DEF VInv, SInv, TInv, AndesCmdMsgBh, ExitSend, ExitClear, ExitKill,
         CleanTxq, CleanAckq, CleanDoneq, vars, StillInit, AndesBhSchedule,
         TypeOK, CtlType
<1>1. CASE UNCHANGED msg
  BY <1>0, <1>1 DEF Heard, Failed, Claims, StillInit
<1>2. CASE AndesCmdMsgBh /\ tx_doneq # <<>>
  <2> DEFINE h == Head(tx_doneq)
  <2>1. h \in Cmds /\ In(h, tx_doneq) /\ AndesFreeCmdMsg(h)
    BY <1>0, <1>2, TailIn DEF AndesCmdMsgBh, TypeOK
  <2> HIDE DEF h
  <2>2. CASE m = h /\ m \in Sync
    <3>1. call[m].pc = "returned"
      BY <1>0, <2>1, <2>2 DEF CmdOK, Place
    <3>2. msg'[m].status = msg[m].status
      <4>1. Freed(m).status = msg[m].status
        BY <1>0 DEF Freed, TypeOK, MsgType
      <4> QED
        BY <1>0, <2>1, <2>2, <4>1 DEF AndesFreeCmdMsg, TypeOK
    <3> QED
      BY <1>0, <3>1, <3>2 DEF Heard, Failed, Claims, StillInit
  <2>3. CASE m # h \/ m \notin Sync
    <3>1. StillDone(m)
      BY <1>0, <2>1, <2>3, DoneStays DEF StillDone
    <3> QED
      BY <1>0, <3>1 DEF Heard, Failed, Claims, StillInit, StillDone
  <2> QED
    BY <2>2, <2>3
<1>3. CASE CleanTxq \/ CleanAckq \/ CleanDoneq
  BY <1>0, <1>3 DEF VInv, ExitOrder, StillInit, CleanTxq, CleanAckq,
                    CleanDoneq, Heard
<1> QED
  BY <1>1, <1>2, <1>3 DEF AndesCmdMsgBh, ExitSend, ExitClear, ExitKill, vars

LEMMA ExitOrdered ==
  ASSUME SInv, ExitOrder, Next \/ UNCHANGED vars
  PROVE  ExitOrder'
<1>0. TypeOK /\ ExitOrder
  BY DEF SInv, TInv
<1>1. ASSUME NEW c \in Cmds,
             \/ Refuse(c) \/ Accept(c) \/ Queue(c)
             \/ Dequeue(c) \/ Drop(c) \/ AndesGetCmdMsgSeq(c) \/ NoSeq(c)
             \/ KickFails(c) \/ KickPasses(c) \/ Post(c) \/ Ring(c)
             \/ WokenAtExit(c) \/ Woken(c) \/ Finish(c)
             \/ AndesMTRxEventHandler(c)
      PROVE  ExitOrder'
  <2>1. exit' = exit /\ ctl'.init = ctl.init
    BY <1>0, <1>1
       DEF Refuse, Accept, Queue, Dequeue, Drop, AndesGetCmdMsgSeq, NoSeq,
           KickFails, KickPasses, Post, Ring, WokenAtExit, Woken, Finish,
           AndesMTRxEventHandler, AndesBhSchedule, TypeOK, CtlType
  <2> QED
    BY <1>0, <2>1 DEF ExitOrder
<1>2. CASE \/ AndesCmdMsgBh \/ ExitSend \/ ExitClear \/ ExitKill
           \/ CleanTxq \/ CleanAckq \/ CleanDoneq \/ UNCHANGED vars
  BY <1>0, <1>2 DEF ExitOrder, AndesCmdMsgBh, ExitSend, ExitClear, ExitKill,
     CleanTxq, CleanAckq, CleanDoneq, vars, AndesBhSchedule, TypeOK, CtlType
<1> QED
  BY <1>1, <1>2 DEF Next

\* A call that waits and returns SUCCESS, or FAILURE for a STAREC_UPDATE,
\* has been answered, unless it suffered what ReturnTellsAnswer names or the
\* interface has ended.
THEOREM ReturnTells == Spec => []ReturnTellsAnswer
<1>1. Init => VInv
  <2> SUFFICES ASSUME Init PROVE VInv
    OBVIOUS
  <2>1. \A m \in Cmds : /\ call[m].pc = "idle" /\ msg[m].done = FALSE
                        /\ msg[m].status = "SUCCESS"
    BY DEF Init, At
  <2> QED
    BY <2>1, SafeInit DEF VInv, ExitOrder, Heard, Claims, Init
<1>2. VInv /\ [Next]_vars => VInv'
  <2> SUFFICES ASSUME VInv, [Next]_vars PROVE VInv'
    OBVIOUS
  <2>1. SInv'
    BY SafeStep DEF VInv
  <2>2. ASSUME NEW m \in Cmds PROVE Heard(m)'
    BY CallTold, RefuseTold, KickFailsTold, PostTold, RingTold, WaitTold,
       AnswerTold, RestTold DEF Next
  <2> QED
    BY <2>1, <2>2, ExitOrdered DEF VInv
<1>3. VInv => ReturnTellsAnswer
  <2> SUFFICES ASSUME VInv, NEW m \in Sync, ctl.init, ~Failed(m),
                      call[m].pc = "returned", ~Told(m)
               PROVE  took[m] # NoCmd
    BY DEF ReturnTellsAnswer, Unless, Failed
  <2>1. m \in Cmds /\ Heard(m) /\ call[m].ret \in {"SUCCESS", "FAILURE"}
    BY DEF VInv, SInv, TInv, TypeOK, CallType
  <2> QED
    BY <2>1 DEF Heard, Claims, Told
<1> QED
  BY <1>1, <1>2, <1>3, PTL DEF Spec
-----------------------------------------------------------------------------
(***************************************************************************)
(* The search for a number.  While it goes on, ackq_lock is taken and no   *)
(* number becomes free; every message in ackq, and the one the number is   *)
(* for, has a call that is still inside.                                   *)
(***************************************************************************)
Active == {c \in Cmds : call[c].pc # "idle"}
SpinOK ==
  \A c \in Cmds : call[c].pc = "spin" => FreeSeqs = {} /\ call[c].hold \in Sync
PInv == SInv /\ SpinOK /\ IsFiniteSet(Active)

\* A step moves one call at most, and to a search only when there is no
\* number left.
OneMoves ==
  \/ UNCHANGED call
  \/ \E c \in Cmds : \E p, h :
       /\ Moved(c, p, h)
       /\ p = "spin" => AndesGetCmdMsgSeq(c) /\ FreeSeqs = {} /\ h \in Sync
LEMMA MovesOne ==
  ASSUME TInv, Next \/ UNCHANGED vars
  PROVE  OneMoves
<1>0. TypeOK /\ call \in [Cmds -> CallType]
  BY DEF TInv, TypeOK
<1>1. ASSUME NEW c \in Cmds, Refuse(c) \/ Woken(c)
      PROVE  OneMoves
  <2>1. \E p \in {"returned", "finish"}, x \in {"SUCCESS", "FAILURE"} :
          call' = [call EXCEPT ![c] = [@ EXCEPT !.pc = p, !.ret = x]]
    BY <1>1 DEF Refuse, Woken, Outcomes
  <2>2. \E p \in {"returned", "finish"} : Moved(c, p, call[c].hold)
    BY <1>0, <2>1, RetMoved, NamesOfSteps DEF StepNames
  <2> QED
    BY <2>2 DEF OneMoves
<1>2. ASSUME NEW c \in Cmds,
             \/ Accept(c) \/ Queue(c) \/ WokenAtExit(c)
             \/ NoSeq(c) \/ KickPasses(c) \/ (Dequeue(c) /\ txq = <<>>)
      PROVE  OneMoves
  <2>1. \E p \in {"queue", "loop", "returned", "kick", "post", "wait"} :
          Goto(c, p)
    BY <1>2 DEF Accept, Queue, WokenAtExit, NoSeq, KickPasses,
                Dequeue, LoopSucceeds
  <2>2. \E p \in {"queue", "loop", "returned", "kick", "post", "wait"} :
          Moved(c, p, call[c].hold)
    BY <1>0, <2>1, GotoMoved, NamesOfSteps DEF StepNames
  <2> QED
    BY <2>2 DEF OneMoves
<1>3. ASSUME NEW c \in Cmds,
             \/ Drop(c) \/ KickFails(c)
             \/ (Dequeue(c) /\ txq # <<>>)
      PROVE  OneMoves
  <2>1. \E p \in {"loop", "returned", "check"}, h \in Cmds \cup {NoCmd} :
          call' = [call EXCEPT ![c] = At(p, h)]
    BY <1>0, <1>3, TailIn
       DEF Drop, KickFails, Dequeue, GoOn, LoopFails, TypeOK
  <2>2. \E p \in {"loop", "returned", "check"} : \E h : Moved(c, p, h)
    BY <1>0, <2>1, AtMoved, NamesOfSteps DEF StepNames
  <2> QED
    BY <2>2 DEF OneMoves
<1>4. ASSUME NEW c \in Cmds, AndesGetCmdMsgSeq(c)
      PROVE  OneMoves
  <2>1. call[c].hold \in Sync
    BY <1>4 DEF AndesGetCmdMsgSeq
  <2>2. PICK p \in {"spin", "kick"} :
          Goto(c, p) /\ (p = "spin" => FreeSeqs = {})
    BY <1>4 DEF AndesGetCmdMsgSeq
  <2>3. Moved(c, p, call[c].hold)
    BY <1>0, <2>2, GotoMoved, NamesOfSteps DEF StepNames
  <2> QED
    BY <1>4, <2>1, <2>2, <2>3 DEF OneMoves
<1>6. ASSUME NEW c \in Cmds, Post(c) \/ Ring(c) \/ Finish(c)
      PROVE  OneMoves
  <2>1. \E p \in {"ring", "loop", "returned"} : \E h : Moved(c, p, h)
    BY <1>6, PostFacts, RingFacts, FinishMoved
  <2> QED
    BY <2>1 DEF OneMoves
<1>5. CASE \/ \E c \in Cmds : AndesMTRxEventHandler(c)
           \/ AndesCmdMsgBh \/ ExitSend \/ ExitClear \/ ExitKill
           \/ CleanTxq \/ CleanAckq \/ CleanDoneq \/ UNCHANGED vars
  BY <1>5 DEF AndesMTRxEventHandler, AndesCmdMsgBh, ExitSend, ExitClear,
              ExitKill, CleanTxq, CleanAckq, CleanDoneq, vars, OneMoves
<1> QED
  BY <1>1, <1>2, <1>3, <1>4, <1>5, <1>6 DEF Next

\* With the lock taken nothing enters ackq, nothing leaves it, and no
\* command gets another number.
LEMMA LockHolds ==
  ASSUME SInv, Next \/ UNCHANGED vars, ~AckqLockFree
  PROVE  FreeSeqs' = FreeSeqs
<1>0. TInv /\ TypeOK /\ HoldOK /\ ackq \in Seq(Cmds)
  BY DEF SInv, TInv, TypeOK
<1>1. ASSUME ackq' = ackq, SameSeq
      PROVE  FreeSeqs' = FreeSeqs
  <2>1. ToSet(ackq) \subseteq Cmds
    BY <1>0 DEF ToSet
  <2>2. \A x \in ToSet(ackq) : msg'[x].seq = msg[x].seq
    BY <1>1, <2>1 DEF SameSeq
  <2>3. UsedSeqs' = {msg'[x].seq : x \in ToSet(ackq)}
    BY <1>1 DEF UsedSeqs
  <2>4. UsedSeqs' = UsedSeqs
    BY <2>2, <2>3 DEF UsedSeqs
  <2> QED
    BY <2>4 DEF FreeSeqs, Numbers
<1>2. ASSUME NEW c \in Cmds,
             \/ Refuse(c) \/ Accept(c) \/ Queue(c) \/ Dequeue(c) \/ Drop(c)
             \/ NoSeq(c) \/ KickFails(c) \/ KickPasses(c)
             \/ WokenAtExit(c) \/ Finish(c)
      PROVE  FreeSeqs' = FreeSeqs
  <2>1. ackq' = ackq
    BY <1>2 DEF Refuse, Accept, Queue, Dequeue, Drop, NoSeq, KickFails,
                KickPasses, WokenAtExit, Finish
  <2> QED
    BY <1>0, <1>1, <1>2, <2>1, CallSeqs
<1>3. ASSUME NEW c \in Cmds, Woken(c)
      PROVE  FreeSeqs' = FreeSeqs
  <2>1. ackq' = ackq
    BY <1>3 DEF Woken
  <2> QED
    BY <1>0, <1>1, <1>3, <2>1, CallSeqs
<1>4. ASSUME NEW c \in Cmds, Post(c)
      PROVE  FreeSeqs' = FreeSeqs
  <2>1. /\ call[c].hold \in Cmds /\ call[c].hold \notin Sync
        /\ ackq' = ackq /\ msg' = Queued(call[c].hold, "tx_done")
    BY <1>0, <1>4, PostFacts
  <2>2. SameSeq
    BY <1>0, <2>1, SeqKept DEF States
  <2> QED
    BY <1>1, <2>1, <2>2
<1>7. ASSUME NEW c \in Cmds, Ring(c)
      PROVE  FreeSeqs' = FreeSeqs
  BY <1>1, <1>7 DEF Ring, SameSeq
<1>5. ASSUME NEW c \in Cmds, AndesGetCmdMsgSeq(c) \/ AndesMTRxEventHandler(c)
      PROVE  FALSE
  BY <1>5 DEF AndesGetCmdMsgSeq, AndesMTRxEventHandler
<1>6. CASE \/ AndesCmdMsgBh \/ ExitSend \/ ExitClear \/ ExitKill
           \/ CleanTxq \/ CleanAckq \/ CleanDoneq \/ UNCHANGED vars
  <2>1. ackq' = ackq
    BY <1>6 DEF AndesCmdMsgBh, ExitSend, ExitClear, ExitKill,
                CleanTxq, CleanAckq, CleanDoneq, vars
  <2> QED
    BY <1>0, <1>1, <1>6, <2>1, RestSeqs
<1> QED
  BY <1>2, <1>3, <1>4, <1>5, <1>6, <1>7 DEF Next

LEMMA SpinStep == PInv /\ [Next]_vars => PInv'
<1> SUFFICES ASSUME PInv, [Next]_vars PROVE PInv'
  OBVIOUS
<1>0. SInv /\ TInv /\ SInv'
  BY SafeStep DEF PInv, SInv
<1>1. OneMoves
  BY <1>0, MovesOne
<1>2. SpinOK'
  <2> SUFFICES ASSUME NEW x \in Cmds, call'[x].pc = "spin"
               PROVE  FreeSeqs' = {} /\ call'[x].hold \in Sync
    BY DEF SpinOK
  <2>1. CASE call'[x] = call[x]
    <3>1. FreeSeqs = {} /\ call[x].hold \in Sync /\ ~AckqLockFree
      BY <2>1 DEF PInv, SpinOK, AckqLockFree
    <3> QED
      BY <1>0, <2>1, <3>1, LockHolds
  <2>2. CASE call'[x] # call[x]
    <3>1. /\ AndesGetCmdMsgSeq(x) /\ FreeSeqs = {} /\ call'[x].hold \in Sync
      BY <1>1, <2>2 DEF OneMoves, Moved, Others
    <3>2. UNCHANGED <<msg, ackq>>
      BY <3>1 DEF AndesGetCmdMsgSeq
    <3> QED
      BY <3>1, <3>2 DEF FreeSeqs, UsedSeqs
  <2> QED
    BY <2>1, <2>2
<1>3. IsFiniteSet(Active')
  <2>1. CASE UNCHANGED call
    BY <2>1 DEF PInv, Active
  <2>2. CASE ~UNCHANGED call
    <3>1. PICK c \in Cmds : Others(c)
      BY <1>1, <2>2 DEF OneMoves, Moved
    <3>2. Active' \subseteq Active \cup {c}
      BY <3>1 DEF Active, Others
    <3> QED
      BY <3>2, FS_AddElement, FS_Subset DEF PInv
  <2> QED
    BY <2>1, <2>2
<1> QED
  BY <1>0, <1>2, <1>3 DEF PInv

\* The messages in ackq and the one a number is searched for are more than
\* the numbers, and their calls are inside.
LEMMA SpinMeans == PInv => NeverSpins
<1> SUFFICES ASSUME PInv, NEW c \in Cmds, call[c].pc = "spin",
                    \A m \in Cmds :
                      harm[m] \cap {"unsent", "stray", "early", "exit"} = {}
             PROVE  Cardinality({m \in Sync : call[m].pc \in Inside}) > SeqMax
  BY DEF NeverSpins
<1> DEFINE h == call[c].hold
           Q == ToSet(ackq)
           Callers == {m \in Sync : call[m].pc \in Inside}
<1>0. /\ TypeOK /\ FreeSeqs = {} /\ h \in Sync /\ h \in Cmds
      /\ \A m \in Cmds : CmdOK(m) /\ (m \in Q => m \in Sync)
      /\ Q \subseteq Cmds
  BY DEF PInv, SInv, TInv, SyncOK, SpinOK, TypeOK, In, ToSet
<1>1. \A m \in Q : m \in Callers
  BY <1>0 DEF CmdOK, Awaited, OnItsWay, In
<1>2. h \in Callers /\ h \notin Q
  <2>1. Held(h)
    BY DEF Held
  <2> HIDE DEF h
  <2> QED
    BY <1>0, <2>1 DEF CmdOK, Awaited, OnItsWay, Place, Linked, InTwo, In
<1>3. IsFiniteSet(Callers)
  <2>1. Callers \subseteq Active
    BY DEF Active, Inside
  <2> QED
    BY <2>1, FS_Subset DEF PInv
<1>4. IsFiniteSet(Q) /\ Cardinality(Q) \in Nat
  BY <1>1, <1>3, FS_Subset, FS_CardinalityType
<1>5. SeqMax <= Cardinality(Q)
  <2> DEFINE U == {msg[m].seq : m \in Q}
             seqOf == [m \in Q |-> msg[m].seq]
  <2>1. IsFiniteSet(U) /\ Cardinality(U) <= Cardinality(Q)
        /\ Cardinality(U) \in Nat
    <3>1. seqOf \in Surjection(Q, U)
      BY DEF Surjection
    <3> HIDE DEF Q, U, seqOf
    <3>2. IsFiniteSet(U) /\ Cardinality(U) <= Cardinality(Q)
      BY <1>4, <3>1, FS_Surjection
    <3> QED
      BY <3>2, FS_CardinalityType
  <2>2. 1 .. SeqMax \subseteq U
    BY <1>0 DEF FreeSeqs, Numbers, UsedSeqs
  <2>3. IsFiniteSet(1 .. SeqMax) /\ Cardinality(1 .. SeqMax) = SeqMax
    BY FS_Interval
  <2> HIDE DEF U, Q
  <2>4. Cardinality(1 .. SeqMax) <= Cardinality(U)
    BY <2>1, <2>2, FS_Subset
  <2> QED
    BY <1>4, <2>1, <2>3, <2>4
<1>6. Cardinality(Q \cup {h}) = Cardinality(Q) + 1
      /\ IsFiniteSet(Q \cup {h})
  BY <1>2, <1>4, FS_AddElement
<1>7. Cardinality(Q \cup {h}) <= Cardinality(Callers)
      /\ Cardinality(Callers) \in Nat
  BY <1>1, <1>2, <1>3, FS_Subset, FS_CardinalityType
<1> HIDE DEF Q, h, Callers
<1>8. Cardinality(Callers) > SeqMax
  BY <1>4, <1>5, <1>6, <1>7
<1> QED
  BY <1>8 DEF Callers

\* The search for a number finds one while at most SeqMax calls wait or are
\* about to, unless messages nobody waits for have piled up in ackq.
THEOREM SearchEnds == Spec => []NeverSpins
<1>1. Init => PInv
  <2> SUFFICES ASSUME Init PROVE PInv
    OBVIOUS
  <2>1. \A c \in Cmds : call[c].pc = "idle"
    BY DEF Init, At
  <2>2. Active = {}
    BY <2>1 DEF Active
  <2> QED
    BY <2>1, <2>2, SafeInit, FS_EmptySet DEF PInv, SpinOK
<1>2. PInv /\ [Next]_vars => PInv'
  BY SpinStep
<1>3. PInv => NeverSpins
  BY SpinMeans
<1> QED
  BY <1>1, <1>2, <1>3, PTL DEF Spec
-----------------------------------------------------------------------------
(***************************************************************************)
(* What becomes of a message.  Once its call has returned it is freed, or  *)
(* in tx_doneq, or, if nobody waits for it, still on its way there.  A     *)
(* message somebody waited for is freed by the tasklet, which the end      *)
(* waits for; the clean-up of tx_doneq would not free it.                  *)
(***************************************************************************)
Spared(m) == harm[m] \cap {"late", "stray", "unsent"} = {}
InReach(m) == msg[m].mem = "freed" \/ In(m, tx_doneq)
OnWay(m) == In(m, txq) \/ Held(m)
Kept(m) ==
  Spared(m) =>
    /\ In(m, txq) => call[m].pc \in Looping
    /\ m \in Sync /\ call[m].pc = "returned" => InReach(m)
    /\ m \notin Sync /\ call[m].pc \in Looping \cup {"returned"}
         => InReach(m) \/ OnWay(m)
    /\ m \in Sync /\ In(m, tx_doneq)
         => exit = "no" \/ (exit \in {"clear", "kill"} /\ ctl.task)
    /\ exit = "done" /\ In(m, tx_doneq) => m = ring
LInv == SInv /\ ExitOrder /\ \A m \in Cmds : Kept(m)

FreedStays(m) == msg[m].mem = "freed" => msg'[m].mem = "freed"

LEMMA KeptFrame ==
  ASSUME NEW m \in Cmds, Kept(m), Suffers(m), UNCHANGED exit, FreedStays(m),
         In(m, txq') => In(m, txq),
         In(m, tx_doneq) => InReach(m)',
         m \notin Sync /\ OnWay(m) => OnWay(m)' \/ InReach(m)',
         Spared(m)' /\ In(m, tx_doneq') =>
           /\ In(m, tx_doneq)
              \/ (m \notin Sync /\ (exit # "done" \/ ring' = m))
           /\ ctl.task => ctl'.task,
         Spared(m)' /\ exit = "done" /\ ring = m => ring' = m,
         \/ call'[m].pc = call[m].pc \/ ~Spared(m)'
         \/ call[m].pc \in Looping /\ call'[m].pc \in Looping
  PROVE  Kept(m)'
<1> SUFFICES ASSUME Spared(m)' PROVE Kept(m)'
  BY DEF Kept
<1>1. Spared(m)
  BY DEF Spared, Suffers
<1>2. /\ In(m, txq)' <=> In(m, txq')
      /\ In(m, tx_doneq)' <=> In(m, tx_doneq')
  BY DEF In
<1>3. InReach(m) => InReach(m)'
  BY DEF InReach, FreedStays
<1> QED
  BY <1>1, <1>2, <1>3 DEF Kept, Looping

LEMMA FreedStay ==
  ASSUME TypeOK, NEW x \in Cmds, NEW m \in Cmds,
         \/ UNCHANGED msg \/ AndesFreeCmdMsg(x)
         \/ msg' = [msg EXCEPT ![x].mem = "live"] /\ x # m
         \/ \E s : msg' = [msg EXCEPT ![x] = Answered(@, s)]
         \/ \E n : msg' = [msg EXCEPT ![x].seq = n]
         \/ \E s \in States : msg' = Queued(x, s)
  PROVE  FreedStays(m) /\ (AndesFreeCmdMsg(x) => msg'[x].mem = "freed")
<1>0. \A y \in Cmds : msg[y] \in MsgType
  BY DEF TypeOK
<1>1. Freed(x).mem = "freed"
  BY <1>0 DEF Freed, MsgType
<1>2. CASE UNCHANGED msg \/ x # m
  <2>1. msg'[m] = msg[m]
    BY <1>2 DEF AndesFreeCmdMsg, Queued, TypeOK
  <2>2. AndesFreeCmdMsg(x) => msg'[x].mem = "freed"
    BY <1>1 DEF AndesFreeCmdMsg, TypeOK
  <2> QED
    BY <2>1, <2>2 DEF FreedStays
<1>3. CASE ~UNCHANGED msg /\ x = m
  <2>1. \/ msg' = [msg EXCEPT ![m] = Freed(m)]
        \/ \E s : msg' = [msg EXCEPT ![m] = Answered(@, s)]
        \/ \E n : msg' = [msg EXCEPT ![m].seq = n]
        \/ \E s \in States : msg' = [msg EXCEPT ![m].state = s]
    BY <1>3 DEF AndesFreeCmdMsg, Queued
  <2>2. CASE AndesFreeCmdMsg(x)
    BY <1>1, <1>3, <2>2 DEF AndesFreeCmdMsg, FreedStays, TypeOK
  <2>3. CASE ~AndesFreeCmdMsg(x)
    <3>1. \E r : msg' = [msg EXCEPT ![m] = r] /\ r.mem = msg[m].mem
      BY <1>0, <1>3, <2>1, <2>3 DEF AndesFreeCmdMsg, Answered, MsgType
    <3> QED
      BY <2>3, <3>1 DEF FreedStays, TypeOK
  <2> QED
    BY <2>2, <2>3
<1> QED
  BY <1>2, <1>3

\* Those a call does not let go of are held as before.
LEMMA HeldStays ==
  ASSUME NEW c \in Cmds, NEW p, NEW h, Moved(c, p, h), NEW m \in Cmds, Held(m)
  PROVE  Held(m)' \/ m = call[c].hold
BY DEF Moved, Others, Held

\* The steps of a call before its loop.
LEMMA BeginKept ==
  ASSUME LInv, NEW c \in Cmds, Refuse(c) \/ Accept(c) \/ Queue(c),
         NEW m \in Cmds
  PROVE  Kept(m)'
<1>0. /\ TypeOK /\ Kept(m) /\ CmdOK(m) /\ call \in [Cmds -> CallType]
      /\ txq \in Seq(Cmds) /\ tx_doneq \in Seq(Cmds)
      /\ UNCHANGED <<ackq, tx_doneq, ring, ctl, exit>> /\ Suffers(m)
  BY HarmGrows, HarmSame DEF LInv, SInv, TInv, TypeOK, Refuse, Accept, Queue
<1>1. PICK p \in {"returned", "queue", "loop"} :
        /\ Moved(c, p, call[c].hold)
        /\ \/ p = "returned" /\ Refuse(c)
           \/ p = "queue" /\ Accept(c)
           \/ p = "loop" /\ Queue(c)
  <2>1. CASE Refuse(c)
    <3>1. call' = [call EXCEPT ![c] = [@ EXCEPT !.pc = "returned",
                                                !.ret = "FAILURE"]]
      BY <2>1 DEF Refuse
    <3> QED
      BY <1>0, <2>1, <3>1, RetMoved, NamesOfSteps DEF StepNames
  <2>2. CASE Accept(c)
    BY <1>0, <2>2, GotoMoved, NamesOfSteps DEF Accept, StepNames
  <2>3. CASE Queue(c)
    BY <1>0, <2>3, GotoMoved, NamesOfSteps DEF Queue, StepNames
  <2> QED
    BY <2>1, <2>2, <2>3
<1>2. txq' = txq \/ (txq' = Append(txq, c) /\ Queue(c))
  BY DEF Refuse, Accept, Queue
<1>3. CASE m # c
  <2>1. FreedStays(m)
    BY <1>0, <1>3, FreedStay DEF Refuse, Accept, Queue, States
  <2>2. In(m, txq') <=> In(m, txq)
    <3>1. In(m, Append(txq, c)) <=> In(m, txq)
      BY <1>0, <1>3, AppendIn
    <3> QED
      BY <1>2, <3>1
  <2>3. Held(m) <=> Held(m)'
    BY <1>1 DEF Moved, Others, Held
  <2>4. call'[m].pc = call[m].pc
    BY <1>1, <1>3, MovedRest
  <2> QED
    BY <1>0, <2>1, <2>2, <2>3, <2>4, KeptFrame DEF OnWay, In, InReach
<1>4. CASE m = c
  <2>1. call[m].pc \in {"idle", "queue"} /\ ~In(m, txq) /\ ~In(m, tx_doneq)
    BY <1>0, <1>4 DEF Refuse, Accept, Queue, CmdOK, Place, Nowhere
  <2>2. ~In(m, tx_doneq') /\ call'[m].pc = p
    BY <1>0, <1>1, <1>4, <2>1 DEF Moved
  <2>3. CASE p = "returned"
    <3>1. msg'[m].mem = "freed" /\ txq' = txq
      BY <1>0, <1>1, <1>4, <2>3, FreedStay DEF Refuse
    <3> QED
      BY <2>1, <2>2, <2>3, <3>1 DEF Kept, InReach, In, Looping
  <2>4. CASE p = "queue"
    <3>1. txq' = txq
      BY <1>1, <2>4 DEF Accept
    <3> QED
      BY <2>1, <2>2, <2>4, <3>1 DEF Kept, In, Looping
  <2>5. CASE p = "loop"
    <3>0. txq' = Append(txq, c)
      BY <1>1, <2>5 DEF Queue
    <3>1. In(m, txq')
      BY <1>0, <1>4, <3>0, AppendIn
    <3> QED
      BY <2>2, <2>5, <3>1 DEF Kept, In, Looping, OnWay
  <2> QED
    BY <2>3, <2>4, <2>5
<1> QED
  BY <1>3, <1>4

LEMMA DequeueKept ==
  ASSUME LInv, NEW c \in Cmds, Dequeue(c), NEW m \in Cmds
  PROVE  Kept(m)'
<1>0. /\ TypeOK /\ Kept(m) /\ call \in [Cmds -> CallType]
      /\ txq \in Seq(Cmds) /\ call[c].pc = "loop" /\ call[c].hold = NoCmd
      /\ UNCHANGED <<msg, tx_doneq, ring, exit, harm>>
      /\ Suffers(m) /\ FreedStays(m) /\ (ctl.task => ctl'.task)
  BY HarmSame DEF LInv, SInv, TInv, TypeOK, HoldOK, Dequeue, FreedStays,
                  AndesBhSchedule, CtlType
<1>1. /\ In(m, tx_doneq') <=> In(m, tx_doneq)
      /\ In(m, tx_doneq) => InReach(m)'
      /\ InReach(m)' <=> InReach(m)
  BY <1>0 DEF InReach, In
<1>2. CASE txq = <<>>
  <2>1. PICK p \in {"wait", "returned"} :
          Moved(c, p, NoCmd) /\ (p = "wait" <=> c \in Sync)
    BY <1>0, <1>2, GotoMoved, NamesOfSteps
       DEF Dequeue, LoopSucceeds, StepNames
  <2>2. /\ txq' = txq /\ ~In(m, txq) /\ ~In(m, txq') /\ ~In(m, txq)'
    BY <1>2, EmptyIn DEF Dequeue
  <2>3. Held(m) => Held(m)'
    BY <1>0, <2>1, HeldStays
  <2>4. CASE m # c
    <3>1. call'[m].pc = call[m].pc
      BY <2>1, <2>4, MovedRest
    <3> QED
      BY <1>0, <1>1, <2>2, <2>3, <3>1, KeptFrame DEF OnWay
  <2>5. CASE m = c
    <3>1. call'[m].pc = p /\ call[m].pc \in Looping
      BY <1>0, <2>1, <2>5 DEF Moved, Looping
    <3>2. (Spared(m)' <=> Spared(m)) /\ (In(m, tx_doneq)' <=> In(m, tx_doneq))
      BY <1>0 DEF Spared, In
    <3> QED
      BY <1>0, <1>1, <2>1, <2>2, <2>3, <2>5, <3>1, <3>2
         DEF Kept, OnWay, Looping
  <2> QED
    BY <2>4, <2>5
<1>3. CASE txq # <<>>
  <2> DEFINE h == Head(txq)
  <2>1. h \in Cmds /\ txq' = Tail(txq) /\ call' = [call EXCEPT ![c] = At("check", h)]
    BY <1>0, <1>3, TailIn DEF Dequeue
  <2>2. Moved(c, "check", h)
    BY <1>0, <2>1, AtMoved, NamesOfSteps DEF StepNames
  <2>3. In(m, txq) <=> In(m, txq') \/ m = h
    BY <1>0, <1>3, <2>1, TailIn
  <2> HIDE DEF h
  <2>4. OnWay(m) => OnWay(m)'
    <3>1. m = h => Held(m)'
      BY <2>2 DEF Moved, Held
    <3>2. Held(m) => Held(m)'
      BY <1>0, <2>2, HeldStays
    <3> QED
      BY <2>3, <3>1, <3>2 DEF OnWay, In
  <2>5. \/ call'[m].pc = call[m].pc
        \/ call[m].pc \in Looping /\ call'[m].pc \in Looping
    BY <1>0, <2>2 DEF Moved, Others, Looping
  <2> QED
    BY <1>0, <1>1, <2>3, <2>4, <2>5, KeptFrame
<1> QED
  BY <1>2, <1>3
LEMMA StepKept ==
  ASSUME LInv, NEW c \in Cmds, AndesGetCmdMsgSeq(c) \/ NoSeq(c) \/ KickPasses(c),
         NEW m \in Cmds
  PROVE  Kept(m)'
<1>0. /\ TypeOK /\ Kept(m) /\ call \in [Cmds -> CallType]
      /\ UNCHANGED <<txq, tx_doneq, ring, exit>> /\ (ctl.task => ctl'.task)
      /\ call[c].pc \in Looping /\ call[c].hold \in Cmds
  BY HeldType DEF LInv, SInv, TInv, TypeOK, AndesGetCmdMsgSeq, NoSeq,
     KickPasses, CtlType, Looping
<1>1. PICK p \in {"spin", "kick", "post"} : Moved(c, p, call[c].hold)
  <2>1. \E p \in {"spin", "kick", "post"} : Goto(c, p)
    BY DEF AndesGetCmdMsgSeq, NoSeq, KickPasses
  <2> QED
    BY <1>0, <2>1, GotoMoved, NamesOfSteps DEF StepNames
<1>2. Suffers(m)
  BY <1>0, HarmGrows, HarmSame DEF AndesGetCmdMsgSeq, NoSeq, KickPasses
<1>3. FreedStays(m)
  BY <1>0, FreedStay DEF AndesGetCmdMsgSeq, NoSeq, KickPasses
<1>4. Held(m) => Held(m)'
  BY <1>1 DEF Moved, Others, Held
<1>5. \/ call'[m].pc = call[m].pc
      \/ call[m].pc \in Looping /\ call'[m].pc \in Looping
  BY <1>0, <1>1 DEF Moved, Others, Looping
<1> QED
  BY <1>0, <1>2, <1>3, <1>4, <1>5, KeptFrame DEF OnWay, InReach, In

LEMMA LetGoKept ==
  ASSUME LInv, NEW c \in Cmds, Drop(c) \/ KickFails(c), NEW m \in Cmds
  PROVE  Kept(m)'
<1> DEFINE h == call[c].hold
<1>0. /\ TypeOK /\ Kept(m) /\ h \in Cmds /\ call[c].pc \in Looping
      /\ UNCHANGED <<txq, tx_doneq, ring, exit>> /\ (ctl.task => ctl'.task)
  BY HeldType DEF LInv, SInv, TInv, TypeOK, Drop, KickFails, Looping,
                  AndesBhSchedule, CtlType
<1>1. PICK p \in {"loop", "returned"} :
        Moved(c, p, NoCmd) /\ (p = "returned" => KickFails(c))
  <2>1. CASE KickFails(c)
    BY <1>0, <2>1, AtMoved, NamesOfSteps
       DEF KickFails, LoopFails, TypeOK, StepNames
  <2>2. CASE Drop(c)
    BY <1>0, <2>2, AtMoved, NamesOfSteps DEF Drop, GoOn, TypeOK, StepNames
  <2> QED
    BY <2>1, <2>2
<1>2. Suffers(m) /\ (p = "returned" /\ m = c => ~Spared(m)')
  <2>1. CASE KickFails(c)
    <3> DEFINE g == Harm({c}, "unsent")
    <3>1. harm' = [g EXCEPT ![h] = @ \cup {r \in {"foreign"} : h # c}]
      BY <2>1 DEF KickFails
    <3>2. /\ \A x \in Cmds : harm[x] \subseteq g[x]
          /\ "unsent" \in g[c] /\ DOMAIN g = Cmds
      BY DEF Harm
    <3> HIDE DEF g, h
    <3>3. \A x \in Cmds : g[x] \subseteq harm'[x]
      BY <3>1, <3>2, <1>0
    <3> QED
      BY <3>2, <3>3 DEF Suffers, Spared
  <2>2. CASE ~KickFails(c)
    <3>1. p # "returned" /\ UNCHANGED harm
      BY <1>1, <2>2 DEF Drop
    <3> QED
      BY <3>1, HarmSame
  <2> QED
    BY <2>1, <2>2
<1>3. \/ msg' = msg /\ h \in Sync
      \/ AndesFreeCmdMsg(h)
  BY DEF Drop, KickFails
<1> HIDE DEF h
<1>4. FreedStays(m) /\ (m = h /\ m \notin Sync => InReach(m)')
  BY <1>0, <1>3, FreedStay DEF InReach
<1>5. m \notin Sync /\ OnWay(m) => OnWay(m)' \/ InReach(m)'
  <2>1. Held(m) => Held(m)' \/ m = h
    BY <1>1, HeldStays DEF h
  <2> QED
    BY <1>0, <1>4, <2>1 DEF OnWay, In
<1>6. \/ call'[m].pc = call[m].pc \/ ~Spared(m)'
      \/ call[m].pc \in Looping /\ call'[m].pc \in Looping
  BY <1>0, <1>1, <1>2 DEF Moved, Others, Looping
<1> QED
  BY <1>0, <1>2, <1>4, <1>5, <1>6, KeptFrame DEF InReach, In

LEMMA PostKept ==
  ASSUME LInv, NEW c \in Cmds, Post(c), NEW m \in Cmds
  PROVE  Kept(m)'
<1> DEFINE h == call[c].hold
<1>0. TInv /\ TypeOK /\ Kept(m) /\ call[c].pc = "post"
      /\ tx_doneq \in Seq(Cmds)
  BY DEF LInv, SInv, TInv, TypeOK, Post
<1>1. /\ h \in Cmds
      /\ tx_doneq' = IF h \in Sync THEN tx_doneq ELSE Append(tx_doneq, h)
      /\ msg' = Queued(h, IF h \in Sync THEN "wait_ack" ELSE "tx_done")
      /\ ring = NoCmd /\ ring' = h /\ Moved(c, "ring", NoCmd)
      /\ UNCHANGED <<txq, ctl, exit, harm>>
  BY <1>0, PostFacts
<1> HIDE DEF h
<1>2. FreedStays(m)
  <2>1. \E s \in States : msg' = Queued(h, s)
    BY <1>1 DEF States
  <2> QED
    BY <1>0, <1>1, <2>1, FreedStay
<1>3. In(m, tx_doneq') <=> In(m, tx_doneq) \/ (m = h /\ h \notin Sync)
  BY <1>0, <1>1, AppendIn
<1>4. m \notin Sync /\ OnWay(m) => OnWay(m)' \/ InReach(m)'
  <2>1. Held(m) => Held(m)' \/ m = h
    BY <1>1, HeldStays DEF h
  <2> QED
    BY <1>1, <1>3, <2>1 DEF OnWay, In, InReach
<1>5. Suffers(m) /\ ring # m
  BY <1>1, HarmSame, McuAssumption
<1>6. In(m, tx_doneq') => In(m, tx_doneq) \/ (m \notin Sync /\ ring' = m)
  BY <1>1, <1>3
<1>7. \/ call'[m].pc = call[m].pc
      \/ call[m].pc \in Looping /\ call'[m].pc \in Looping
  BY <1>0, <1>1 DEF Moved, Others, Looping
<1>8. In(m, tx_doneq) => InReach(m)'
  BY <1>3 DEF InReach, In
<1> QED
  BY <1>0, <1>1, <1>2, <1>4, <1>5, <1>6, <1>7, <1>8, KeptFrame

\* After the end of the interface -1 is returned.
LEMMA RingKept ==
  ASSUME LInv, NEW c \in Cmds, Ring(c), NEW m \in Cmds
  PROVE  Kept(m)'
<1>0. TInv /\ TypeOK /\ Kept(m) /\ ExitOrder
  BY DEF LInv, SInv, TInv
<1>1. /\ ring \in Cmds
      /\ \/ ctl.init /\ Moved(c, "loop", NoCmd) /\ harm' = harm
         \/ ~ctl.init /\ Moved(c, "returned", NoCmd)
            /\ harm' = [Harm({c}, "unsent") EXCEPT ![ring] = @ \cup {"stray"}]
      /\ call[c].pc = "ring" /\ call[c].hold = NoCmd
      /\ UNCHANGED <<msg, txq, tx_doneq, ctl, exit>>
  BY <1>0, RingFacts
<1>2. FreedStays(m)
  BY <1>1 DEF FreedStays
<1>3. /\ OnWay(m) => OnWay(m)'
      /\ In(m, tx_doneq) => InReach(m)'
  <2>1. Held(m) => Held(m)'
    BY <1>1, HeldStays, McuAssumption
  <2> QED
    BY <1>1, <2>1 DEF OnWay, InReach, In
<1>4. /\ Suffers(m)
      /\ ~ctl.init /\ (m = c \/ m = ring) => ~Spared(m)'
  <2>1. CASE harm' = harm /\ ctl.init
    BY <2>1, HarmSame
  <2>2. CASE harm' = [Harm({c}, "unsent") EXCEPT ![ring] = @ \cup {"stray"}]
    BY <1>1, <2>2 DEF Harm, Suffers, Spared
  <2> QED
    BY <1>1, <2>1, <2>2
<1>5. Spared(m)' /\ exit = "done" => ring # m
  BY <1>0, <1>4 DEF ExitOrder
<1>6. \/ call'[m].pc = call[m].pc \/ ~Spared(m)'
      \/ call[m].pc \in Looping /\ call'[m].pc \in Looping
  BY <1>1, <1>4 DEF Moved, Others, Looping
<1> QED
  BY <1>0, <1>1, <1>2, <1>3, <1>4, <1>5, <1>6, KeptFrame

\* The wait ends: the message is freed, or put in tx_doneq, and late if the
\* end has begun.
LEMMA WaitKept ==
  ASSUME LInv, NEW c \in Cmds, WokenAtExit(c) \/ Woken(c) \/ Finish(c),
         NEW m \in Cmds
  PROVE  Kept(m)'
<1>0. /\ TypeOK /\ Kept(m) /\ call \in [Cmds -> CallType]
      /\ tx_doneq \in Seq(Cmds) /\ c \in Sync
      /\ UNCHANGED <<txq, ring, ctl, exit>> /\ call[c].pc \in {"wait", "finish"}
  BY DEF LInv, SInv, TInv, TypeOK, SyncOK, WokenAtExit, Woken, Finish
<1>1. Suffers(m) /\ (Finish(c) /\ exit # "no" /\ m = c => "late" \in harm'[m])
  BY <1>0, HarmGrows, ZenonT(40) DEF WokenAtExit, Woken, Finish
<1>2. PICK p \in {"returned", "finish"} :
        /\ Moved(c, p, call[c].hold)
        /\ p = "finish" => Woken(c)
        /\ p = "returned" => WokenAtExit(c) \/ Finish(c)
  <2>1. CASE Woken(c)
    <3>1. PICK r \in {"SUCCESS", "FAILURE"} :
            call' = [call EXCEPT ![c] = [@ EXCEPT !.pc = "finish", !.ret = r]]
      BY <2>1 DEF Woken, Outcomes
    <3>2. Moved(c, "finish", call[c].hold)
      BY <1>0, <3>1, RetMoved, NamesOfSteps DEF StepNames
    <3> QED
      BY <2>1, <3>2
  <2>2. CASE WokenAtExit(c)
    BY <1>0, <2>2, GotoMoved, NamesOfSteps DEF WokenAtExit, StepNames
  <2>3. CASE Finish(c)
    BY <2>3, FinishMoved DEF LInv, SInv
  <2> QED
    BY <2>1, <2>2, <2>3
<1>3. /\ FreedStays(m)
      /\ WokenAtExit(c) => msg'[c].mem = "freed"
  BY <1>0, FreedStay DEF WokenAtExit, Woken, Finish, States
<1>4. In(m, tx_doneq') <=> In(m, tx_doneq) \/ (m = c /\ Finish(c))
  <2>1. CASE Finish(c)
    BY <1>0, <2>1, AppendIn DEF Finish
  <2>2. CASE ~Finish(c)
    BY <2>2 DEF WokenAtExit, Woken
  <2> QED
    BY <2>1, <2>2
<1>5. CASE m # c
  <2>1. Held(m) => Held(m)'
    BY <1>2 DEF Moved, Others, Held
  <2>2. call'[m].pc = call[m].pc
    BY <1>2, <1>5, MovedRest
  <2> QED
    BY <1>0, <1>1, <1>3, <1>4, <1>5, <2>1, <2>2, KeptFrame
       DEF OnWay, InReach, In
<1>6. CASE m = c
  <2> SUFFICES ASSUME Spared(m)' PROVE Kept(m)'
    BY DEF Kept
  <2>1. Spared(m) /\ ~In(m, txq) /\ ~In(m, txq)'
    <3>1. Spared(m)
      BY <1>1 DEF Spared, Suffers
    <3> QED
      BY <1>0, <1>6, <3>1 DEF Kept, Looping, In
  <2>2. Finish(c) => exit = "no"
    BY <1>1, <1>6 DEF Spared
  <2>3. call'[m].pc = p
    BY <1>2, <1>6 DEF Moved
  <2>4. p = "returned" => InReach(m)'
    BY <1>2, <1>3, <1>4, <1>6 DEF InReach, In
  <2>5. In(m, tx_doneq)' <=> In(m, tx_doneq')
    BY DEF In
  <2> QED
    BY <1>0, <1>4, <1>6, <2>1, <2>2, <2>3, <2>4, <2>5 DEF Kept
<1> QED
  BY <1>5, <1>6

LEMMA TaskletKept ==
  ASSUME LInv, NEW m \in Cmds,
         (\E x \in Cmds : AndesMTRxEventHandler(x)) \/ AndesCmdMsgBh
         \/ UNCHANGED vars
  PROVE  Kept(m)'
<1>0. /\ TypeOK /\ Kept(m) /\ tx_doneq \in Seq(Cmds)
      /\ UNCHANGED <<call, txq, ring, exit, harm>> /\ Suffers(m)
      /\ (Held(m) <=> Held(m)') /\ (In(m, txq) <=> In(m, txq)')
  BY HarmSame DEF LInv, SInv, TInv, TypeOK, AndesMTRxEventHandler,
                  AndesCmdMsgBh, vars, Held, In
<1>1. CASE (\E x \in Cmds : AndesMTRxEventHandler(x)) \/ UNCHANGED vars
  <2>1. FreedStays(m) /\ UNCHANGED <<tx_doneq, ctl>>
    <3>1. CASE UNCHANGED msg
      BY <1>1, <3>1 DEF AndesMTRxEventHandler, vars, FreedStays
    <3>2. CASE ~UNCHANGED msg
      <4>1. PICK x \in Cmds : AndesMTRxEventHandler(x)
        BY <1>1, <3>2 DEF vars
      <4>2. /\ Receiver(x) \in Cmds
            /\ \E s : msg' = [msg EXCEPT ![Receiver(x)] = Answered(@, s)]
        BY <1>0, <3>2, <4>1, ReceiverFacts DEF AndesMTRxEventHandler
      <4> QED
        BY <1>0, <4>1, <4>2, FreedStay DEF AndesMTRxEventHandler
    <3> QED
      BY <3>1, <3>2
  <2> QED
    BY <1>0, <2>1, KeptFrame DEF OnWay, InReach, In
<1>2. CASE AndesCmdMsgBh /\ tx_doneq # <<>>
  <2> DEFINE h == Head(tx_doneq)
  <2>1. /\ h \in Cmds /\ AndesFreeCmdMsg(h) /\ tx_doneq' = Tail(tx_doneq)
        /\ UNCHANGED ctl
    BY <1>0, <1>2, TailIn DEF AndesCmdMsgBh
  <2>2. In(m, tx_doneq) <=> In(m, tx_doneq') \/ m = h
    BY <1>0, <1>2, <2>1, TailIn
  <2> HIDE DEF h
  <2>3. FreedStays(m) /\ msg'[h].mem = "freed"
    BY <1>0, <2>1, FreedStay
  <2>4. In(m, tx_doneq) => InReach(m)'
    BY <2>2, <2>3 DEF InReach, In
  <2> QED
    BY <1>0, <2>1, <2>2, <2>3, <2>4, KeptFrame DEF OnWay, In
<1>3. CASE AndesCmdMsgBh /\ tx_doneq = <<>>
  <2>1. UNCHANGED <<msg, tx_doneq>> /\ ~In(m, tx_doneq)
    BY <1>3, EmptyIn DEF AndesCmdMsgBh
  <2> QED
    BY <1>0, <2>1, KeptFrame DEF OnWay, InReach, In, FreedStays
<1> QED
  BY <1>1, <1>2, <1>3

\* The clean-up frees what nobody waits for.
LEMMA CleanedMem ==
  ASSUME TypeOK, NEW q, msg' = Cleaned(q), NEW m \in Cmds
  PROVE  FreedStays(m) /\ (In(m, q) /\ m \notin Sync => msg'[m].mem = "freed")
<1>1. msg[m] \in MsgType /\ Freed(m).mem = "freed"
  BY DEF TypeOK, Freed, MsgType
<1>2. \/ msg'[m] = msg[m] /\ ~In(m, q)
      \/ msg'[m] = [msg[m] EXCEPT !.done = TRUE] /\ m \in Sync
      \/ msg'[m] = Freed(m)
  BY DEF Cleaned
<1> QED
  BY <1>1, <1>2 DEF MsgType, FreedStays

LEMMA ExitKept ==
  ASSUME LInv, \/ ExitSend \/ ExitClear \/ ExitKill
               \/ CleanTxq \/ CleanAckq \/ CleanDoneq,
         NEW m \in Cmds
  PROVE  Kept(m)'
<1>0. /\ TypeOK /\ Kept(m) /\ ExitOrder
      /\ UNCHANGED <<call, ring, harm>> /\ (Held(m) <=> Held(m)')
      /\ (Spared(m) <=> Spared(m)')
  BY DEF LInv, SInv, TInv, ExitSend, ExitClear, ExitKill, CleanTxq,
         CleanAckq, CleanDoneq, Held, Spared
<1>1. CASE ExitSend \/ ExitClear \/ ExitKill
  <2>1. /\ UNCHANGED <<msg, txq, tx_doneq>>
        /\ (InReach(m) <=> InReach(m)') /\ (OnWay(m) <=> OnWay(m)')
        /\ (In(m, txq) <=> In(m, txq)')
        /\ (In(m, tx_doneq) <=> In(m, tx_doneq)')
        /\ In(m, tx_doneq) => tx_doneq # <<>>
    BY <1>0, <1>1, EmptyIn
       DEF ExitSend, ExitClear, ExitKill, InReach, OnWay, In
  <2>2. CASE ExitSend
    <3>1. exit' = "clear" /\ (tx_doneq # <<>> => ctl'.task)
      BY <1>0, <2>2 DEF ExitSend, ExitOrder, AndesBhSchedule, TypeOK, CtlType
    <3> QED
      BY <1>0, <2>1, <3>1 DEF Kept
  <2>3. CASE ExitClear
    <3>1. exit = "clear" /\ exit' = "kill" /\ ctl'.task = ctl.task
      BY <1>0, <2>3 DEF ExitClear, TypeOK, CtlType
    <3> QED
      BY <1>0, <2>1, <3>1 DEF Kept
  <2>4. CASE ExitKill
    BY <1>0, <2>1, <2>4 DEF Kept, ExitKill
  <2> QED
    BY <1>1, <2>2, <2>3, <2>4
<1>2. CASE CleanTxq
  <2>1. /\ exit = "txq" /\ exit' = "ackq" /\ UNCHANGED <<tx_doneq, ctl>>
        /\ FreedStays(m) /\ (In(m, txq) /\ m \notin Sync => InReach(m)')
        /\ ~In(m, txq)'
    BY <1>0, <1>2, CleanedMem, EmptyIn DEF CleanTxq, InReach
  <2> QED
    BY <1>0, <2>1 DEF Kept, InReach, OnWay, FreedStays, In
<1>3. CASE CleanAckq
  <2>1. /\ exit = "ackq" /\ exit' = "doneq" /\ UNCHANGED <<txq, tx_doneq, ctl>>
        /\ FreedStays(m)
    BY <1>0, <1>3, CleanedMem DEF CleanAckq
  <2> QED
    BY <1>0, <2>1 DEF Kept, InReach, OnWay, FreedStays, In
<1>4. CASE CleanDoneq
  <2>1. /\ exit = "doneq" /\ exit' = "done" /\ UNCHANGED <<txq, ctl>>
        /\ FreedStays(m) /\ (In(m, tx_doneq) /\ m \notin Sync => InReach(m)')
        /\ ~In(m, tx_doneq)'
    BY <1>0, <1>4, CleanedMem, EmptyIn DEF CleanDoneq, InReach
  <2> QED
    BY <1>0, <2>1 DEF Kept, InReach, OnWay, FreedStays, In
<1> QED
  BY <1>1, <1>2, <1>3, <1>4

\* When the end is over and all calls have returned, every message has been
\* freed but those NothingLeft names.
THEOREM EndLeavesNothing == Spec => []NothingLeft
<1>1. Init => LInv
  <2> SUFFICES ASSUME Init PROVE LInv
    OBVIOUS
  <2>1. /\ \A m \in Cmds : call[m].pc = "idle"
        /\ txq = <<>> /\ tx_doneq = <<>> /\ ctl.init /\ exit = "no"
    BY DEF Init, At
  <2>2. \A m \in Cmds : ~In(m, txq) /\ ~In(m, tx_doneq)
    BY <2>1, EmptyIn
  <2> QED
    BY <2>1, <2>2, SafeInit DEF LInv, ExitOrder, Kept, Looping
<1>2. LInv /\ [Next]_vars => LInv'
  <2> SUFFICES ASSUME LInv, [Next]_vars PROVE LInv'
    OBVIOUS
  <2>1. SInv'
    BY SafeStep DEF LInv
  <2>2. ASSUME NEW m \in Cmds PROVE Kept(m)'
    BY BeginKept, DequeueKept, StepKept, LetGoKept, PostKept, RingKept,
       WaitKept,
       TaskletKept, ExitKept DEF Next
  <2> QED
    BY <2>1, <2>2, ExitOrdered DEF LInv
<1>3. LInv => NothingLeft
  <2> SUFFICES ASSUME LInv, exit = "done",
                      \A c \in Cmds : call[c].pc \in {"idle", "returned"},
                      NEW m \in Cmds, Spared(m), call[m].pc = "returned"
               PROVE  msg[m].mem = "freed"
    BY DEF NothingLeft, Unless, Spared
  <2>1. ~Held(m) /\ ring # m
    BY McuAssumption DEF LInv, SInv, TInv, HoldOK, RingOK, Held
  <2> QED
    BY <2>1 DEF LInv, Kept, InReach, OnWay, Looping
<1> QED
  BY <1>1, <1>2, <1>3, PTL DEF Spec
=============================================================================
