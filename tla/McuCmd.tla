------------------------------- MODULE McuCmd -------------------------------
(***************************************************************************)
(* Commands to the MCU (embedded/mcu/andes_core.c, andes_mt.c): the lists  *)
(* txq, ackq and tx_doneq, the threads inside AndesSendCmdMsg, the receive *)
(* tasklet that matches answers with commands, the tasklet that frees what *)
(* is done, and the thread that ends the interface (AndesCtrlPciExit).     *)
(*                                                                         *)
(* A member of Cmds is one command and the call of AndesSendCmdMsg that    *)
(* sends it; the loop of a call sends whatever it finds in txq, so it may  *)
(* have another call's command in its hands.  Each list has its own lock;  *)
(* what is done under one lock is one step.  rxq, kickq and rx_doneq are   *)
(* not used on this bus, and retry_times is always 0.                      *)
(***************************************************************************)
EXTENDS Integers, FiniteSets, SequencesExt

CONSTANTS
  Cmds,     \* the commands ever sent
  NoCmd,    \* no command
  Sync,     \* those with the NEED_SYNC_WITH_FW flag: their callers wait
  StaRec,   \* those of type EXT_CMD_STAREC_UPDATE
  SeqMax    \* the last sequence number, 0xf

ASSUME McuAssumption ==
  /\ NoCmd \notin Cmds /\ Sync \subseteq Cmds /\ StaRec \subseteq Sync
  /\ SeqMax \in Nat \ {0}

VARIABLES
  call,      \* AndesSendCmdMsg of each command: where it is, ret, the
             \* message in its loop's hands
  msg,       \* struct cmd_msg: state, seq, whether ack_done is completed,
             \* cmd_return_status, whether it is allocated
  txq, ackq, tx_doneq,
  ring,      \* the message whose sender has the lock of the ring, from its
             \* queuing to the writing of the index
  ctl,       \* struct MCU_CTRL: MCU_INIT, cmd_seq, cmd_msg_task scheduled;
             \* and fRTMP_ADAPTER_MCU_SEND_IN_BAND_CMD
  wire,      \* the commands the MCU has got and not answered
  exit,      \* AndesCtrlPciExit
  took,      \* history: the command whose answer completed a command
  harm       \* history: what befell each command

vars ==
  <<call, msg, txq, ackq, tx_doneq, ring, ctl, wire, exit, took, harm>>

At(p, h) == [pc |-> p, hold |-> h, ret |-> "SUCCESS"]

Init ==
  /\ call = [m \in Cmds |-> At("idle", NoCmd)]
  /\ msg = [m \in Cmds |-> [state |-> "none", seq |-> 0,
                            done |-> FALSE, status |-> "SUCCESS",
                            mem |-> "none"]]
  /\ txq = <<>> /\ ackq = <<>> /\ tx_doneq = <<>> /\ ring = NoCmd
  /\ ctl = [init |-> TRUE, send |-> TRUE, cmd_seq |-> 0, task |-> FALSE]
  /\ wire = {}
  /\ exit = "no"
  /\ took = [m \in Cmds |-> NoCmd]
  /\ harm = [m \in Cmds |-> {}]

In(m, q) == m \in ToSet(q)

\* _AndesUnlinkCmdMsg: a message no list links to is left alone.
StillLinked(q, m) == q
Unlinked(q, m) ==
  IF In(m, q) THEN RemoveAt(q, CHOOSE i \in DOMAIN q : q[i] = m) ELSE q

Goto(c, p) == call' = [call EXCEPT ![c].pc = p]
Harm(S, r) == [m \in Cmds |-> IF m \in S THEN harm[m] \cup {r} ELSE harm[m]]

\* AndesFreeCmdMsg and AndesForceFreeCmdMsg complete ack_done, then free.
Freed(m) == [msg[m] EXCEPT !.mem = "freed", !.done = @ \/ m \in Sync]
AndesFreeCmdMsg(m) == msg' = [msg EXCEPT ![m] = Freed(m)]
Queued(m, s) == [msg EXCEPT ![m].state = s]

\* The thread that finds every number in use searches on forever, with
\* ackq_lock taken.
AckqLockFree == \A c \in Cmds : call[c].pc # "spin"

-----------------------------------------------------------------------------
(***************************************************************************)
(* AndesSendCmdMsg, from its entry to the loop.                            *)
(***************************************************************************)
\* A command that may not be sent, for the flags or because the caller is
\* an interrupt and would wait, is freed at once.
Refuse(m) ==
  /\ call[m].pc = "idle"
  /\ ~ctl.send \/ m \in Sync
  /\ AndesFreeCmdMsg(m)
  /\ call' = [call EXCEPT ![m] = [@ EXCEPT !.pc = "returned",
                                          !.ret = "FAILURE"]]
  /\ harm' = Harm({m}, "refused")
  /\ UNCHANGED <<txq, ackq, tx_doneq, ring, ctl, wire, exit, took>>

Accept(m) ==
  /\ call[m].pc = "idle" /\ ctl.send
  /\ msg' = [msg EXCEPT ![m].mem = "live"]
  /\ Goto(m, "queue")
  /\ UNCHANGED <<txq, ackq, tx_doneq, ring, ctl, wire, exit, took, harm>>

Queue(m) ==
  /\ call[m].pc = "queue"
  /\ txq' = Append(txq, m)
  /\ msg' = Queued(m, "tx_start")
  /\ Goto(m, "loop")
  /\ UNCHANGED <<ackq, tx_doneq, ring, ctl, wire, exit, took, harm>>

(***************************************************************************)
(* AndesDequeueAndKickOutCmdMsgs, run by call c.  At its end               *)
(* AndesBhSchedule wakes the tasklet if there is anything to free.  A call *)
(* whose loop failed returns SUCCESS at once, without waiting.             *)
(***************************************************************************)
AndesBhSchedule == [ctl EXCEPT !.task = @ \/ (ctl.init /\ tx_doneq # <<>>)]
LoopSucceeds(c) == Goto(c, IF c \in Sync THEN "wait" ELSE "returned")
LoopFails(c) == call' = [call EXCEPT ![c] = At("returned", NoCmd)]
GoOn(c) == call' = [call EXCEPT ![c] = At("loop", NoCmd)]

Dequeue(c) ==
  /\ call[c].pc = "loop"
  /\ IF txq = <<>>
       THEN /\ LoopSucceeds(c)
            /\ ctl' = AndesBhSchedule
            /\ UNCHANGED txq
       ELSE /\ call' = [call EXCEPT ![c] = At("check", Head(txq))]
            /\ txq' = Tail(txq)
            /\ UNCHANGED ctl
  /\ UNCHANGED <<msg, ackq, tx_doneq, ring, wire, exit, took, harm>>

\* The interface is ending: a command nobody waits for is freed, another is
\* left to its caller.
Drop(c) ==
  LET h == call[c].hold IN
  /\ call[c].pc = "check" /\ ~ctl.send
  /\ IF h \in Sync THEN UNCHANGED msg ELSE AndesFreeCmdMsg(h)
  /\ GoOn(c)
  /\ UNCHANGED <<txq, ackq, tx_doneq, ring, ctl, wire, exit, took, harm>>

\* AndesGetCmdMsgSeq: the next number after cmd_seq no command in ackq has.
OneShort == 1 .. SeqMax - 1
Numbers == 1 .. SeqMax
NoneUsed == {}
UsedSeqs == {msg[m].seq : m \in ToSet(ackq)}
FreeSeqs == Numbers \ UsedSeqs
Unwrapped(n) == n + 1
NextSeq(n) ==
  LET ahead == {s \in FreeSeqs : s > n} IN
  Min(IF ahead # {} THEN ahead ELSE FreeSeqs)

\* A number of which another call is about to make use, or with which the
\* MCU may still answer a command that has been given up.
Pending(h) ==
  {x \in Cmds \ {h} :
     \/ (x \in wire \/ x = ring) /\ ~In(x, ackq)
     \/ \E c \in Cmds : call[c].hold = x /\ call[c].pc \in {"kick", "post"}}
Reused(h, s) == {x \in Pending(h) : msg[x].seq = s}

AndesGetCmdMsgSeq(c) ==
  LET h == call[c].hold
      s == NextSeq(ctl.cmd_seq) IN
  /\ call[c].pc = "check" /\ ctl.send /\ h \in Sync
  /\ AckqLockFree
  /\ \/ /\ FreeSeqs = {}
        /\ Goto(c, "spin")
        /\ UNCHANGED <<msg, ctl, harm>>
     \/ /\ FreeSeqs # {}
        /\ msg' = [msg EXCEPT ![h].seq = s]
        /\ ctl' = [ctl EXCEPT !.cmd_seq = s]
        /\ harm' = Harm({x \in {h} \cup Reused(h, s) : Reused(h, s) # {}},
                        "number")
        /\ Goto(c, "kick")
  /\ UNCHANGED <<txq, ackq, tx_doneq, ring, wire, exit, took>>

NoSeq(c) ==
  /\ call[c].pc = "check" /\ ctl.send /\ call[c].hold \notin Sync
  /\ Goto(c, "kick")
  /\ UNCHANGED <<msg, txq, ackq, tx_doneq, ring, ctl, wire, exit, took, harm>>

\* AndesMTPciKickOutCmdMsg returns NDIS_STATUS_FAILURE: MCU_INIT is clear
\* or the ring has no free descriptor, which depends on the hardware alone.
\* The message is freed, whoever waits for it, and the loop ends, even if
\* the caller's own message is still in a list.
KickFails(c) ==
  LET h == call[c].hold IN
  /\ call[c].pc = "kick"
  /\ AndesFreeCmdMsg(h)
  /\ LoopFails(c)
  /\ ctl' = AndesBhSchedule
  /\ harm' = [Harm({c}, "unsent") EXCEPT
                ![h] = @ \cup {r \in {"foreign"} : h # c}]
  /\ UNCHANGED <<txq, ackq, tx_doneq, ring, wire, exit, took>>

KickPasses(c) ==
  /\ call[c].pc = "kick" /\ ctl.init
  /\ Goto(c, "post")
  /\ UNCHANGED <<msg, txq, ackq, tx_doneq, ring, ctl, wire, exit, took, harm>>

\* Under the ring's lock the message is queued.
Post(c) ==
  LET h == call[c].hold IN
  /\ call[c].pc = "post" /\ ring = NoCmd
  /\ IF h \in Sync
       THEN /\ AckqLockFree
            /\ ackq' = Append(ackq, h)
            /\ msg' = Queued(h, "wait_ack")
            /\ UNCHANGED tx_doneq
       ELSE /\ tx_doneq' = Append(tx_doneq, h)
            /\ msg' = Queued(h, "tx_done")
            /\ UNCHANGED ackq
  /\ ring' = h
  /\ call' = [call EXCEPT ![c] = At("ring", NoCmd)]
  /\ UNCHANGED <<txq, ctl, wire, exit, took, harm>>

\* Then its sending_time_in_jiffies is written, if it waits for an answer,
\* and the ring's index, unless MCU_INIT is clear by now; in that case -1 is
\* returned, and the message stays where it is.
Ring(c) ==
  /\ call[c].pc = "ring"
  /\ IF ctl.init
       THEN /\ wire' = IF ring \in Sync THEN wire \cup {ring} ELSE wire
            /\ GoOn(c)
            /\ UNCHANGED harm
       ELSE /\ LoopFails(c)
            /\ harm' = [Harm({c}, "unsent") EXCEPT ![ring] = @ \cup {"stray"}]
            /\ UNCHANGED wire
  /\ ring' = NoCmd
  /\ UNCHANGED <<msg, txq, ackq, tx_doneq, ctl, exit, took>>

(***************************************************************************)
(* AndesSendCmdMsg, the wait for the answer.  The answer may still come    *)
(* between the timeout and the caller's next step, so that a wait may time *)
(* out with ack_done completed.                                            *)
(***************************************************************************)
Held(m) == \E c \in Cmds : call[c].hold = m
InHands(m) == Held(m) \/ ring = m
NoTimeout(m) == {r \in {"SUCCESS"} : msg[m].done}
Outcomes(m) == {r \in {"SUCCESS", "FAILURE"} : r = "SUCCESS" => msg[m].done}

\* MCU_INIT is clear: the message is freed, and SUCCESS returned.
WokenKeeps(m) ==
  /\ call[m].pc = "wait" /\ ~ctl.init
  /\ Goto(m, "returned")
  /\ UNCHANGED <<msg, txq, ackq, tx_doneq, ring, ctl, wire, exit, took, harm>>
WokenAtExit(m) ==
  /\ call[m].pc = "wait" /\ ~ctl.init
  /\ AndesFreeCmdMsg(m)
  /\ Goto(m, "returned")
  /\ harm' = Harm({x \in {m} : InHands(m) \/ In(m, txq) \/ In(m, ackq)}, "exit")
  /\ UNCHANGED <<txq, ackq, tx_doneq, ring, ctl, wire, exit, took>>

\* The state is read without a lock: a message in another call's hands is
\* not seen.
Woken(m) ==
  /\ call[m].pc = "wait" /\ ctl.init
  /\ IF msg[m].state = "wait_ack"
       THEN AckqLockFree /\ ackq' = Unlinked(ackq, m)
       ELSE UNCHANGED ackq
  /\ \E r \in Outcomes(m) :
       call' = [call EXCEPT ![m] = [@ EXCEPT !.pc = "finish", !.ret = r]]
  /\ harm' = Harm({x \in {m} : InHands(m) \/ In(m, txq)}, "early")
  /\ UNCHANGED <<msg, txq, tx_doneq, ring, ctl, wire, exit, took>>

\* A STAREC_UPDATE returns cmd_return_status, whether or not an answer has
\* written it.
StatusRet(m) == msg[m].status
FinalRet(m) == IF m \in StaRec THEN msg[m].status ELSE call[m].ret
Finish(m) ==
  /\ call[m].pc = "finish"
  /\ tx_doneq' = Append(tx_doneq, m)
  /\ msg' = Queued(m, "tx_done")
  /\ call' = [call EXCEPT ![m] = [@ EXCEPT !.pc = "returned",
                                          !.ret = FinalRet(m)]]
  /\ harm' = Harm({x \in {m} : exit # "no"}, "late")
  /\ UNCHANGED <<txq, ackq, ring, ctl, wire, exit, took>>

-----------------------------------------------------------------------------
(***************************************************************************)
(* The receive tasklet: the MCU's answer to m is given to the first        *)
(* command in ackq with its number, which stays there until its caller     *)
(* takes it out.  It is dropped when MCU_INIT is clear, when there is no   *)
(* memory for it, or when no command in ackq has its number.  A            *)
(* STAREC_UPDATE takes its status from an answer of the expected length.   *)
(***************************************************************************)
Matching(m) == {i \in DOMAIN ackq : msg[ackq[i]].seq = msg[m].seq}
Receiver(m) ==
  ackq[CHOOSE i \in Matching(m) : \A j \in Matching(m) : i <= j]

Statuses(r) ==
  IF r \in StaRec THEN {"SUCCESS", "FAILURE"} ELSE {msg[r].status}
Answered(r, s) == [r EXCEPT !.done = TRUE, !.status = s]

AndesMTRxEventHandler(m) ==
  /\ m \in wire /\ AckqLockFree
  /\ wire' = wire \ {m}
  /\ \/ /\ ctl.init /\ Matching(m) # {}
        /\ \E s \in Statuses(Receiver(m)) :
             msg' = [msg EXCEPT ![Receiver(m)] = Answered(@, s)]
        /\ took' = [took EXCEPT ![Receiver(m)] = m]
     \/ UNCHANGED <<msg, took>>
  /\ UNCHANGED <<call, txq, ackq, tx_doneq, ring, ctl, exit, harm>>

(***************************************************************************)
(* The tasklet cmd_msg_task.                                               *)
(***************************************************************************)
AndesCmdMsgBh ==
  /\ ctl.task
  /\ IF tx_doneq # <<>>
       THEN /\ AndesFreeCmdMsg(Head(tx_doneq))
            /\ tx_doneq' = Tail(tx_doneq)
            /\ UNCHANGED ctl
       ELSE /\ ctl' = [ctl EXCEPT !.task = FALSE]
            /\ UNCHANGED <<msg, tx_doneq>>
  /\ UNCHANGED <<call, txq, ackq, ring, wire, exit, took, harm>>

(***************************************************************************)
(* The end: AndesMTPciFwExit and AndesCtrlPciExit.                         *)
(***************************************************************************)
ExitSend ==
  /\ exit = "no"
  /\ ctl' = [AndesBhSchedule EXCEPT !.send = FALSE]
  /\ exit' = "clear"
  /\ UNCHANGED <<call, msg, txq, ackq, tx_doneq, ring, wire, took, harm>>

ExitClear ==
  /\ exit = "clear"
  /\ ctl' = [ctl EXCEPT !.init = FALSE]
  /\ exit' = "kill"
  /\ UNCHANGED <<call, msg, txq, ackq, tx_doneq, ring, wire, took, harm>>

\* The tasklet is waited for.
ExitKill ==
  /\ exit = "kill" /\ ~ctl.task
  /\ exit' = "txq"
  /\ UNCHANGED <<call, msg, txq, ackq, tx_doneq, ring, ctl, wire, took, harm>>

\* AndesCleanupCmdMsg: callers that wait are woken, to free their message
\* themselves.
AllFreed(q) == [m \in Cmds |-> IF In(m, q) THEN Freed(m) ELSE msg[m]]
Cleaned(q) ==
  [m \in Cmds |->
     IF ~In(m, q) THEN msg[m]
     ELSE IF m \in Sync THEN [msg[m] EXCEPT !.done = TRUE]
     ELSE Freed(m)]

CleanTxq ==
  /\ exit = "txq"
  /\ msg' = Cleaned(txq) /\ txq' = <<>>
  /\ exit' = "ackq"
  /\ UNCHANGED <<call, ackq, tx_doneq, ring, ctl, wire, took, harm>>

CleanAckq ==
  /\ exit = "ackq" /\ AckqLockFree
  /\ msg' = Cleaned(ackq) /\ ackq' = <<>>
  /\ exit' = "doneq"
  /\ UNCHANGED <<call, txq, tx_doneq, ring, ctl, wire, took, harm>>

CleanDoneq ==
  /\ exit = "doneq"
  /\ msg' = Cleaned(tx_doneq) /\ tx_doneq' = <<>>
  /\ exit' = "done"
  /\ UNCHANGED <<call, txq, ackq, ring, ctl, wire, took, harm>>

-----------------------------------------------------------------------------
Loop(c) ==
  \/ Dequeue(c) \/ Drop(c) \/ AndesGetCmdMsgSeq(c) \/ NoSeq(c)
  \/ KickFails(c) \/ KickPasses(c) \/ Post(c) \/ Ring(c)
Wait(m) == WokenAtExit(m) \/ Woken(m) \/ Finish(m)
AndesCtrlPciExit ==
  \/ ExitClear \/ ExitKill \/ CleanTxq \/ CleanAckq \/ CleanDoneq

Next ==
  \/ \E c \in Cmds :
       \/ Refuse(c) \/ Accept(c) \/ Queue(c)
       \/ Dequeue(c) \/ Drop(c) \/ AndesGetCmdMsgSeq(c) \/ NoSeq(c)
       \/ KickFails(c) \/ KickPasses(c) \/ Post(c) \/ Ring(c)
       \/ WokenAtExit(c) \/ Woken(c) \/ Finish(c)
       \/ AndesMTRxEventHandler(c)
  \/ AndesCmdMsgBh
  \/ ExitSend \/ ExitClear \/ ExitKill
  \/ CleanTxq \/ CleanAckq \/ CleanDoneq

Spec == Init /\ [][Next]_vars

\* A call that has begun goes on, and the wait ends with the answer or the
\* timeout; tasklets run; an exit that has begun goes on.  Nothing makes the
\* MCU answer.
FairSpec ==
  /\ Spec
  /\ \A c \in Cmds : WF_vars(Queue(c) \/ Loop(c) \/ Wait(c))
  /\ WF_vars(AndesCmdMsgBh) /\ WF_vars(AndesCtrlPciExit)

-----------------------------------------------------------------------------
Steps == {"idle", "queue", "loop", "check", "spin", "kick", "post", "ring",
          "wait", "finish", "returned"}
States == {"none", "tx_start", "wait_ack", "tx_done"}
Harms ==
  {"refused", "number", "unsent", "foreign", "stray", "exit", "early", "late"}
CallType == [pc : Steps, hold : Cmds \cup {NoCmd},
             ret : {"SUCCESS", "FAILURE"}]
MsgType == [state : States, seq : 0 .. SeqMax, done : BOOLEAN,
            status : {"SUCCESS", "FAILURE"},
            mem : {"none", "live", "freed"}]
CtlType == [init : BOOLEAN, send : BOOLEAN, cmd_seq : 0 .. SeqMax,
            task : BOOLEAN]
Exits == {"no", "clear", "kill", "txq", "ackq", "doneq", "done"}

TypeOK ==
  /\ call \in [Cmds -> CallType]
  /\ msg \in [Cmds -> MsgType]
  /\ txq \in Seq(Cmds) /\ ackq \in Seq(Cmds) /\ tx_doneq \in Seq(Cmds)
  /\ ring \in Cmds \cup {NoCmd}
  /\ ctl \in CtlType
  /\ wire \subseteq Cmds
  /\ exit \in Exits
  /\ took \in [Cmds -> Cmds \cup {NoCmd}]
  /\ harm \in [Cmds -> SUBSET Harms]

(***************************************************************************)
(* Properties.  What a command suffered is told by harm:                   *)
(*   refused  it was not accepted                                          *)
(*   foreign  another call's loop failed to send it and freed it           *)
(*   unsent   the loop of its own call failed, so nobody waits for it      *)
(*   stray    it was queued though MCU_INIT was clear, and -1 returned     *)
(*   early    its wait ended while it was on its way to ackq, or while the *)
(*            call that queued it had not yet let go of it                 *)
(*   exit     its wait ended, MCU_INIT clear, while it was still linked    *)
(*   late     its call ended after the end of the interface had begun      *)
(*   number   its number was given twice                                   *)
(* Each claim is made of the commands that did not suffer what breaks it,  *)
(* whatever happened to the others.                                        *)
(***************************************************************************)
Unless(m, S, P) == harm[m] \cap S # {} \/ P
Inside ==
  {"loop", "check", "spin", "kick", "post", "ring", "wait", "finish"}

InTwo(m) ==
  \/ In(m, txq) /\ (In(m, ackq) \/ In(m, tx_doneq) \/ Held(m))
  \/ In(m, ackq) /\ (In(m, tx_doneq) \/ Held(m))
  \/ In(m, tx_doneq) /\ Held(m)
Nowhere(m) ==
  ~In(m, txq) /\ ~In(m, ackq) /\ ~In(m, tx_doneq) /\ ~Held(m)
Once(m, q) == \A i, j \in DOMAIN q : q[i] = m /\ q[j] = m => i = j

\* A message, which has one pair of links, is in one list at most or in the
\* hands of one loop, unless its wait timed out too early: AndesSendCmdMsg
\* reads its state without a lock and then queues it a second time.
OneList ==
  \A m \in Cmds : Unless(m, {"early"},
    /\ ~InTwo(m)
    /\ Once(m, txq) /\ Once(m, ackq) /\ Once(m, tx_doneq)
    /\ \A c, d \in Cmds : call[c].hold = m /\ call[d].hold = m => c = d)

\* A freed message is in no list and no hands, and neither its call nor the
\* one that has just queued it makes any more use of it, unless another call
\* freed it, its wait ended too early, or its wait ended with MCU_INIT clear
\* before the clean-up had unlinked it.
Uses(m) ==
  call[m].pc = "queue" \/ (m \in Sync /\ (call[m].pc \in Inside \/ ring = m))
NoDangling ==
  \A m \in Cmds : Unless(m, {"foreign", "early", "exit"},
    msg[m].mem = "freed" => ~Uses(m) /\ Nowhere(m))

\* A message in ackq, whose number is taken, has a call that will take it
\* out, unless the loop of the call failed or the end has come.
AckqHoldsWaiters ==
  \A m \in Cmds : Unless(m, {"unsent", "stray", "early", "exit"},
    In(m, ackq) => call[m].pc \in Inside)

\* The search of AndesGetCmdMsgSeq for a free number, made with ackq_lock
\* taken, finds one while at most SeqMax calls wait or are about to, unless
\* messages nobody waits for have piled up in ackq.
NeverSpins ==
  (\E c \in Cmds : call[c].pc = "spin") =>
    \/ \E m \in Cmds : harm[m] \cap {"unsent", "stray", "early", "exit"} # {}
    \/ Cardinality({m \in Sync : call[m].pc \in Inside}) > SeqMax

\* A command is completed by its own answer, unless its number was that of
\* a command given up but not answered, or of one about to be queued.
OwnAnswer ==
  \A m \in Cmds : took[m] \notin {NoCmd, m} =>
    "number" \in harm[m] /\ "number" \in harm[took[m]]

\* A call that waits and returns SUCCESS has been answered, and so has the
\* call of a STAREC_UPDATE, whose SUCCESS says nothing, that returns FAILURE,
\* unless it was refused, its loop failed, its message was freed by another,
\* or the interface has ended.
Told(m) == call[m].ret = IF m \in StaRec THEN "SUCCESS" ELSE "FAILURE"
ReturnTellsAnswer ==
  \A m \in Sync : Unless(m, {"refused", "unsent", "foreign"},
    call[m].pc = "returned" /\ ctl.init => Told(m) \/ took[m] # NoCmd)

\* When the end is over and all calls have returned, every message has been
\* freed but those whose call's loop failed, or ended during the end.
NothingLeft ==
  exit = "done" /\ (\A c \in Cmds : call[c].pc \in {"idle", "returned"}) =>
    \A m \in Cmds : Unless(m, {"late", "stray", "unsent"},
      call[m].pc = "returned" => msg[m].mem = "freed")

\* Again and again every call has returned, whether or not the MCU answers,
\* unless the search for a number goes on for ever.
EveryCallReturns ==
  []<>(~AckqLockFree \/ \A m \in Cmds : call[m].pc \in {"idle", "returned"})
=============================================================================
