------------------------------- MODULE HwCmd -------------------------------
(***************************************************************************)
(* Hardware control commands (embedded/hw_ctrl/hw_ctrl_basic.c): the queue *)
(* HwCtrlQ, the callers of HwCtrlEnqueueCmd, some of which wait, the task  *)
(* HwCtrlThread that runs the commands and the requested updates, and the  *)
(* owner of the interface, who starts the task and, when it closes, runs   *)
(* the queue itself beside the task before it stops it.                    *)
(*                                                                         *)
(* A member of Cmds is one call with its command.  What is done under      *)
(* HwCtrlQLock is one step; head, tail and size of HwCtrlQ are a sequence. *)
(***************************************************************************)
EXTENDS Integers, SequencesExt

CONSTANTS
  Cmds,      \* the commands ever sent
  NoCmd,     \* no command
  Waits,     \* those whose callers wait (NeedWait)
  Buffered,  \* those that carry an information buffer
  MaxOpens   \* bound: how often the interface is opened

ASSUME HwAssumption ==
  /\ NoCmd \notin Cmds /\ Waits \subseteq Cmds /\ Buffered \subseteq Cmds
  /\ MaxOpens \in Nat \ {0}

VARIABLES
  call,     \* HwCtrlEnqueueCmd of each command: where it is, its status
            \* (FAILURE stands for RESOURCES too)
  cmd,      \* HwCmdQElmt: memory, refcnt, ack_done; fate is history: what
            \* has become of the command
  q,        \* HwCtrlQ
  qstate,   \* CmdQState
  pc,       \* where the task and the owner are
  hand,     \* the command each of them has taken from the queue
  os,       \* OS_TASK: kthread_task, kthread_running, kthread_should_stop
  nic,      \* fRTMP_ADAPTER_NIC_NOT_EXIST
  startUp,  \* fRTMP_ADAPTER_START_UP
  flag,     \* HwCtrlFlag: an update is requested; the thread that requests
            \* it is about to wake the task
  due,      \* history: requested, and not begun since
  opens     \* how often the interface has been opened

vars == <<call, cmd, q, qstate, pc, hand, os, nic, startUp, flag, due, opens>>
world == <<nic, startUp, flag, due, opens>>

Drainers == {"task", "owner"}

Init ==
  /\ call = [c \in Cmds |-> [pc |-> "idle", ret |-> "SUCCESS"]]
  /\ cmd = [c \in Cmds |-> [mem |-> "none", ref |-> 0,
                            ack |-> FALSE, fate |-> "none"]]
  /\ q = <<>> /\ qstate = "unknown"
  /\ pc = [d \in Drainers |-> IF d = "task" THEN "none" ELSE "closed"]
  /\ hand = [d \in Drainers |-> NoCmd]
  /\ os = [task |-> FALSE, running |-> FALSE, stop |-> FALSE]
  /\ nic = FALSE /\ startUp = FALSE
  /\ flag = [set |-> FALSE, kick |-> FALSE] /\ due = FALSE
  /\ opens = 0

\* os_kref_put: the last reference frees.  A count of zero, which only a
\* command that was never initialised has, is left at zero.
Put(x) == CASE x.ref = 1 -> [x EXCEPT !.ref = 0, !.mem = "freed"]
            [] x.ref > 1 -> [x EXCEPT !.ref = @ - 1]
            [] OTHER -> x

Complete(c, x) == [x EXCEPT !.ack = @ \/ c \in Waits]

WakeIfIdle == os' = [os EXCEPT !.running = pc["task"] = "wait"]
Wake == os' = [os EXCEPT !.running = TRUE]

(***************************************************************************)
(* HwCtrlEnqueueCmd.                                                       *)
(***************************************************************************)
Leave(c, p, r) == call' = [call EXCEPT ![c] = [pc |-> p, ret |-> r]]
Goto(c, p) == call' = [call EXCEPT ![c].pc = p]

\* Up to os_kref_init.  The chip is absent, or the first allocation fails;
\* when that of the buffer does, the command has no reference count yet.
Call(c) ==
  /\ call[c].pc = "idle"
  /\ \/ Leave(c, "done", "FAILURE") /\ UNCHANGED cmd
     \/ /\ ~nic /\ c \in Buffered
        /\ Leave(c, "end", "FAILURE")
        /\ cmd' = [cmd EXCEPT ![c].mem = "live", ![c].fate = "unborn"]
     \/ /\ ~nic
        /\ Goto(c, "insert")
        /\ cmd' = [cmd EXCEPT ![c].mem = "live", ![c].ref = 1]
  /\ UNCHANGED <<q, qstate, pc, hand, os, world>>

AlwaysInsert == TRUE
CanInsert == qstate \in {"inited", "running"}

SharedUncounted(x) == [x EXCEPT !.fate = "queued"]
Shared(x) == [x EXCEPT !.ref = @ + 1, !.fate = "queued"]

Insert(c) ==
  /\ call[c].pc = "insert"
  /\ IF CanInsert
       THEN /\ cmd' = [cmd EXCEPT ![c] = Shared(@)]
            /\ q' = Append(q, c)
            /\ Goto(c, "kick")
       ELSE Leave(c, "end", "FAILURE") /\ UNCHANGED <<cmd, q>>
  /\ UNCHANGED <<qstate, pc, hand, os, world>>

\* RTCMDUp.
Kick(c) ==
  /\ call[c].pc = "kick"
  /\ Wake
  /\ Goto(c, IF c \in Waits THEN "wait" ELSE "end")
  /\ UNCHANGED <<cmd, q, qstate, pc, hand, world>>

\* The wait ends with the completion or, if that has not come, in time.
ResultIgnored(c) == TRUE
InTime(c) == cmd[c].ack
EndWait(c) ==
  /\ call[c].pc = "wait"
  /\ IF InTime(c) THEN Goto(c, "end") ELSE Leave(c, "end", "FAILURE")
  /\ UNCHANGED <<cmd, q, qstate, pc, hand, os, world>>

Return(c) ==
  /\ call[c].pc = "end"
  /\ cmd' = [cmd EXCEPT ![c] = Put(@)]
  /\ Goto(c, "done")
  /\ UNCHANGED <<q, qstate, pc, hand, os, world>>

(***************************************************************************)
(* HwCtrlCmdHandler, run by the task and, when it closes, by the owner.    *)
(***************************************************************************)
Step(d, p) == pc' = [pc EXCEPT ![d] = p]
AfterDrain(d) == IF d = "task" THEN "flag" ELSE "kill"

\* The size is read without the lock.
Loop(d) ==
  /\ pc[d] = "loop"
  /\ Step(d, IF q = <<>> THEN AfterDrain(d) ELSE "take")
  /\ UNCHANGED <<call, cmd, q, qstate, hand, os, world>>

\* HwCtrlDequeueCmd, which may find that the other has emptied the queue.
Take(d) ==
  /\ pc[d] = "take"
  /\ IF q = <<>>
       THEN Step(d, AfterDrain(d)) /\ UNCHANGED <<q, hand>>
       ELSE /\ hand' = [hand EXCEPT ![d] = Head(q)]
            /\ q' = Tail(q)
            /\ Step(d, "gate")
  /\ UNCHANGED <<call, cmd, qstate, os, world>>

\* A command is passed over while the chip is absent or not started.
Gate(d) ==
  /\ pc[d] = "gate"
  /\ IF nic \/ ~startUp
       THEN /\ Step(d, "complete")
            /\ cmd' = [cmd EXCEPT ![hand[d]].fate = "settled"]
       ELSE Step(d, "run") /\ UNCHANGED cmd
  /\ UNCHANGED <<call, q, qstate, hand, os, world>>

\* The handler returns; RspBuffer, the caller's, is written by now.
Ran(d) ==
  /\ pc[d] = "run"
  /\ Step(d, "complete")
  /\ cmd' = [cmd EXCEPT ![hand[d]].fate = "settled"]
  /\ UNCHANGED <<call, q, qstate, hand, os, world>>

Completes(d) ==
  /\ pc[d] = "complete"
  /\ Step(d, "put")
  /\ cmd' = [cmd EXCEPT ![hand[d]] = Complete(hand[d], @)]
  /\ UNCHANGED <<call, q, qstate, hand, os, world>>

Release(d) ==
  /\ pc[d] = "put"
  /\ Step(d, "loop")
  /\ cmd' = [cmd EXCEPT ![hand[d]] = Put(@)]
  /\ hand' = [hand EXCEPT ![d] = NoCmd]
  /\ UNCHANGED <<call, q, qstate, os, world>>

Drain(d) == Loop(d) \/ Take(d) \/ Gate(d) \/ Ran(d) \/ Completes(d) \/ Release(d)

(***************************************************************************)
(* HwCtrlThread.  A kernel thread stopped before it has run never does.    *)
(***************************************************************************)
Starts ==
  /\ pc["task"] = "born"
  /\ IF os.stop
       THEN Step("task", "dead") /\ UNCHANGED qstate
       ELSE Step("task", "wait") /\ qstate' = "running"
  /\ UNCHANGED <<call, cmd, q, hand, os, world>>

\* RtmpOSTaskWait: the wait ends, then kthread_running is cleared.
WaitEnds ==
  /\ pc["task"] = "wait"
  /\ os.running \/ os.stop
  /\ Step("task", "clearing")
  /\ UNCHANGED <<call, cmd, q, qstate, hand, os, world>>

ClearRunning ==
  /\ pc["task"] = "clearing"
  /\ os' = [os EXCEPT !.running = FALSE]
  /\ Step("task", IF os.stop THEN "flush" ELSE "loop")
  /\ UNCHANGED <<call, cmd, q, qstate, hand, world>>

\* IsFlagSet is read without the lock.
TestFlag ==
  /\ pc["task"] = "flag"
  /\ Step("task", IF flag.set THEN "copy" ELSE "wait")
  /\ UNCHANGED <<call, cmd, q, qstate, hand, os, world>>

\* HwCtrlFlagHandler: the flags are taken over under the lock, then served.
CopyFlag ==
  /\ pc["task"] = "copy"
  /\ flag' = [flag EXCEPT !.set = FALSE]
  /\ Step("task", "update")
  /\ UNCHANGED <<call, cmd, q, qstate, hand, os, nic, startUp, due, opens>>

UpdateBegins ==
  /\ pc["task"] = "update"
  /\ IF nic THEN Step("task", "wait") /\ UNCHANGED due
            ELSE Step("task", "updating") /\ due' = FALSE
  /\ UNCHANGED <<call, cmd, q, qstate, hand, os, nic, startUp, flag, opens>>

UpdateEndsClearing ==
  /\ pc["task"] = "updating"
  /\ flag' = [flag EXCEPT !.set = FALSE]
  /\ Step("task", "wait")
  /\ UNCHANGED <<call, cmd, q, qstate, hand, os, nic, startUp, due, opens>>
UpdateEnds ==
  /\ pc["task"] = "updating"
  /\ Step("task", "wait")
  /\ UNCHANGED <<call, cmd, q, qstate, hand, os, world>>

\* The end of the task: under one lock no more commands are taken, and
\* those in the queue are completed and let go.
FlushedKept(c, x) == Complete(c, [x EXCEPT !.fate = "settled"])
Flushed(c, x) == Put(Complete(c, [x EXCEPT !.fate = "settled"]))
Flush ==
  /\ pc["task"] = "flush"
  /\ qstate' = "stoped"
  /\ cmd' = [c \in Cmds |-> IF c \in ToSet(q) THEN Flushed(c, cmd[c])
                                              ELSE cmd[c]]
  /\ q' = <<>>
  /\ Step("task", "dead")
  /\ UNCHANGED <<call, hand, os, world>>

Task ==
  \/ Drain("task")
  \/ Starts \/ WaitEnds \/ ClearRunning
  \/ TestFlag \/ CopyFlag \/ UpdateBegins \/ UpdateEnds
  \/ Flush

(***************************************************************************)
(* The owner: HwCtrlInit, HwCtrlExit.                                      *)
(***************************************************************************)
\* HwCtrlInit empties the queue without a look at what is in it.  It is
\* called after mt_wifi_init has cleared the adapter's flags.  A task whose
\* thread never ran is not forgotten by RtmpOSTaskKill; what opening the
\* interface after that does is undefined, and left out.
Open ==
  /\ pc["owner"] = "closed" /\ opens < MaxOpens /\ ~os.task
  /\ opens' = opens + 1
  /\ nic' = FALSE /\ startUp' = FALSE
  /\ q' = <<>> /\ qstate' = "inited"
  /\ cmd' = [c \in Cmds |-> IF c \in ToSet(q)
                              THEN [cmd[c] EXCEPT !.fate = "dropped"]
                              ELSE cmd[c]]
  /\ Step("owner", "attach")
  /\ UNCHANGED <<call, hand, os, flag, due>>

\* RtmpOSTaskAttach; when it fails, rtmp_sys_init calls HwCtrlExit.
Attach ==
  /\ pc["owner"] = "attach"
  /\ \/ /\ pc' = [pc EXCEPT !["owner"] = "open", !["task"] = "born"]
        /\ os' = [os EXCEPT !.task = TRUE, !.stop = FALSE]
     \/ /\ pc' = [pc EXCEPT !["owner"] = "loop", !["task"] = "none"]
        /\ UNCHANGED os
  /\ UNCHANGED <<call, cmd, q, qstate, hand, world>>

\* HwCtrlExit: the queue first (see Drain), then the task.
Close ==
  /\ pc["owner"] = "open"
  /\ Step("owner", "loop")
  /\ UNCHANGED <<call, cmd, q, qstate, hand, os, world>>

Kill ==
  /\ pc["owner"] = "kill"
  /\ IF os.task
       THEN Step("owner", "join") /\ os' = [os EXCEPT !.stop = TRUE]
       ELSE Step("owner", "closed") /\ UNCHANGED os
  /\ UNCHANGED <<call, cmd, q, qstate, hand, world>>

\* kthread_stop waits for the thread, and fails if it never ran.
Joined ==
  /\ pc["owner"] = "join" /\ pc["task"] = "dead"
  /\ os' = [os EXCEPT !.task = (qstate # "stoped")]
  /\ Step("owner", "closed")
  /\ UNCHANGED <<call, cmd, q, qstate, hand, world>>

Owner == Drain("owner") \/ Open \/ Attach \/ Close \/ Kill \/ Joined

(***************************************************************************)
(* HwCtrlSetFlag, and the flags of the adapter, which others set.          *)
(***************************************************************************)
SetFlag ==
  /\ ~nic /\ ~flag.kick
  /\ flag' = [set |-> TRUE, kick |-> TRUE]
  /\ due' = TRUE
  /\ UNCHANGED <<call, cmd, q, qstate, pc, hand, os, nic, startUp, opens>>

KickFlag ==
  /\ flag.kick
  /\ flag' = [flag EXCEPT !.kick = FALSE]
  /\ Wake
  /\ UNCHANGED <<call, cmd, q, qstate, pc, hand, nic, startUp, due, opens>>

Adapter ==
  /\ \/ pc["owner"] = "open" /\ startUp' = ~startUp /\ UNCHANGED nic
     \/ nic' = TRUE /\ UNCHANGED startUp
  /\ UNCHANGED <<call, cmd, q, qstate, pc, hand, os, flag, due, opens>>

Caller(c) == Call(c) \/ Insert(c) \/ Kick(c) \/ EndWait(c) \/ Return(c)

Next ==
  \/ \E c \in Cmds : Caller(c)
  \/ Task \/ Owner
  \/ SetFlag \/ KickFlag \/ Adapter

Spec == Init /\ [][Next]_vars

\* Threads that have something to do go on, a handler returns, a call that
\* has begun ends its wait; nobody need call, close or open.
FairSpec ==
  /\ Spec
  /\ WF_vars(Task) /\ WF_vars(Drain("owner") \/ Attach \/ Kill \/ Joined)
  /\ WF_vars(KickFlag)
  /\ \A c \in Cmds : WF_vars(Insert(c) \/ Kick(c) \/ EndWait(c) \/ Return(c))

-----------------------------------------------------------------------------
DrainPcs == {"loop", "take", "gate", "run", "complete", "put"}
TaskPcs == DrainPcs \cup {"none", "born", "wait", "clearing", "flag", "copy",
                          "update", "updating", "flush", "dead"}
OwnerPcs == DrainPcs \cup {"closed", "attach", "open", "kill", "join"}
Fates == {"none", "unborn", "queued", "settled", "dropped"}

(***************************************************************************)
(* The variables of HwCtrlEnqueueCmd, HwCtrlThread, HwCtrlInit and         *)
(* HwCtrlExit stay within their types.                                     *)
(***************************************************************************)
TypeOK ==
  /\ call \in [Cmds ->
       [pc : {"idle", "insert", "kick", "wait", "end", "done"},
        ret : {"SUCCESS", "FAILURE"}]]
  /\ cmd \in [Cmds -> [mem : {"none", "live", "freed"}, ref : 0 .. 2,
                       ack : BOOLEAN, fate : Fates]]
  /\ q \in Seq(Cmds)
  /\ qstate \in {"unknown", "inited", "running", "stoped"}
  /\ pc \in [Drainers -> TaskPcs \cup OwnerPcs]
  /\ pc["task"] \in TaskPcs /\ pc["owner"] \in OwnerPcs
  /\ hand \in [Drainers -> Cmds \cup {NoCmd}]
  /\ os \in [task : BOOLEAN, running : BOOLEAN, stop : BOOLEAN]
  /\ nic \in BOOLEAN /\ startUp \in BOOLEAN
  /\ flag \in [set : BOOLEAN, kick : BOOLEAN] /\ due \in BOOLEAN
  /\ opens \in 0 .. MaxOpens

InCall(c) == call[c].pc \in {"insert", "kick", "wait", "end"}
InQueue(c) == c \in ToSet(q)
InHand(c) == \E d \in Drainers : hand[d] = c

(***************************************************************************)
(* Whoever has a hold of a command - the call that made it, the queue, the *)
(* task or the owner - finds it in memory, whether its caller has given up *)
(* waiting, the task has let it go, or both at once: os_kref_get and       *)
(* os_kref_put in HwCtrlEnqueueCmd and HwCtrlCmdHandler.                   *)
(***************************************************************************)
HeldIsLive ==
  \A c \in Cmds : InCall(c) \/ InQueue(c) \/ InHand(c) => cmd[c].mem = "live"

(***************************************************************************)
(* Memory that nobody has a hold of is freed, with two exceptions: the     *)
(* command whose buffer could not be allocated, which HwCtrlEnqueueCmd     *)
(* lets go before it has a reference, and a command that HwCtrlInit finds  *)
(* in the queue and forgets.                                               *)
(***************************************************************************)
NoOtherLeak ==
  \A c \in Cmds :
    cmd[c].mem = "live" =>
      \/ InCall(c) \/ InQueue(c) \/ InHand(c)
      \/ cmd[c].fate \in {"unborn", "dropped"}

(***************************************************************************)
(* A caller that waits and is told SUCCESS has been dealt with: the task   *)
(* and the owner are done with its command, which ran, or was passed over, *)
(* or was cleared when the task ended.  So nobody writes its answer buffer *)
(* (RspBuffer) later; only a caller that was told FAILURE may meet that.   *)
(***************************************************************************)
SuccessMeansSettled ==
  \A c \in Waits :
    call[c].pc = "done" /\ call[c].ret = "SUCCESS" =>
      cmd[c].fate = "settled"

(***************************************************************************)
(* When HwCtrlExit has returned, nothing is queued and nothing will be,    *)
(* however late a caller passed the first tests of HwCtrlEnqueueCmd -      *)
(* unless the task never ran, and with it the end of HwCtrlThread.         *)
(***************************************************************************)
ClosedIsEmpty ==
  pc["owner"] = "closed" /\ qstate # "inited" =>
    q = <<>> /\ \A d \in Drainers : hand[d] = NoCmd

(***************************************************************************)
(* Every command in the queue is dealt with: no wake-up of RTCMDUp is lost *)
(* to RtmpOSTaskWait, whoever empties the queue meanwhile.  A task that    *)
(* never ran is the exception again.                                       *)
(***************************************************************************)
EveryCommandSettled ==
  \A c \in Cmds :
    InQueue(c) \/ InHand(c) ~>
      \/ ~(InQueue(c) \/ InHand(c))
      \/ pc["owner"] = "closed" /\ qstate = "inited"

(***************************************************************************)
(* An update that HwCtrlSetFlag requests is begun after the request,       *)
(* also when it comes while HwCtrlFlagHandler serves another - unless the  *)
(* chip is gone or the interface is being closed, or is closed.            *)
(***************************************************************************)
EveryUpdateMade ==
  due ~> ~due \/ nic \/ pc["owner"] # "open"
=============================================================================
