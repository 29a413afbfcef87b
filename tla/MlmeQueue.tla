----------------------------- MODULE MlmeQueue -----------------------------
(***************************************************************************)
(* The MLME queue and the MLME thread of the MT7615 driver                 *)
(* (embedded/common/mlme.c): a ring of MaxLen elements that interrupt      *)
(* tasklets, timers and ioctl threads fill (MlmeEnqueue,                   *)
(* MlmeEnqueueForRecv, MlmeEnqueueForWsc), one kernel thread that empties  *)
(* it into the state machines (MlmeThread, MlmeHandler, MlmeDequeue), the  *)
(* sweep that removes the elements of an interface that goes down          *)
(* (mlme_bss_clear), and the life of the queue from MlmeInit to MlmeHalt.  *)
(*                                                                         *)
(* A step is what one thread does between two points where another thread  *)
(* may run: a section under Queue->Lock is one step, so is an access       *)
(* outside any lock.  TaskLock is held over several steps and is a         *)
(* variable.  The multi-queue build option (MLME_MULTI_QUEUE_SUPPORT) is   *)
(* off by default and not modelled; nor are MlmeEnqueueWithWdev and        *)
(* MlmeRestartStateMachine, which nothing calls.                           *)
(***************************************************************************)
EXTENDS Naturals, Sequences

CONSTANTS
  Msgs,        \* the messages the run sends, each at most once
  Kind,        \* Msgs -> which enqueue function carries the message
  Owner,       \* Msgs -> the interface the message is about
  Unknown,     \* messages that come with RESERVED_WCID: no station is known
  Wdevs,       \* the virtual interfaces (struct wifi_dev)
  Senders,     \* the threads that enqueue
  Cap,         \* MAX_LEN_OF_MLME_QUEUE
  NoMsg,       \* an element never written
  NoWdev,      \* the wdev pointer of such an element
  MaxCloses,   \* bound: how often interfaces go down
  MaxReopens   \* bound: how often the whole driver is taken down and up

Kinds == {"local", "recv", "wsc"}

ASSUME CapAssumption == Cap \in Nat \ {0}
ASSUME MsgAssumption ==
  /\ Kind \in [Msgs -> Kinds]
  /\ Owner \in [Msgs -> Wdevs]
  /\ NoMsg \notin Msgs
ASSUME UnknownAssumption == Unknown \subseteq Msgs
ASSUME BoundAssumption == MaxCloses \in Nat /\ MaxReopens \in Nat

VARIABLES
  queue,       \* MLME_QUEUE: Num, Head, Tail, MaxLen
  Entry,       \* its elements: Occupied, the message, the wdev pointer
  bRunning,    \* Mlme.bRunning: MlmeHandler is at work
  suspend,     \* Mlme.suspend: MlmeThread must not start MlmeHandler
  taskLock,    \* who holds Mlme.TaskLock over several steps
  wake,        \* kthread_running of the MLME task: a wake-up is due
  flags,       \* adapter flags: HALT_IN_PROGRESS, START_UP; and kthread_stop
  ifUp,        \* wdev->if_up_down_state
  snd,         \* the threads inside an enqueue function
  thr,         \* the MLME thread
  ctl,         \* the thread that takes interfaces or the driver down
  fate,        \* what became of each message (history, read by no guard
               \* except that a message is sent once)
  count        \* closes and reopens so far (only for the bounds)

vars == <<queue, Entry, bRunning, suspend, taskLock, wake, flags, ifUp, snd,
          thr, ctl, fate, count>>

Slots == 0 .. Cap - 1
Fates == {"unsent", "sending", "refused", "pending", "handled", "swept",
          "lost"}

EmptyElem == [Occupied |-> FALSE, msg |-> NoMsg, wdev |-> NoWdev]
EmptyQueue == [Num |-> 0, Head |-> 0, Tail |-> 0, MaxLen |-> Cap]

Init ==
  /\ queue = EmptyQueue
  /\ Entry = [i \in Slots |-> EmptyElem]
  /\ bRunning = FALSE
  /\ suspend = FALSE
  /\ taskLock = "free"
  /\ wake = FALSE
  /\ flags = [halt |-> FALSE, startUp |-> FALSE, stop |-> FALSE]
  /\ ifUp = [w \in Wdevs |-> TRUE]
  /\ snd = [s \in Senders |-> [pc |-> "idle", msg |-> NoMsg]]
  /\ thr = [pc |-> "wait", slot |-> 0]
  /\ ctl = [pc |-> "open", wdev |-> NoWdev, left |-> 0, slot |-> 0]
  /\ fate = [m \in Msgs |-> "unsent"]
  /\ count = [closes |-> 0, reopens |-> 0]

(***************************************************************************)
(* The ring.                                                               *)
(***************************************************************************)
WrapOffByOne(i) == IF i + 1 > queue.MaxLen THEN 0 ELSE i + 1
Wrap(i) == IF i + 1 = queue.MaxLen THEN 0 ELSE i + 1

QueueEmpty == queue.Num = 0 \/ queue.Head = queue.Tail

QueueFull(m) ==
  \/ IF Kind[m] = "recv" THEN queue.Num >= queue.MaxLen \div 2
                         ELSE queue.Num = queue.MaxLen
  \/ queue.Tail \in Slots /\ Entry[queue.Tail].Occupied

\* The double check under the lock.  A destroyed queue does not wrap its
\* tail: the in-flight enqueues that reach it are fewer than its elements.
TailBusyUnchecked == FALSE
TailBusy == queue.Tail \in Slots => Entry[queue.Tail].Occupied

Ring(n, h, t) == [Num |-> n, Head |-> h, Tail |-> t,
                  MaxLen |-> queue.MaxLen]
Pushed == Ring(queue.Num + 1, queue.Head, Wrap(queue.Tail))
Popped == Ring(queue.Num - 1, Wrap(queue.Head), queue.Tail)

(***************************************************************************)
(* The enqueue functions.  A thread first looks at the flags, the          *)
(* interface and the room in the queue, then takes the lock and writes.    *)
(***************************************************************************)
Kick == wake' = (wake \/ thr.pc # "dead")

\* MlmeEnqueue asks for no interface, and MlmeEnqueueForRecv not for a frame
\* of a station it does not know.
MayEnqueue(m) ==
  /\ ~flags.halt
  /\ \/ Kind[m] = "local"
     \/ Kind[m] = "recv" /\ m \in Unknown
     \/ ifUp[Owner[m]]

SendCheck(s, m) ==
  /\ snd[s].pc = "idle"
  /\ fate[m] = "unsent"
  /\ \/ /\ MayEnqueue(m) /\ ~QueueFull(m)
        /\ snd' = [snd EXCEPT ![s] = [pc |-> "commit", msg |-> m]]
        /\ fate' = [fate EXCEPT ![m] = "sending"]
        /\ UNCHANGED wake
     \/ /\ ~MayEnqueue(m)
        /\ fate' = [fate EXCEPT ![m] = "refused"]
        /\ UNCHANGED <<snd, wake>>
     \/ /\ MayEnqueue(m) /\ QueueFull(m)
        /\ fate' = [fate EXCEPT ![m] = "refused"]
        /\ IF Kind[m] = "recv" THEN Kick ELSE UNCHANGED wake
        /\ UNCHANGED snd
  /\ UNCHANGED <<queue, Entry, bRunning, suspend, taskLock, flags, ifUp, thr,
                 ctl, count>>

\* MlmeEnqueue leaves the wdev pointer of the element as it finds it.
Written(m) ==
  [Occupied |-> TRUE, msg |-> m,
   wdev |-> IF Kind[m] = "local" THEN Entry[queue.Tail].wdev ELSE Owner[m]]

SendCommit(s) ==
  LET m == snd[s].msg IN
  /\ snd[s].pc = "commit"
  /\ \/ /\ TailBusy
        /\ fate' = [fate EXCEPT ![m] = "refused"]
        /\ snd' = [snd EXCEPT ![s] = [pc |-> "idle", msg |-> NoMsg]]
        /\ UNCHANGED <<queue, Entry>>
     \/ /\ ~TailBusy
        /\ Entry' = [Entry EXCEPT ![queue.Tail] = Written(m)]
        /\ queue' = Pushed
        /\ fate' = [fate EXCEPT ![m] =
                      IF queue.MaxLen = 0 THEN "lost" ELSE "pending"]
        /\ snd' = [snd EXCEPT ![s] =
                     [pc |-> IF Kind[m] = "recv" THEN "kick" ELSE "idle",
                      msg |-> NoMsg]]
  /\ UNCHANGED <<bRunning, suspend, taskLock, wake, flags, ifUp, thr, ctl,
                 count>>

\* RTMP_MLME_HANDLER after the lock is released.
SendKick(s) ==
  /\ snd[s].pc = "kick"
  /\ Kick
  /\ snd' = [snd EXCEPT ![s].pc = "idle"]
  /\ UNCHANGED <<queue, Entry, bRunning, suspend, taskLock, flags, ifUp, thr,
                 ctl, fate, count>>

\* MlmePeriodicExec wakes the thread once a second while the driver runs.
PeriodicKickMissing == FALSE
PeriodicKick ==
  /\ ~flags.halt
  /\ ~wake
  /\ Kick
  /\ UNCHANGED <<queue, Entry, bRunning, suspend, taskLock, flags, ifUp, snd,
                 thr, ctl, fate, count>>

(***************************************************************************)
(* The MLME thread.                                                        *)
(***************************************************************************)
ThreadVars == <<queue, Entry, bRunning, suspend, taskLock, wake, flags, ifUp,
                snd, ctl, fate, count>>

GoTo(p) == thr' = [thr EXCEPT !.pc = p]

\* RtmpOSTaskWait: the wait ends, then kthread_running is cleared.
ThreadWake ==
  /\ thr.pc = "wait"
  /\ wake \/ flags.stop
  /\ GoTo("clearing")
  /\ UNCHANGED ThreadVars

ThreadClearWake ==
  /\ thr.pc = "clearing"
  /\ wake' = FALSE
  /\ IF flags.stop
       THEN GoTo("dead") /\ flags' = [flags EXCEPT !.halt = TRUE]
       ELSE GoTo("gate") /\ UNCHANGED flags
  /\ UNCHANGED <<queue, Entry, bRunning, suspend, taskLock, ifUp, snd, ctl,
                 fate, count>>

\* MlmeThread reads Mlme.suspend, outside any lock.
ThreadGate ==
  /\ thr.pc = "gate"
  /\ GoTo(IF suspend THEN "wait" ELSE "enter")
  /\ UNCHANGED ThreadVars

HandlerEnter ==
  /\ thr.pc = "enter"
  /\ taskLock = "free"
  /\ bRunning' = TRUE
  /\ GoTo("loop")
  /\ UNCHANGED <<queue, Entry, suspend, taskLock, wake, flags, ifUp, snd, ctl,
                 fate, count>>

HandlerLoop ==
  /\ thr.pc = "loop"
  /\ GoTo(IF QueueEmpty \/ flags.halt \/ ~flags.startUp
            THEN "exit" ELSE "dequeue")
  /\ UNCHANGED ThreadVars

MlmeDequeue ==
  /\ thr.pc = "dequeue"
  /\ \/ /\ QueueEmpty
        /\ GoTo("loop")
        /\ UNCHANGED queue
     \/ /\ ~QueueEmpty
        /\ thr' = [pc |-> "process", slot |-> queue.Head]
        /\ queue' = Popped
  /\ UNCHANGED <<Entry, bRunning, suspend, taskLock, wake, flags, ifUp, snd,
                 ctl, fate, count>>

\* The state machine's function returns; the element is given back.
FreeNothing(i) == Entry
FreeElem(i) == [Entry EXCEPT ![i].Occupied = FALSE]

HandlerProcess ==
  /\ thr.pc = "process"
  /\ fate' = [fate EXCEPT ![Entry[thr.slot].msg] = "handled"]
  /\ Entry' = FreeElem(thr.slot)
  /\ GoTo("loop")
  /\ UNCHANGED <<queue, bRunning, suspend, taskLock, wake, flags, ifUp, snd,
                 ctl, count>>

HandlerExit ==
  /\ thr.pc = "exit"
  /\ taskLock = "free"
  /\ bRunning' = FALSE
  /\ GoTo("wait")
  /\ UNCHANGED <<queue, Entry, suspend, taskLock, wake, flags, ifUp, snd, ctl,
                 fate, count>>

(***************************************************************************)
(* An interface goes down: wdev_if_up_down, then mlme_bss_clear from the   *)
(* WSYS_NOTIFY_CLOSE notifier.  The network stack serialises these calls.  *)
(***************************************************************************)
CtlTo(p) == ctl' = [ctl EXCEPT !.pc = p]
Ctl(p, w, n, i) == ctl' = [pc |-> p, wdev |-> w, left |-> n, slot |-> i]

CloseStart(w) ==
  /\ ctl.pc = "open"
  /\ ifUp[w]
  /\ count.closes < MaxCloses
  /\ count' = [count EXCEPT !.closes = @ + 1]
  /\ ifUp' = [ifUp EXCEPT ![w] = FALSE]
  /\ Ctl("suspend", w, 0, ctl.slot)
  /\ UNCHANGED <<queue, Entry, bRunning, suspend, taskLock, wake, flags, snd,
                 thr, fate>>

OpenAgain(w) ==
  /\ ctl.pc = "open"
  /\ ~ifUp[w]
  /\ ifUp' = [ifUp EXCEPT ![w] = TRUE]
  /\ UNCHANGED <<queue, Entry, bRunning, suspend, taskLock, wake, flags, snd,
                 thr, ctl, fate, count>>

ClearSuspend ==
  /\ ctl.pc = "suspend"
  /\ suspend' = TRUE
  /\ CtlTo("poll")
  /\ UNCHANGED <<queue, Entry, bRunning, taskLock, wake, flags, ifUp, snd,
                 thr, fate, count>>

\* Ten polls, 100 ms apart: the loop ends idle, or gives up.
ClearPoll ==
  /\ ctl.pc = "poll"
  /\ CtlTo(IF bRunning THEN "resume" ELSE "count")
  /\ UNCHANGED <<queue, Entry, bRunning, suspend, taskLock, wake, flags, ifUp,
                 snd, thr, fate, count>>

\* mlme_bss_clear_by_wdev reads Num before it takes TaskLock.
ClearCount ==
  /\ ctl.pc = "count"
  /\ Ctl("lock", ctl.wdev, queue.Num, ctl.slot)
  /\ UNCHANGED <<queue, Entry, bRunning, suspend, taskLock, wake, flags, ifUp,
                 snd, thr, fate, count>>

ClearLock ==
  /\ ctl.pc = "lock"
  /\ taskLock = "free"
  /\ taskLock' = "ctl"
  /\ CtlTo("lift")
  /\ UNCHANGED <<queue, Entry, bRunning, suspend, wake, flags, ifUp, snd, thr,
                 fate, count>>

ClearLift ==
  /\ ctl.pc = "lift"
  /\ \/ /\ ctl.left = 0 \/ QueueEmpty
        /\ CtlTo("unlock")
        /\ UNCHANGED queue
     \/ /\ ctl.left > 0 /\ ~QueueEmpty
        /\ Ctl("sort", ctl.wdev, ctl.left - 1, queue.Head)
        /\ queue' = Popped
  /\ UNCHANGED <<Entry, bRunning, suspend, taskLock, wake, flags, ifUp, snd,
                 thr, fate, count>>

\* An element of another interface is enqueued again, whole (mlme_requeue);
\* when its slot is taken the result is ignored and the message is gone.
Keeps(elem) == elem.wdev # ctl.wdev

ClearSort ==
  LET elem == Entry[ctl.slot] IN
  /\ ctl.pc = "sort"
  /\ \/ /\ Keeps(elem) /\ ~TailBusy
        /\ Entry' = [Entry EXCEPT ![queue.Tail] = elem]
        /\ queue' = Pushed
        /\ UNCHANGED fate
     \/ /\ Keeps(elem) /\ TailBusy
        /\ fate' = [fate EXCEPT ![elem.msg] = "lost"]
        /\ UNCHANGED <<queue, Entry>>
     \/ /\ ~Keeps(elem)
        /\ fate' = [fate EXCEPT ![elem.msg] = "swept"]
        /\ UNCHANGED <<queue, Entry>>
  /\ CtlTo("free")
  /\ UNCHANGED <<bRunning, suspend, taskLock, wake, flags, ifUp, snd, thr,
                 count>>

ClearFree ==
  /\ ctl.pc = "free"
  /\ Entry' = FreeElem(ctl.slot)
  /\ CtlTo("lift")
  /\ UNCHANGED <<queue, bRunning, suspend, taskLock, wake, flags, ifUp, snd,
                 thr, fate, count>>

ClearUnlock ==
  /\ ctl.pc = "unlock"
  /\ taskLock' = "free"
  /\ CtlTo("resume")
  /\ UNCHANGED <<queue, Entry, bRunning, suspend, wake, flags, ifUp, snd, thr,
                 fate, count>>

ClearResume ==
  /\ ctl.pc = "resume"
  /\ suspend' = FALSE
  /\ CtlTo("open")
  /\ UNCHANGED <<queue, Entry, bRunning, taskLock, wake, flags, ifUp, snd,
                 thr, fate, count>>

(***************************************************************************)
(* The driver: RTMPDrvClose raises the halt flag, MlmeHalt stops the       *)
(* thread and destroys the queue; MlmeInit builds everything again and the *)
(* start-up flag follows later.                                            *)
(***************************************************************************)
StartUp ==
  /\ ~flags.startUp
  /\ ctl.pc = "open"
  /\ flags' = [flags EXCEPT !.startUp = TRUE]
  /\ UNCHANGED <<queue, Entry, bRunning, suspend, taskLock, wake, ifUp, snd,
                 thr, ctl, fate, count>>

DriverClose ==
  /\ ctl.pc = "open"
  /\ flags.startUp
  /\ count.reopens < MaxReopens
  /\ count' = [count EXCEPT !.reopens = @ + 1]
  /\ flags' = [flags EXCEPT !.halt = TRUE]
  /\ CtlTo("kill")
  /\ UNCHANGED <<queue, Entry, bRunning, suspend, taskLock, wake, ifUp, snd,
                 thr, fate>>

TaskKill ==
  /\ ctl.pc = "kill"
  /\ flags' = [flags EXCEPT !.stop = TRUE]
  /\ CtlTo("stopping")
  /\ UNCHANGED <<queue, Entry, bRunning, suspend, taskLock, wake, ifUp, snd,
                 thr, fate, count>>

\* kthread_stop returns when the thread has left its loop.
ThreadGoneUnchecked == TRUE
ThreadGone == thr.pc = "dead"

QueueDestroy ==
  /\ ctl.pc = "stopping"
  /\ ThreadGone
  /\ queue' = [Num |-> 0, Head |-> 0, Tail |-> 0, MaxLen |-> 0]
  /\ fate' = [m \in Msgs |-> IF fate[m] = "pending" THEN "lost" ELSE fate[m]]
  /\ CtlTo("closed")
  /\ UNCHANGED <<Entry, bRunning, suspend, taskLock, wake, flags, ifUp, snd,
                 thr, count>>

DriverOpen ==
  /\ ctl.pc = "closed"
  /\ queue' = EmptyQueue
  /\ Entry' = [i \in Slots |-> [Occupied |-> FALSE, msg |-> NoMsg,
                               wdev |-> Entry[i].wdev]]
  /\ bRunning' = FALSE
  /\ wake' = FALSE
  /\ flags' = [halt |-> FALSE, startUp |-> FALSE, stop |-> FALSE]
  /\ GoTo("wait")
  /\ CtlTo("open")
  /\ UNCHANGED <<suspend, taskLock, ifUp, snd, fate, count>>

-----------------------------------------------------------------------------
Send == \E s \in Senders : SendCommit(s) \/ SendKick(s)
Thread ==
  \/ ThreadWake \/ ThreadClearWake \/ ThreadGate
  \/ HandlerEnter \/ HandlerLoop \/ MlmeDequeue \/ HandlerProcess
  \/ HandlerExit
Sweep ==
  \/ ClearSuspend \/ ClearPoll \/ ClearCount \/ ClearLock \/ ClearLift
  \/ ClearSort \/ ClearFree \/ ClearUnlock \/ ClearResume
Life == TaskKill \/ QueueDestroy \/ DriverOpen

Next ==
  \/ \E s \in Senders, m \in Msgs : SendCheck(s, m)
  \/ \E s \in Senders : SendCommit(s) \/ SendKick(s)
  \/ PeriodicKick
  \/ ThreadWake \/ ThreadClearWake \/ ThreadGate
  \/ HandlerEnter \/ HandlerLoop \/ MlmeDequeue \/ HandlerProcess
  \/ HandlerExit
  \/ \E w \in Wdevs : CloseStart(w) \/ OpenAgain(w)
  \/ ClearSuspend \/ ClearPoll \/ ClearCount \/ ClearLock \/ ClearLift
  \/ ClearSort \/ ClearFree \/ ClearUnlock \/ ClearResume
  \/ StartUp \/ DriverClose \/ TaskKill \/ QueueDestroy \/ DriverOpen

Spec == Init /\ [][Next]_vars

\* Threads that are inside a function finish it; the timer keeps firing; a
\* driver that is coming up finishes coming up, one going down goes down.
Fairness ==
  /\ WF_vars(Send) /\ WF_vars(Thread) /\ WF_vars(Sweep) /\ WF_vars(Life)
  /\ WF_vars(PeriodicKick) /\ WF_vars(StartUp)
FairSpec == Spec /\ Fairness

-----------------------------------------------------------------------------
(***************************************************************************)
(* Properties.                                                             *)
(***************************************************************************)
ElemType == [Occupied : BOOLEAN, msg : Msgs \cup {NoMsg},
             wdev : Wdevs \cup {NoWdev}]
ThrPcs == {"wait", "clearing", "gate", "enter", "loop", "dequeue", "process",
           "exit", "dead"}
CtlPcs == {"open", "suspend", "poll", "count", "lock", "lift", "sort", "free",
           "unlock", "resume", "kill", "stopping", "closed"}
QueueType == [Num : Nat, Head : Slots, Tail : Nat, MaxLen : {0, Cap}]
CtlType == [pc : CtlPcs, wdev : Wdevs \cup {NoWdev}, left : Nat, slot : Slots]
SndType == [pc : {"idle", "commit", "kick"}, msg : Msgs \cup {NoMsg}]

\* Every variable keeps its type; the counters stay within the ring.
TypeOK ==
  /\ queue \in QueueType
  /\ Entry \in [Slots -> ElemType]
  /\ bRunning \in BOOLEAN /\ suspend \in BOOLEAN /\ wake \in BOOLEAN
  /\ taskLock \in {"free", "ctl"}
  /\ flags \in [halt : BOOLEAN, startUp : BOOLEAN, stop : BOOLEAN]
  /\ ifUp \in [Wdevs -> BOOLEAN]
  /\ snd \in [Senders -> SndType]
  /\ \A s \in Senders : snd[s].pc = "commit" => snd[s].msg \in Msgs
  /\ thr \in [pc : ThrPcs, slot : Slots]
  /\ ctl \in CtlType
  /\ fate \in [Msgs -> Fates]
  /\ count \in [closes : 0 .. MaxCloses, reopens : 0 .. MaxReopens]

Alive == queue.MaxLen = Cap

InRing(i) ==
  \/ queue.Head < queue.Tail /\ queue.Head <= i /\ i < queue.Tail
  \/ queue.Tail < queue.Head /\ (queue.Head <= i \/ i < queue.Tail)
  \/ queue.Head = queue.Tail /\ queue.Num > 0

HandlerHolds(i) == thr.pc = "process" /\ thr.slot = i
SweepHolds(i) == ctl.pc \in {"sort", "free"} /\ ctl.slot = i

\* Num, Head and Tail agree about what is in the ring, although Num alone
\* tells a full ring from an empty one (MlmeQueueFull, MlmeQueueEmpty).
CountersAgree ==
  Alive =>
    /\ queue.Tail \in Slots
    /\ \/ queue.Head < queue.Tail /\ queue.Num = queue.Tail - queue.Head
       \/ /\ queue.Tail < queue.Head
          /\ queue.Num = Cap - queue.Head + queue.Tail
       \/ queue.Head = queue.Tail /\ queue.Num \in {0, Cap}

\* An element's Occupied bit is set exactly while the element is in the
\* ring, in the handler's hands or in the sweep's: the double check of the
\* enqueue functions, which reads only that bit, is enough to keep a thread
\* from writing into a message somebody still reads, and no bit is left
\* behind to block the ring for ever.
OccupiedExact ==
  Alive => \A i \in Slots :
    Entry[i].Occupied <=> InRing(i) \/ HandlerHolds(i) \/ SweepHolds(i)

\* The handler and the sweep never hold the same element, nor one that is
\* still in the ring, even when the race between mlme_bss_clear's test of
\* bRunning and MlmeHandler's start lets both run at once.
HandsApart ==
  Alive => \A i \in Slots :
    /\ HandlerHolds(i) => ~InRing(i) /\ ~SweepHolds(i)
    /\ SweepHolds(i) => ~InRing(i)

\* The ring as a whole: counters, Occupied bits and the elements in hand
\* tell the same story in every interleaving.
RingConsistent == CountersAgree /\ OccupiedExact /\ HandsApart

SortHolds(i) == ctl.pc = "sort" /\ ctl.slot = i
InPlace(i) == InRing(i) \/ HandlerHolds(i) \/ SortHolds(i)

\* An accepted message is neither lost nor doubled, whatever the enqueuing
\* threads, the MLME thread and the sweep do in between: it lies in exactly
\* one place until somebody finishes with it, and then in none.
PendingInOnePlace ==
  Alive =>
    /\ \A i \in Slots : InPlace(i) => fate[Entry[i].msg] = "pending"
    /\ \A i, j \in Slots :
         InPlace(i) /\ InPlace(j) /\ Entry[i].msg = Entry[j].msg => i = j
    /\ \A m \in Msgs :
         fate[m] = "pending" => \E i \in Slots : InPlace(i) /\ Entry[i].msg = m

\* The ring read from its head, and the messages in hand.
SlotAt(k) == IF queue.Head + k > Cap THEN queue.Head + k - 1 - Cap
                                     ELSE queue.Head + k - 1
RingSeq ==
  IF Alive THEN [k \in 1 .. queue.Num |-> Entry[SlotAt(k)].msg] ELSE <<>>
InHandler == IF thr.pc = "process" THEN Entry[thr.slot].msg ELSE NoMsg
InSweep == IF ctl.pc = "sort" THEN Entry[ctl.slot].msg ELSE NoMsg
Mailbox == INSTANCE MlmeMailbox WITH
  box <- RingSeq, handling <- InHandler, lifted <- InSweep

\* The ring implements the bounded first-in first-out mailbox of
\* MlmeMailbox, across wrap-around, sweeps, restarts of the driver and
\* messages that arrive while the queue is being destroyed.
ImplementsMailbox == Mailbox!Spec

\* Every accepted message is handled, swept or dropped with the driver,
\* unless the ring fills to its last element: MlmeQueueEmpty takes Head =
\* Tail for an empty ring, so nothing leaves a full one again.  The
\* wake-ups that mlme_bss_clear or a late START_UP flag swallow are made up
\* for by the periodic one.
EveryMessageServed ==
  \A m \in Msgs :
    (fate[m] = "pending" ~> fate[m] # "pending") \/ <>[](queue.Num = Cap)

\* mlme.c:5176 documents MlmeQueueEmpty as "TRUE if the Queue is empty,
\* FALSE otherwise".
EmptyMeansEmpty == QueueEmpty <=> queue.Num = 0

\* mlme.c:596 says of the sweep "if not owned by this bss, enqueue again":
\* it removes only messages of the interface that goes down.
SweepSparesOthers ==
  [][\A m \in Msgs : fate[m] = "pending" /\ fate'[m] = "swept"
       => Owner[m] = ctl.wdev]_vars
=============================================================================
