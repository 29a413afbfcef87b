# Verification of the MT7615D Wi-Fi driver

The repository is an OpenWrt tree for MediaTek MT7621 routers. Its own program
is the set of Wi-Fi drivers under `src/package/mt/drivers`: `mt7615d`, and
`mt7603e` and `mt7612e`, two older copies of the same code base for older
chips. Everything else is build system, profiles, patches and scripts. This
project models the newest of the three, `mt7615d/src/mt_wifi` (written `W/`
below); paths such as `mlme.c` mean `W/embedded/common/mlme.c`.

## 1. Inventory

| Component | State | Operations | Interacts through |
|---|---|---|---|
| **MLME queue and thread** `mlme.c` | ring of 256 elements, `Num/Head/Tail`, `Occupied` bits, `bRunning`, `suspend`, `TaskLock`, wake-up flag | `MlmeEnqueue*`, `MlmeDequeue`, `MlmeHandler`, `MlmeThread`, `mlme_bss_clear`, `MlmeInit/Halt` | every tasklet, timer and ioctl thread enqueues; the thread calls every state machine |
| **Block-ack recipient, buffer** `ba_action.c` | `BA_REC_ENTRY`: window start, list of buffered MPDUs, A-MSDU state, timeout bitmap | `ba_reorder`, `bar_process`, `ba_timeout_monitor/flush` | receive tasklet, 100 ms timer |
| **Block-ack recipient, table** `ba_action.c` | `BARecEntry` with its states, `BARecWcidArray` of each station, `numAsRecipient` | `ba_rec_session_add/tear_down`, `ba_alloc/free_rec_entry` | MLME thread, ioctl threads, receive tasklet, MAC table |
| **Block-ack originator** `ba_action.c` | `BAOriEntry` table, counters; `BAOriWcidArray` and `TXBAbitmap` of each station; a retry timer per entry | `ba_ori_session_setup/add/tear_down`, `ba_ori_session_setup_timeout` | transmit path, timer thread, MLME thread, MAC table |
| Timer queue `rtmp_timer.c`, OS timers `rt_linux.c` | free list and queue of fired timers, `Valid`/`State` per timer | `RTMPInitTimer/Set/Cancel/Release`, `RtmpTimerQInsert/Handle` | every timer of the driver |
| MAC table `mgmt_entrytb.c` | station entries, hash chains, WTBL indexes | insert, reset, delete, lookup | association, block-ack, security |
| AP authentication, association `ap_auth.c`, `ap_assoc.c` | `AuthState`, `Sst`, association id of each station | one function per (state, message) | MLME messages; MAC table; block-ack |
| **Four-way and group handshake** `cmm_wpa.c` | `WpaState`, `GTKState`, replay counter, retry timer, `PortSecured` | one function per EAPOL-Key message, retry timer | MLME messages, key installation |
| SAE, OWE, PMF `sae.c`, `owe.c`, `pmf.c` | SAE instances, SA-Query state and two timers | commit/confirm, SA Query | authentication; disassociation |
| AP client `apcli_*.c` | four state machines per uplink | probe, authenticate, associate, retry | MLME messages, timers |
| **Hardware control** `hw_ctrl_basic.c` | `HwCtrlQ` with its state, references and completion of each command, requested updates `HwCtrlFlag`, the task | `HwCtrlEnqueueCmd`, `HwCtrlThread` with its two handlers, `HwCtrlSetFlag`, `HwCtrlInit/Exit` | every component that touches the chip; the MCU commands underneath |
| **MCU commands** `andes_core.c` | `txq`, `ackq`, `tx_doneq`; state, number and completion of each message; `MCU_INIT` | `AndesSendCmdMsg` with its loop and wait, the answer handler, the freeing tasklet, `AndesCtrlPciExit` | firmware; every component that configures the chip |
| Hardware resources `hw_ctrl/hdev` | WTBL, OMAC, WMM indexes | acquire, release | wdev, MAC table |
| DMA rings, tasklets `hif_pci.c` | descriptor indexes, interrupt masks | fill, reap | chip |
| Data path, queue managers, power save, rate control, scan, DFS, steering, WSC, IGMP, configuration | see `PROJECT.json` | | |

What is hard here: three kinds of execution context (process context with the
MLME, timer and command threads; tasklets; kernel timers) share tables under
locks that cover parts of an operation; a decision is often read outside the
lock and acted upon inside; stations vanish while the transmit path still
refers to them; timers fire while what they guard is being answered or
released; frames are lost, repeated and reordered; counters and sequence
numbers wrap; interfaces and the whole driver go down while all this runs.

What makes each part correct: the queue loses and doubles nothing, keeps its
order, and serves everything. The reordering buffer delivers each MSDU at most
once and in order, keeps to its window, leaves nothing ready behind, and does
not hold frames back for ever. The session table counts exactly what it
holds, each open session can be found by its station and only by it, and no
session waits for ever; on the recipient's side no frame is lost to an entry
that is being opened or closed. A handshake ends, both ends of an open port
use one key, and the client installs it once. A command is linked once, is not
used after it is freed, is completed by its own answer, and its call returns. A
hardware command is dealt with, its memory lives as long as anyone uses it and no longer,
and a closed interface leaves none behind.
For the components not modelled: a station is in one state and leaves every
intermediate one; an index is held by at most one user. The file
`PROJECT.json` lists the hazards line by line.

## 2. Modules

| Module | What it is |
|---|---|
| `MlmeMailbox` | abstract: a bounded FIFO mailbox with a sweep that lifts and puts back |
| `MlmeQueue` | the ring, its threads, the sweep, the driver's life; refines `MlmeMailbox` |
| `MlmeQueue_proofs` | the proofs of its safety and of the refinement |
| `BaReorder` | one recipient session: reordering buffer and its timeouts |
| `BaReorder_proofs` | the proofs of its types and of all its safety properties |
| `BaOri` | the originator's session table with stations, timers and three threads |
| `BaOri_proofs` | the proofs of its types and of its bookkeeping |
| `BaRecipient` | the recipient's session table under three threads |
| `BaRecipient_proofs` | the proofs of all its properties |
| `FourWay` | the pairwise and the group handshake, both ends and the frames between |
| `FourWay_proofs` | the proofs of its types and of what it says of the keys |
| `McuCmd` | commands to the MCU: calls, lists, numbers, answers, the end of the interface |
| `McuCmd_proofs` | the proofs of its types, its lists, its numbers, its answers and its end |
| `HwCmd` | hardware control commands: callers, task, updates, the owner who closes |
| `HwCmd_proofs` | the proofs of its types and of all its safety properties |
| `Lemmas` | facts on sequences, sets and minima the proofs share |
| `MCMlmeQueue`, `MCBaReorder`, `MCBaOri`, `MCBaRecipient`, `MCFourWay`, `MCMcuCmd`, `MCHwCmd` | instances for TLC |

### MlmeQueue

A step is what one thread does between two points where another may run: each
section under `Queue->Lock` is one action, so is each unlocked access.
`queue` is `MLME_QUEUE` with its counters; `Entry` the elements with the
`Occupied` bit, the message and the `wdev` pointer; `snd[s]` the place of a
thread inside an enqueue function (`SendCheck`: flags, interface and room,
unlocked; `SendCommit`: the section under the lock with its double check;
`SendKick`: the wake-up after it). `thr` is the MLME thread: wait, clear the
wake-up flag, test `suspend`, `MlmeHandler` with its loop. `ctl` is the thread
that takes an interface or the driver down. `TaskLock` is held over the whole
sweep, so it is a variable. The three enqueue functions differ in the guard on
the interface, the room they claim (half the ring for received frames), the
`wdev` pointer (which `MlmeEnqueue` does not write), and the wake-up; `Kind`
tells them apart. A received frame that comes with `RESERVED_WCID`, from a station the driver
does not know, is taken even when its interface is down (`Unknown`, `mlme.c:4725`).

The handler's dispatch into a state machine is one step: the message is
handled and its element given back. The state machines enqueue like any
other thread, so a handler that enqueues is covered by the senders.

`mlme_bss_clear` polls `bRunning` up to ten times. The model takes the last
poll: idle, or still running and the sweep is skipped. `ThreadGate` and
`ClearPoll` keep the race of the code: the handler may pass the test of
`suspend` before it is set and start after the poll.

### BaReorder

`ba` is `BA_REC_ENTRY`; its list holds blocks, one per MPDU, each with the
MSDUs received so far. `Receive` is the whole of `ba_reorder` for one MSDU:
`amsdu_sanity`, the flush, the initial state, the five cases, and the
assignments at the end. `ReceiveBAR` is `bar_process`, `ba_timeout_monitor`
and `ba_timeout_flush` are themselves, `ba_rec_session_add` is the renewal of a
session that exists. The blocks live in a pool: `room` is chosen freely in
each call, as another session may have emptied the pool (and an EAPOL MSDU is
never buffered). Time is `age`, the three intervals the code tells apart.
The peer (external) sends what its window allows, repeats at will, and may
lose the rest of an MPDU. The receive tasklet is one thread, and a session's
other users are taken to run between its calls; the races with them are in
`BaRecipient`, which keeps of the buffer only the number of its frames.

Four history fields record what the properties speak of: `late` (something went
up out of order), `pulled` (`amsdu_sanity` moved `LastIndSeq` backwards),
`dry` (no block for a repeated MSDU whose first copy is buffered, the case
`ba_action.c:1878-1882` leaves to TCP/IP), `spoilt` (an append to a freed
block). A history variable, `heard`, holds the newest MPDU any frame has told the
recipient of, and whether one ever was half the sequence numbers ahead of
`LastIndSeq` (`lapped`): from there on `SEQ_SMALLER` takes new numbers for old ones.

### BaOri

`BATabLock` keeps out only whoever takes it, and most of what touches the table does
not. So each look at, and each assignment to, something another thread may write
without the lock is a step, in the order of the statements. `ba_ori_session_setup`, per
caller, is `SetupLook` (the index), `ba_alloc_ori_entry` and `Take` under the lock,
`SetupTest` (the status), then one step for each assignment (`SetupMap`, `SetupStatus`,
`SetupWcid`, `SetupToken`), `SetupArm` (the look at `TXBAbitmap`) and `SetupTimer`. The retry
timer's function is `TimeoutLook`, `TimeoutTest`, `TimeoutTries`, then either
`TimeoutAgain`, `TimeoutCount` and `TimeoutSet`, or `TimeoutPick` and `TimeoutFree`. An ADDBA
response is `AddLook`, `AddTest`, `AddDone`, `AddCount` and `AddCounted` (the read and the
write of `numDoneOriginator++`), `AddBit`, `AddCancel`; a tear-down is `TearDown`,
`TearRelease`, `TearFree` and, for the station's entry, `EntryGone` or `EntryReset`.
`ba_free_ori_entry` takes the lock (`tab` is its holder) and goes through `FreeUnmap`,
`FreeLook`, `FreeCounted`, `FreeBit`, `FreeNone`, `FreeToken`, for whichever of the two
threads called it, while the others go on with their unlocked reads and writes. `ap_assoc`
goes through the set-up itself, as the caller `Mlme`. A timer is valid, armed, or waiting in
the timer queue; cancelling removes it from the queue, not from the timer thread's hands.
`ori[i]` of a freed entry keeps its `Wcid`, as in the code.

What is still one step, and why nothing is lost. The scan of `ba_alloc_ori_entry`, and the
test of the status with the reading of `Wcid` in `ba_free_ori_entry`: both hold the lock, only
its holder makes a status `NONE`, so the outcome is that of a scan or test at its last
read. The two reads of `TearDown`: only the MLME thread makes a status `Done`, and where the
entry is freed in between the model has the same outcome with memory available. The words that
`EntryReset` clears. What is written beside these fields (window size, sequence numbers)
decides nothing here.

`num` counts modulo `NumSpace`, as the `ULONG` counters do. `numDoneOriginator` is read by
nobody but the code that counts it; `numAsOriginator` decides whether a session is refused.

`stale` is history: it becomes TRUE when a thread writes although what it looked at has
changed (`SetupMap`, `AddDone`, `AddCounted`, `FreeCounted`, `SetupArm` and `EntryReset` say
when), or frees an entry that another has in hand (`InHand`: one being opened, or one
established whose timer is not yet cancelled). The driver prevents none of this; finding D is
one result. Three safety properties say that *nothing else* breaks the bookkeeping: every
error of the counters, the mapping and the bitmap begins with one of these steps, and the
steps of the different threads may otherwise fall in any order. `RefusalMeansFull` says what
holds in spite of them.

### BaRecipient

`rec` is `BARecEntry` (state, `Wcid`, number of buffered frames), `arr` the
stations' `BARecWcidArray` for one TID, `num` `numAsRecipient`. Three threads
are at work: `mlme` opens, renews and ends sessions and deletes or re-inserts
stations; `ioctl` stands for the threads that end sessions on request or delete a
station; `rx` is the receive tasklet. `thr[t]` is where a thread is, for which
station and with which entry. `ba_rec_session_add` is `peer_addba_req_action`
(which reads the index), the allocation (`AllocRefused`, `AllocFound`, and
`AllocNone`, in which `ba_alloc_rec_entry` returns the last entry it looked at),
`AddRefresh`, `AddHandle`, `AddFill`, `AddMap`; `ba_rec_session_tear_down` reads the
index on entry and goes through `TearEmpty`, `TearUnmap`, `TearFree`, back to
its caller (`EntryGone`, `EntryReset`). `BATabLock` keeps others out only where the
code takes it. The tasklet takes no lock: it reads the index, looks at the
state (`FrameLost`, `FrameFirst`, `FrameNext`), sets it (`FrameEstablish`), and
puts the frame away (`FramePlace`), and others may run in between.

`hist` is `overlap` once two threads were at work on one station, and `forgot`
once a station's place was used again with an index left over. Nothing in the driver
prevents an overlap; what the properties say of a table without one is that
threads which keep to *different* stations never disturb one another, although they
share the table, its counter and its free entries.

### FourWay

`ap` is the station's `SecConfig` with the key in hardware and the request to
delete the entry; `pc[t]` and `buf[t]` are the place and the frame of the
MLME and of the timer thread. Each access to what both threads use is a step:
the three `WPABuild...` functions are `BuildCheck` to `BuildArm`, the handlers of
messages 2 and 4 and of the group answer are a step per test and assignment
that the other thread can see (`M4State`, `M4Group`, `M4Open` are the three by which message
4 opens the port), a rekey is the change of the key (`GroupRekeyExec`) and then the look at
the station (`RekeyStation`), the retry function is `RetryCount`,
`RetryAgain`, `RetryGroupFails`, `RetryFails`. A timer is armed, waiting in the
timer queue any number of times, or in the timer thread's hands; cancelling removes
it from the queue only. `sta` is the AP client, whose handlers run in one thread and are
one step each. The two channels keep their order and may lose every frame.

A pairwise key is the pair of nonces it is derived from, nonces are numbered in
the order they are drawn, and a frame carries its replay counter, its nonce, the key
its MIC is under and the group key it delivers. So two keys are equal exactly when both
ends used the same nonces, and a MIC is right exactly when the keys are equal.

`hist` is history: `raced`, a retry began while a frame was being handled or the
other way round; `crossed`, a new group key came in the middle of a handshake, or its
handshake was begun, or passed over because the port was still closed, while the MLME thread had
a frame in its hands; `nomem`, the one allocation that fails, or message or expired timer that
finds no place in its queue; `again`, the client installed a key for the second time.

### McuCmd

A member of `Cmds` is one command and the call of `AndesSendCmdMsg` that
sends it. `call[c]` is the place of that call, the command its loop has in hand
(which may be another call's) and what it returns; `msg[m]` is `struct cmd_msg`;
`ctl` is `struct MCU_CTRL`; `ring` is the command whose sender has queued it in `ackq` and
not yet let go of it (`Post`, then `Ring`, which writes to the message and looks at MCU_INIT a
second time); `wire` holds the commands the MCU has got and not answered. Each section under one of the list locks is a step, and so is each unlocked
look at a flag or at a message's state. The loop of a call sends whatever it finds in
`txq`; a caller waits for its own command only. `AndesMTRxEventHandler` gives an answer
to the first command in `ackq` with its number. A command in `StaRec` is an
`EXT_CMD_STAREC_UPDATE`: its answer writes `cmd_return_status`, and its call returns that
(`FinalRet`, `andes_core.c:917-922`), answered or not. `AndesCtrlPciExit` clears the flags,
waits for the tasklet and cleans the three lists while calls are still inside.

`took` and `harm` are history: whose answer completed a command, and what befell it
(its number given twice, freed by another call's loop, queued though the ring refused
it, ...; the list is in the module). Each property is a claim about the commands
that did not suffer the accident that breaks it, *whatever befell the others*.

### HwCmd

A member of `Cmds` is one call of `HwCtrlEnqueueCmd` with its command. `call[c]` is where
the call is and what it returns (`Call` up to `os_kref_init`, `Insert` the section under
the lock, `Kick`, `EndWait`, `Return`); `cmd[c]` is `HwCmdQElmt`: its memory, `refcnt`,
`ack_done`. `q` and `qstate` are `HwCtrlQ`. `HwCtrlCmdHandler` is `Loop`, `Take`, `Gate`,
`Ran`, `Completes`, `Release`, for each of its two callers: the task (`HwCtrlThread`:
`Starts`, `WaitEnds`, `ClearRunning`, the drain, `TestFlag` and the update, `Flush` at the
end) and the owner, who in `HwCtrlExit` empties the queue himself and only then stops the task
(`Close`, the drain, `Kill`, `Joined`). `os` is the `OS_TASK`: whether it is known, its
wake-up flag, the request to stop. `flag` is `HwCtrlFlag`; `Adapter` sets and clears what
other code sets and clears, at any moment. What a handler does with the chip is one step;
that it returns is what `McuCmd!EveryCallReturns` promises of the calls it makes.

`fate` and `due` are history: what has become of a command, and that an update was requested
and not begun since. Three things are named in the properties because the code does them.
`unborn`: without memory for the buffer the command is let go before it is counted, and
never freed. `dropped`: `HwCtrlInit` empties the queue without looking. And a task stopped before
its thread ever ran: the kernel never calls `HwCtrlThread` then, so nobody ends the queue, and
`kthread_stop` fails, so `kthread_task` stays set; what opening the interface does after
that is undefined and left out.

## 3. Runs

| Run | Question | Instance |
|---|---|---|
| `mlme_queue` | Is the ring consistent, every message in one place, the mailbox implemented, every accepted message served, with enqueuer, thread and sweep interleaved and across take-down and restart? | ring of 2, 3 messages (one of each kind), 2 interfaces, 1 sender, 1 close, 1 reopen |
| `mlme_full` | finding A (violation) | ring of 3, 4 messages, 2 interfaces, 2 senders, 1 close |
| `mlme_sweep` | finding B (violation) | as `mlme_full` |
| `ba_reorder` | Is delivery ordered, the window held, nothing stranded? | 5 MPDUs (one A-MSDU of 3, one of 2), window 3, 16 sequence numbers starting at 13, 1 renewal |
| `ba_reorder_old` | finding C (violation) | 4 MPDUs |
| `ba_ori` | Do table, counters, mapping and bitmap agree, is nobody refused without need, and does waiting end? | 2 stations, 1 usable entry, 2 callers, 2 retries, 1 place per timer in the queue |
| `ba_ori_assert` | finding D (violation) | 1 station, 1 usable entry |
| `ba_recipient` | Do table, mapping and buffers agree, is a frame lost, is a session refused without need? | 2 stations, 1 usable entry, 2 frames in its buffer |
| `four_way` | Do both ends use one key, once, and does each handshake end? | 1 retry of a pairwise message, none of a group message, replay counters up to 4, 1 new group key, 1 refused allocation or queue entry |
| `four_way_done` | finding E (violation) | as `four_way` |
| `mcu_cmd` | Are lists, memory and numbers sound, and does every call return? | 3 commands, 2 of them waited for, one a STAREC_UPDATE, 1 sequence number |
| `hw_cmd` | Is every command dealt with, freed once and not before, and every update made? | 2 commands, one waited for, one with a buffer; 1 opening |

Why the bounds are enough. A ring of two fills, empties and wraps, and has a half
(one element) that differs from the whole. Its last element is raced for by the
sender and by what a sweep puts back; two senders do so in the larger instance
below, where a ring of three also lets the sweep put back two messages behind one
another. That the four safety properties hold for every ring is proved. With
window 3 and sequence numbers from 13 of 16 the second or third MPDU wraps, one
frame can fall behind, inside and beyond the window, and a hole can be followed
by a complete and by an incomplete MPDU. One usable table entry makes two
stations contend for it; two usable entries let an old timeout meet a new
session of the same station. `TableSize` is one more than the usable entries,
because the code never uses entry 0. `NumSpace` is small but above the table's
size, so a subtraction below zero is visible as a wrap.

One recipient entry makes two stations contend for it; two frames leave a buffer
half full. One retry lets message 1 or 3 be on its way twice and be answered late,
twice or never, and a replay counter of 4 leaves room for a group message
behind them. Two waiting callers and a third that does not wait are what it takes for
one loop to have another's command in hand while a third party frees; one number
is wanted again while it is in use, and again after it has been given up. Two hardware
commands let the task and the owner each have one in hand, or one find the queue emptied by the
other; one opening and closing meets every place of the callers and of the task.

Larger instances were checked by hand and hold: `MlmeQueue` with two senders and a reopen (1.2
million) and, without the reopen, a ring of three and four messages (4 million), `BaOri` with one
station and no constraint (`RefusalMeansFull`, 16 million), `BaRecipient` with three stations (1.9
million), `McuCmd` with three waiting callers and two numbers (safety, 28 million), `FourWay`
with a retry of the group message and one replay counter more (safety, 13 million), `HwCmd` with
two openings (safety, 1.6 million), in which the second meets commands of the first.

`TypeOK` of `FourWay`, `BaOri`, `BaRecipient` and `HwCmd` is not among their runs' properties; it is
proved, for every instance.

`ba_ori` has the CONSTRAINT `NotStale`. It ends a behaviour at the first stale step, after
which each of its properties but `RefusalMeansFull` is true by definition, so nothing that
could violate one is cut off. `RefusalMeansFull` past it is what the theorem
`OriRefusalMeansFull` and the larger instance show. `MaxQueued` bounds how often one timer
waits in the timer queue at once: it takes a second expiry before the timer thread has seen the
first, and each is served alone. That the timer queue always has a free entry is assumed.

Symmetry is used for the senders of the queue and for the recipient's stations, which
the specifications do not tell apart; not in runs with liveness.

Deadlock is checked in the runs of the queue and of the block-ack modules: with the
periodic wake-up, the peer's requests and time always enabled no reachable state is
without a successor. In `HwCmd` the chip may always vanish (`Adapter`), so it is not
a statement there. `McuCmd` and `FourWay` do end: all calls may have returned
and the interface be gone, the handshake may be over; their liveness properties say in
which way they may.

### Fairness

`MlmeQueue!FairSpec`: a thread inside an enqueue function, the MLME thread,
the sweep and the take-down get on (the kernel schedules them, spin locks are
released); the periodic timer, re-armed by `MlmePeriodicExec`, keeps waking
the thread; a driver coming up finishes. No fairness on sending or closing.

`BaReorder!FairSpec`: time passes, and the periodic timer and the tasklet
it schedules run. No fairness on the peer.

`BaOri!FairSpec`: whoever is inside a function leaves it, an armed timer fires,
the timer thread and the MLME thread get on. No fairness on frames or stations. The lock is
a ticket lock, and weak fairness is enough for it in the run: its holder always leaves, and
with one entry nobody can take it again and again without the waiting session's being freed.

`FourWay!Spec`: the MLME thread, the timer thread and the client get on, and an armed
retry timer fires. No fairness on frames (all of them may be lost) nor on new group keys.

`McuCmd!FairSpec`: a call that has begun goes on (its wait is bounded by a timeout), the
tasklet runs once scheduled, an exit that has begun goes on. Nothing makes the MCU
answer.

`HwCmd!FairSpec`: the task goes on when it has something to do, an owner who has begun to
open or close goes on, a handler returns, a wake-up that is due is given, a call that has begun
goes on (its wait is bounded by a timeout). Nobody need call, request, close or open.

`BaRecipient` states none: that a buffer empties is `BaReorder!BufferEmpties`.

### What the passing runs show

* `RingConsistent`, `PendingInOnePlace` (`mlme_queue`): the unlocked test for room,
  the race of sweep and handler, and the requeue never write into an element
  somebody still reads; no accepted message is dropped or doubled except where the
  code throws it away (swept, lost when its slot is taken, lost with the driver).
* `ImplementsMailbox`: as far as an observer sees, the ring is a FIFO mailbox,
  even while it is destroyed and initialised again. Taking the queue down
  before the thread is gone would break it (the mutant does).
* `EveryMessageServed`: the wake-ups that the sweep and a late `START_UP`
  swallow are made up for by the periodic one. The exception, a ring full to
  its last element, is finding A and is permanent.
* `WindowHeld`, `NothingReadyWaits`, `NoWriteToFreed` (`ba_reorder`): the window, the
  catching up and the pointer `CurMpdu` are sound without exception, also after finding C.
* `InOrderUnlessPulled` (`ba_reorder`): delivery is in order and without repetition, with
  three exceptions: `amsdu_sanity` has pulled `LastIndSeq` back (finding C), a repeated MSDU
  lacked room, or the peer got half the sequence numbers ahead unheard (`lapped`). The third
  takes a longer run than this instance's: with 8 MPDUs, 6 sequence numbers and a window of 2
  TLC shows MPDU 3 buffered, the peer going on unheard to MPDU 8, whose number is that of
  MPDU 2 and is taken for the next one, and MPDU 3 going up after it. With 4096 numbers and
  a window of 64 the peer must slide its window by some two thousand MPDUs of which not one
  arrives.
* `BufferEmpties` (`ba_reorder`): the timeouts catch every hole. It excludes one behaviour: block-ack
  requests repeated for ever restart the timeout (`ba_action.c:1736`) and hold
  back what is buffered.
* `RefusalMeansFull`, `CountersExact`, `SessionReachable`, `BitmapBacked`, `WaitingEnds`
  (`ba_ori`): the bookkeeping is exact until the first stale step, however the three threads'
  assignments fall between one another; a count of an entry nobody has never comes about even
  afterwards, until the one count too few of finding D has wrapped; and the retries of a
  waiting session run out also when its station is deleted while the set-up is under way.

* `SessionsMatch`, `FramesSafe`, `RefusalMeansFull` (`ba_recipient`): as long as the
  threads keep to different stations, the table, the stations' indexes, the counter and
  the buffers agree and no frame falls into an entry that takes none; and whatever
  overlaps, `numAsRecipient` never counts more entries than are taken, so no session is
  refused while one is free, and the allocation never finds none.
* `KeysAgree`, `InstallOnce`, `GroupKeyCurrent`, `FinishedStaysUp`, `HandshakeEnds`,
  `RekeyEnds` (`four_way`): with every loss and retry both ends of an open port have one
  key in hardware, installed once by the client; a settled station has the current group
  key; each handshake ends with the port open or the station given up. What the
  exceptions in these properties name (`raced`, `crossed`, `nomem`) does occur, see below.
* `OneList`, `NoDangling`, `AckqHoldsWaiters`, `NeverSpins`, `OwnAnswer`,
  `ReturnTellsAnswer`, `NothingLeft`, `EveryCallReturns` (`mcu_cmd`): what befalls
  one command stays with it. A freed command is in no list, one that occupies a number has
  a caller that will give it back, the search for a number ends, an answer completes its
  own command, nothing stays in a list behind the end, and every call returns. SUCCESS of a
  call that waits means an answer or one of the accidents `harm` names; of a STAREC_UPDATE only
  FAILURE tells that there was one.
* `HeldIsLive`, `NoOtherLeak`, `SuccessMeansSettled`, `ClosedIsEmpty`,
  `EveryCommandSettled`, `EveryUpdateMade` (`hw_cmd`): caller, queue, task and owner may let a
  command go in any order; it is freed by the last of them. A caller told SUCCESS need not
  fear a late write to its answer buffer (one told FAILURE may meet it), though its command
  may have been passed over or cleared and not run. No wake-up is lost while the task is
  about to wait, and a closed interface has an empty queue, with the exceptions above.

### Findings

* **A** `mlme_full`: `MlmeQueueEmpty` answers TRUE for a full ring (`Head = Tail`),
  against its comment at `mlme.c:5176`. `MlmeDequeue` then takes nothing out, and the
  queue stands still until the driver is restarted. Internal and WSC messages may
  fill the ring; received ones only half.
* **B** `mlme_sweep`: the sweep of a closing interface decides by an element's `wdev`,
  which `MlmeEnqueue` does not write: a message of another interface is thrown away,
  against the comment at `mlme.c:596`.
* **C** `ba_reorder_old`: the end of an A-MSDU is lost, a block-ack request moves the
  window past it, and the next frame makes `amsdu_sanity` set `LastIndSeq` back: an
  old MPDU goes up a second time, against the cases II and III of `ba_reorder`.
* **D** `ba_ori_assert`: a transmitting thread has mapped its station to an entry which the
  MLME thread then frees; it revives the entry uncounted, and the next free meets
  `ASSERT(numAsOriginator != 0)` at `ba_action.c:141` with zero. Without assertions the
  counter wraps and no session is opened any more.

* **E** `four_way_done`: the retry function counts, message 4 is handled, and the
  function goes on: a station just connected is reported as timed out
  and deauthenticated, under an event the comment at `cmm_wpa.c:7084` calls a pairwise
  handshaking timeout.

Also seen while modelling, and covered by the models' behaviour: two threads that transmit to
one station may both allocate, and one entry is lost to the station; a timeout already in the
timer thread's hands when the ADDBA response arrives frees the session just established; the
retry timer may be re-armed on an established session; reassociation clears `TXBAbitmap` but not
the session, so aggregation stays off until the station leaves; a tear-down without memory for
the DELBA leaves the entry for the next user of the station's index to free. In the recipient's
table an overlap, such as a renewal in the MLME thread while the tasklet tears the session down,
can lose frames, leave an entry taken that no station finds, or revive one that was freed. In
the handshake, both threads at once can leave the two ends with different keys (with replay
counters of 4 or more), or leave the port open in a state from which later group keys are
withheld; a new group key that meets a handshake in progress does not reach that station; a
failed allocation in `WPABuildGroupMsg1` leaves the group handshake negotiating without a timer,
and a late answer to the message before then settles it with the old key; so does one the MLME
thread has in its hands when the next group handshake begins. `PeerPairMsg4Action` writes the state, the group key's state and the
port one after the other (`cmm_wpa.c:6050-6052`): a group handshake due in between finds the
port closed and passes the station over, which keeps the old group key. A station's session
freed between Done, the count and the bitmap leaves a bit behind with no session, or a lost
count. A command whose loop failed returns SUCCESS though it was never sent. A STAREC_UPDATE
whose wait timed out returns SUCCESS as well, for `cmd_return_status` is 0 until an answer
writes it (`andes_core.c:917-922`); the comment there, "FW's response will become the final
return value", does not say what happens without one. None of these contradicts a sentence of
the repository, so they are hazards and not findings.

## 4. Proofs

`MlmeQueue_proofs` proves, for every `Cap > 0`, every set of messages, senders
and interfaces and every bound on closes and restarts:

* `TypeCorrect`: `Spec => []TypeOK`;
* `RingAlwaysConsistent`: `Spec => []RingConsistent`;
* `NoMessageLost`: `Spec => []PendingInOnePlace`.

Assumptions: `CapAssumption`, `MsgAssumption`, `BoundAssumption`, which TLC
evaluates in the runs.

The argument. `TypeOK` is not inductive: the thread could dequeue from a
destroyed ring. `LifeInv` says how the life of the driver, the thread and the
sweep exclude one another (the ring is destroyed only when the thread is dead,
the thread is dead only during a take-down, `TaskLock` is held exactly in the
middle of a sweep). `RingInv == TypeOK /\ LifeInv /\ RingConsistent` is inductive:
a pop hands `Head` to the handler or the sweep (`PopFacts`, `PoppedType`), a push
takes a slot whose bit is clear, which by `OccupiedExact` nobody holds
(`PushFacts`, `PushStep`), and freeing clears exactly one bit. `CountersAgree` and
`OccupiedExact` need each other: a full ring and an empty one have the same
`Head` and `Tail`, and only `Num` with the bits tells that a push finds the tail
taken. For `NoMessageLost`, `PlaceInv` adds that a message in a sender's hands is
`sending` and held by that sender alone, and that nothing is pending while the
driver is down; the steps are then the addition of a place (`PlaceAdded`), a removal
(`PlaceRemoved`), a move (`PlaceMoved`) or nothing (`StillPlaces`).

`MlmeQueue_proofs` also proves `RingIsMailbox`: `Spec => ImplementsMailbox`. The
mailbox's queue is the run of elements from `Head` on (`RingSeq`); what it calls the
handler's and the sweep's messages are those in their hands (`InHandler`, `InSweep`). A
push appends to the run (`BoxPush`), a pop takes its head (`BoxPop`), every step that
touches neither the ring nor those hands leaves the mailbox as it is (`Quiet`), and
`StepSimulates` goes through the actions. The invariants above enter where the
mailbox's guards must hold: `CountersAgree` says the run has room when the tail's bit
is clear, `LifeInv` that the ring is emptied only while nobody holds an element.

`BaReorder_proofs` proves, for every window, every sequence of MPDUs and A-MSDU sizes, every
first number and any number of renewals: `TypeCorrect` (`TypeOK`), `WindowAlwaysHeld`
(`WindowHeld`), `NothingReadyEverWaits` (`NothingReadyWaits`), `NeverWritesToFreed`
(`NoWriteToFreed`) and `UpInOrder` (`InOrderUnlessPulled`). Assumptions: `SpaceAssumption`
(the numbers are at least twice the window and one: 2 * 65 of the code's 4096),
`MsduAssumption`, `NothingAssumption`.

All arithmetic is on `Dist(a, b)`, how far `a` lies ahead of `b`. The list is `Behind`
`LastIndSeq` when its distances ascend within the window. `InOrder`, `LeSeq`, `Shift`, `Refresh`
and the flush are all one step, `Advance`: the window goes some numbers on and the blocks it
passes go up; what it leaves is proved once. Between two calls `Good` holds: the list is
`Behind`, its head is not the next number (`Quiet`), and, since neither is inductive alone, what
ties `CurMpdu` and `PreviousSN` to it: `CurMpdu` is the unfinished MPDU of the last MSDU, and
either buffered or passed by the window, so that its next MSDU is old or repeated and is not
appended (`CurOK`); where `amsdu_sanity` would set `LastIndSeq` back to `PreviousSN` the list
lies behind that number too (`PullOK`); a renewed session holds nothing (`NewOK`). `Ready` is
what `ba_reorder` brings to the check, `Placed` what each of the five cases leaves.

Delivery order speaks of MPDUs, the code of numbers. `Held(ba, l)` says that `LastIndSeq` is the
number of MPDU `l` and each block holds MSDUs of the MPDU at its distance from `l`, `Below` that
none is newer than what has been heard of; then a number stands for one MPDU only, which is
where `lapped` is needed. `Order` adds where the last MSDU announced lies (`TopIs`); the cases
take what fits (`Enter`) to what they leave (`Leave`), and `Ordered` ties it to the peer's
window and the air. The inductive invariant is `OrderInv == Clear(ba) /\ ~heard.lapped =>
Ordered(...)`, with `Good`; `pulled`, `dry` and `lapped` are never taken back. That what
`Release` concatenates ascends would be an induction over the blocks; the proof takes the
shortest prefix that does not ascend instead (`Smallest`). Each strengthened invariant was
checked by TLC over eight choices of the constants first.

`BaOri_proofs` proves, for every number of stations, callers, entries and retries and
every range of the counters larger than the table:

* `OriTypes`: `Spec => []TypeOK`;
* `OriRefusalMeansFull`: `Spec => []RefusalMeansFull`;
* `OriCountersExact`, `OriSessionReachable`, `OriBitmapBacked`: the three properties of
  the bookkeeping.

Assumption: `OriAssumption`. `TypeOK` needs to know what a thread holds between its
steps (`CallOK`, `TtOK`, `MlmeOK`, `TabOK`): that the entry a caller chose is one of the table,
that the timer thread's entry has a station, that a request about to be repeated has
repetitions left, that the lock has one holder; and that only an entry once written has a timer
(`EntryOK`). `TypeInv` holds in every state, also after a stale step. So does `BelowOK`, from
which `RefusalMeansFull` follows: until the counter has been taken below zero it is at most the
number of entries taken, because an entry is counted when it is taken (`BelowTake`), counted
off when it is freed (`BelowFree`), and only the lock's holder does either (`BelowSteady` is
every other step); a stale write can only make an entry taken that is not counted.

`Book`, of a behaviour with no stale step, is inductive with `TypeInv`, and only as a whole. A
caller that has taken an entry is the only one to have it in hand, its station is the only one
mapped to it, and nobody frees it (`OpenOK`, `SoleOK`); an entry that is `USED` is in somebody's
hand (`UsedOK`); an entry being freed is that of its station, and after `FreeUnmap` of none
(`TabBook`); one just established is not being freed until its timer is cancelled (`EstOK`).
With these the mapping and the table are inverse (`FoundOK`, `MapOK`), a bit has an established
session (`BitsOK`), and the counters are the sizes of two sets of entries, so they do not wrap
(`CountsOK`, `EntryAdded`, `EntryRemoved`). There is one lemma per step that touches any of
this; `Steady` covers those that do not, and `StaleStays` says that nothing undoes a stale step.

`BaRecipient_proofs` proves, for every number of stations, entries and frames, its
types and all that `ba_recipient` checks: `RecTypeCorrect` (`TypeOK`), `RecRefusalMeansFull`,
`RecSessionsMatch`, `RecFramesSafe`. Assumption: `RecAssumption`. `TypeInv` adds to `TypeOK`
which thread may be at which place (`PlaceOK`). `Few == num <= Cardinality(Taken)` is
inductive with it alone: an entry may be taken without being counted, when the tasklet
revives one, but never counted without being taken; a count that reaches the table's size
then means a full table (`SomeEntries`). For the other two, `Separate` says what holds
until two threads meet at a station: no two busy threads work for one station or hold one
entry (`Apart`, `OneHand`), a station's index leads to an open entry with its `Wcid`
(`MapAt`), a thread knows its entry to be taken and found by no other station (`HandOK`), its
buffer to be empty while it opens, closes or establishes it (`KeptIn`). The lemma `Step` shows
once that a step of one thread for one station with one entry leaves alone what the
others know; each action then has to be looked at only for its own thread, station and entry
(`OpenSeparate`, `EndSeparate`, `FrameSeparate`, `AllocSeparate`, `GoneSeparate`,
`StartSeparate`, `LessSeparate`).

`FourWay_proofs` proves, for every retry limit, bound on the counter and number of group
keys, `TypeCorrect`, `InstalledOnce` (`InstallOnce`), `KeysAlwaysAgree` (`KeysAgree`),
`FinishedNotTimedOut` (the action property `FinishedStaysUp`) and `SettledHasGroupKey`
(`GroupKeyCurrent`, whose run has one new group key; the theorem has any number). Assumption:
`FourWayAssumption`. `TInv` joins `TypeOK` and which frame a thread builds where (`BuildOK`).
`OnceInv` is the client's alone: a key is installed only when `AllowInsPTK` was set by a
message 1 with a new nonce. `KeysInv` says, of a handshake in which nothing raced: the counter
is ahead of every frame on its way, a message 4 that carries the current counter answers a
message 3 made from the key that is in hardware, at most one thread is at work, and the port
opens only then (`CounterOK`, `KeyOK`, `AloneOK`, `OpenOK`); the lemmas `KeysBuild`,
`KeysMlme`, `KeysTimer` and `KeysSta` go through the actions. `OnlyTimeout` names the one step
that takes a finished handshake back. `GroupInv` adds to `KeysInv`, of a behaviour with none
of the exceptions, that a message with the present counter delivers the present group key and
that its answer means the client has it, or else that a newer message is due (`CarriedOK`,
`AnsweredOK`), and that nothing is retried between two group handshakes (`SettledOK`).

`McuCmd_proofs` proves, for every set of commands, those waited for and every number of sequence
numbers, `TypeCorrect`, `InOneList` (`OneList`), `FreedIsUnlinked` (`NoDangling`),
`NumbersAreAwaited` (`AckqHoldsWaiters`), `AnswersMatch` (`OwnAnswer`), `ReturnTells`
(`ReturnTellsAnswer`), `SearchEnds` (`NeverSpins`) and `EndLeavesNothing` (`NothingLeft`).
Assumption: `McuAssumption`. `TInv` adds to `TypeOK` that a loop holds a command exactly where
it should (`HoldOK`) and that only commands waited for are in `ackq` (`SyncOK`). `SInv` is
`TInv` with, of each command, where it is (`Place`), what its memory and its links say of its
call (`Sound`) and who will give its number back (`Awaited`); the lemma `Frame` shows that a
step leaves the commands alone it does not touch. `NInv` says that numbers in use differ
(`Marked`) and that an answer on its way meets its own command. `VInv` adds to `SInv` that,
while MCU_INIT is set, only an answer completes a command whose call is inside and whose loop did not fail (`Heard`). `PInv`
adds that while a search goes on every number is taken (`SpinOK`), which the lock keeps so
(`LockHolds`); the commands in `ackq` and the one the number is for are then more than the
numbers and their calls are all inside, and a finite set of calls has begun (`SpinMeans`).
`LInv` follows a message to its end (`Kept`): once its call has returned it is freed or in
`tx_doneq`, or still on its way there if nobody waits for it; one somebody waited for leaves
`tx_doneq` before the end has waited for the tasklet, for the clean-up of that list would not
free it.

`HwCmd_proofs` proves, for every set of commands, those waited for and those with a buffer and
any number of openings, `HwTypeCorrect` (`TypeOK`), `HwHeldIsLive`, `HwNoOtherLeak`,
`HwSuccessMeansSettled` and `HwClosedIsEmpty`. Assumption: `HwAssumption`. The count of
references is bounded only because it is exact, so `Types` leaves it a natural number and `Good`
says what it counts: one for the call while it lasts, one for the queue or whoever has taken the
command from there (`Refs`). `Places` says that a command is in one place only: once in the
queue, or in one hand. `Counted`, the three together, is inductive with `Life`, which ties the
state of the queue to the life of the task: a queue that takes nothing more is empty, and
without a task that the owner knows of there is none. `OneCommand` and `MovedCommand` show once
that a step for one command leaves the others alone; `FlushCounted` and `OpenCounted` are the
two steps that touch all that are queued.

Only model-checked: liveness (`EveryMessageServed`, `BufferEmpties`, `WaitingEnds`,
`HandshakeEnds`, `RekeyEnds`, `EveryCallReturns`, `EveryCommandSettled`, `EveryUpdateMade`),
which is out of TLAPS's reach.

## 5. Not modelled, and why

In the modelled parts: the multi-queue build option of the MLME queue (off by default), the slot
`pWscElme` that the WSC thread reads (`mlme.c:1207`), functions nobody calls
(`MlmeEnqueueWithWdev`, `MlmeRestartStateMachine`). `HandlerLoop` keeps the breaks of
`MlmeHandler` for a halt and for `START_UP`; the other three (`mlme.c:988-1013`) stop it as well
while an unplugged device is `NIC_NOT_EXIST` (which the interrupt sets together with
`HALT_IN_PROGRESS`, `hif_pci.c:2631`), while USB power management has set `SUSPEND` and in test
mode (ATE): messages then wait, and `EveryMessageServed` is not claimed of such a driver. In
`BaOri`: the tear-down that ioctl threads ask for, several TIDs (they share the table, and the
word of `TXBAbitmap`, whose unlocked update is one step here), a timer queue without room,
what the peer and the hardware believe of a session. In `BaReorder`: the chip variants without
hardware de-aggregation, the pool of blocks at its limit, and a renewal while an aggregate is
being received (`ba_rec_session_add` is one step with nothing on the air, although its three
locked parts, `ba_action.c:1067-1113`, may in the code have frames received between them). In `BaRecipient`: the idle timer
`RECBATimer`, which nothing sets, and the hardware's tables. In `FourWay`: a second association
in the middle of a handshake (`ap_assoc.c:78-109` leaves the retry timer running), the deletion
of the entry under the two threads, a suspended device (`rtmp_timer.c:175`), a station of an A4 link (`ap_sec.c:375`), WPA1, 802.1X, FILS, OWE and SAE, the group key in the access
point's hardware, the client's own threads. In `McuCmd`: unsolicited events, headers, the
recovery build option, lists of other buses. In `HwCmd`: what each handler does with the chip,
the recovery task, and `cmm_cmd.c`, a second queue of the same build for the commands of the
configuration.

Components without a module: `PROJECT.json` gives the reason for each. Authentication,
association, SA Query, SAE and the AP client are protocols worth modelling and are left for a
continuation (section 6); hardware resource tables and software queues likewise. Rate control,
calibration, chip registers, EEPROM, configuration parsing and test code have no protocol to
check; firmware behaviour is not in the repository; `mt7603e` and `mt7612e` are older copies of
the same code. The modelled code is a small share of the repository: most of its lines are
register tables, firmware images, message formats and configuration.

## 6. Plan

Order: what every other part stands on first (the queue), then the two halves of the
block-ack code, whose sharing is the least protected, then the protocols.

1. done: `MlmeMailbox`, `MlmeQueue`, `BaReorder`, `BaOri`, `BaRecipient`, `FourWay`,
   `McuCmd`, `HwCmd`, with proofs of every safety invariant the runs check and of the
   refinement.
2. `ApMlme`: authentication, association, SA Query over the MLME queue's promise.

## 7. Running

    tlc -workers 2 -config MlmeQueue.cfg MCMlmeQueue.tla
    tlapm MlmeQueue_proofs.tla

The longest run takes about three minutes on two workers. `BaReorder_proofs` takes about six
minutes, each other proof module at most three.
