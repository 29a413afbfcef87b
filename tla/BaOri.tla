------------------------------- MODULE BaOri -------------------------------
(***************************************************************************)
(* The block-ack sessions the driver opens as originator                   *)
(* (embedded/common/ba_action.c): the table BAOriEntry, the mapping        *)
(* BAOriWcidArray and the bitmap TXBAbitmap of each station, and their     *)
(* three users: the callers of ba_ori_session_setup, the timer thread      *)
(* (ba_ori_session_setup_timeout) and the MLME thread (ADDBA responses,    *)
(* DELBA requests, authentication, association and the deletion and        *)
(* insertion of stations).                                                 *)
(*                                                                         *)
(* BATabLock is taken in ba_alloc_ori_entry and ba_free_ori_entry only,    *)
(* and keeps out only who takes it too.  So each look at, and each         *)
(* assignment to, what another thread may write without the lock is a      *)
(* step of its own, in the order of the source, those of                   *)
(* ba_free_ori_entry included.  One TID stands for all; the word of        *)
(* TXBAbitmap that TIDs share is a bit.  Tear-downs asked for by ioctl     *)
(* threads are not modelled.                                               *)
(***************************************************************************)
EXTENDS Integers, FiniteSetsExt

CONSTANTS
  Stations,   \* indexes of the MAC table
  NoStation,  \* index 0, the Wcid of an entry never used; no station has it
  Callers,    \* the threads that call ba_ori_session_setup
  Mlme,       \* the one of them that is the MLME thread
  TableSize,  \* MAX_LEN_OF_BA_ORI_TABLE
  MaxRetry,   \* ORI_SESSION_MAX_RETRY
  NumSpace,   \* the range of the ULONG counters
  MaxQueued   \* bound: times one timer is in the timer queue at a time

ASSUME OriAssumption ==
  /\ Mlme \in Callers /\ NoStation \notin Stations
  /\ TableSize \in Nat /\ TableSize > 1 /\ TableSize < NumSpace
  /\ MaxRetry \in Nat /\ MaxRetry > 1 /\ NumSpace \in Nat
  /\ MaxQueued \in Nat /\ MaxQueued > 0

VARIABLES
  mac,    \* MAC_TABLE_ENTRY: in use, BAOriWcidArray, TXBAbitmap
  ori,    \* BAOriEntry: ORI_BA_Status, Wcid, Token
  timer,  \* ORIBATimer of each: Valid, armed, times in TimerQ
  num,    \* numAsOriginator, numDoneOriginator
  tab,    \* who is inside ba_free_ori_entry, holding BATabLock, and where
  call,   \* the threads inside ba_ori_session_setup
  tt,     \* the timer thread inside ba_ori_session_setup_timeout
  mlme,   \* the MLME thread inside a handler
  hist    \* history, see below

vars == <<mac, ori, timer, num, tab, call, tt, mlme, hist>>

Entries == 1 .. TableSize - 1
Idxs == 0 .. TableSize - 1

\* The order of the status values: NONE, USED, WaitRes, Done.
Open == {"WaitRes", "Done"}

Unlocked == [pc |-> "idle", by |-> "tt", Idx |-> 0, sta |-> NoStation, n |-> 0]
NoCall ==
  [pc |-> "idle", sta |-> NoStation, Idx |-> 0, entry |-> 0, own |-> FALSE]
NoTimeout ==
  [pc |-> "idle", slot |-> 0, sta |-> NoStation, Idx |-> 0, n |-> 0]
NoMessage ==
  [pc |-> "idle", sta |-> NoStation, Idx |-> 0, n |-> 0, why |-> "peer"]

Init ==
  /\ mac = [w \in Stations |-> [used |-> FALSE, arr |-> 0, TXBA |-> FALSE]]
  /\ ori = [i \in Entries |->
              [status |-> "NONE", Wcid |-> NoStation, Token |-> 0]]
  /\ timer = [i \in Entries |->
                [Valid |-> FALSE, armed |-> FALSE, queued |-> 0]]
  /\ num = [as |-> 0, done |-> 0]
  /\ tab = Unlocked
  /\ call = [c \in Callers |-> NoCall]
  /\ tt = NoTimeout
  /\ mlme = NoMessage
  /\ hist = [stale |-> FALSE, below |-> FALSE]

Plus(n) == (n + 1) % NumSpace
Minus(n) == (n - 1) % NumSpace

\* History.  stale: a thread wrote, or acted on, what another has changed
\* since it looked, or is about to change; below: numAsOriginator has been
\* taken below zero.
Stale(b) == hist' = [hist EXCEPT !.stale = @ \/ b]

(***************************************************************************)
(* The timer of an entry (RTMPInitTimer, RTMPSetTimer, RTMPCancelTimer,    *)
(* RTMPReleaseTimer).  Cancelling takes one entry out of the timer queue.  *)
(***************************************************************************)
InitTimer(t) == [t EXCEPT !.Valid = TRUE]
SetTimer(t) == [t EXCEPT !.armed = t.Valid]
CancelTimer(t) ==
  IF t.Valid
    THEN [t EXCEPT !.armed = FALSE, !.queued = IF @ = 0 THEN 0 ELSE @ - 1]
    ELSE t
ReleaseTimer(t) == [CancelTimer(t) EXCEPT !.Valid = FALSE]

-----------------------------------------------------------------------------
(***************************************************************************)
(* ba_free_ori_entry, called by the timer and by the MLME thread.          *)
(* BATabLock is held from the test of the status to the last assignment.   *)
(* A call for index 0 returns before it.                                   *)
(***************************************************************************)
FreeAt(p) == tab' = [tab EXCEPT !.pc = p]

\* BATabLock is free: nobody is here, nor in ba_alloc_ori_entry.
LockFree == tab.pc = "idle" /\ \A c \in Callers : call[c].pc # "take"

\* An entry is in hand from its allocation until it has its station, and
\* again from the assignment of Originator_Done until the timer is cancelled.
Opening(c, i) ==
  /\ call[c].own /\ call[c].entry = i
  /\ call[c].pc \in {"test", "map", "status", "wcid"}
Establishing(i) ==
  mlme.Idx = i /\ mlme.pc \in {"count", "counted", "bit", "cancel"}
InHand(i) == Establishing(i) \/ \E c \in Callers : Opening(c, i)

ba_free_ori_entry(i, who) ==
  /\ LockFree
  /\ i \in Entries /\ ori[i].status # "NONE"
  /\ tab' = [Unlocked EXCEPT !.pc = "unmap", !.by = who, !.Idx = i,
                             !.sta = ori[i].Wcid]
  /\ Stale(InHand(i))

NothingToFree(i) ==
  i \in Entries => LockFree /\ ori[i].status = "NONE"

KeepIndex(w) == mac
Unmapped(w) == [mac EXCEPT ![w].arr = 0]
FreeUnmap ==
  /\ tab.pc = "unmap"
  /\ mac' = Unmapped(tab.sta)
  /\ FreeAt("look")
  /\ UNCHANGED <<ori, timer, num, call, tt, mlme, hist>>

\* numDoneOriginator -= 1 is a read and a write.
FreeLook ==
  /\ tab.pc = "look"
  /\ tab' = IF ori[tab.Idx].status = "Done"
               THEN [tab EXCEPT !.pc = "counted", !.n = num.done]
               ELSE [tab EXCEPT !.pc = "none"]
  /\ UNCHANGED <<mac, ori, timer, num, call, tt, mlme, hist>>

FreeCounted ==
  /\ tab.pc = "counted"
  /\ num' = [num EXCEPT !.done = Minus(tab.n)]
  /\ Stale(num.done # tab.n)
  /\ FreeAt("bit")
  /\ UNCHANGED <<mac, ori, timer, call, tt, mlme>>

KeepBit(w) == mac
BitCleared(w) == [mac EXCEPT ![w].TXBA = FALSE]
FreeBit ==
  /\ tab.pc = "bit"
  /\ mac' = BitCleared(tab.sta)
  /\ FreeAt("none")
  /\ UNCHANGED <<ori, timer, num, call, tt, mlme, hist>>

\* The MLME thread goes on with the message it handles.
Finish == mlme' = NoMessage
GoOn ==
  CASE mlme.why = "delete" -> mlme' = [mlme EXCEPT !.pc = "gone", !.Idx = 0]
    [] mlme.why = "insert" -> mlme' = [mlme EXCEPT !.pc = "reset", !.Idx = 0]
    [] OTHER -> Finish

\* numAsOriginator is used under the lock only.
FreeNone ==
  /\ tab.pc = "none"
  /\ num' = [num EXCEPT !.as = Minus(@)]
  /\ ori' = [ori EXCEPT ![tab.Idx].status = "NONE"]
  /\ hist' = [hist EXCEPT !.below = @ \/ num.as = 0]
  /\ FreeAt("token")
  /\ UNCHANGED <<mac, timer, call, tt, mlme>>

FreeToken ==
  /\ tab.pc = "token"
  /\ ori' = [ori EXCEPT ![tab.Idx].Token = 0]
  /\ tab' = Unlocked
  /\ \/ tab.by = "tt" /\ tt.pc = "free" /\ tt' = NoTimeout /\ UNCHANGED mlme
     \/ tab.by = "mlme" /\ mlme.pc = "free" /\ GoOn /\ UNCHANGED tt
  /\ UNCHANGED <<mac, timer, num, call, hist>>

-----------------------------------------------------------------------------
(***************************************************************************)
(* ba_ori_session_setup.                                                   *)
(***************************************************************************)
CallAt(c, p) == call' = [call EXCEPT ![c].pc = p]
Return(c) == call' = [call EXCEPT ![c] = NoCall]
Enter(c, w) ==
  call' = [call EXCEPT ![c] = [NoCall EXCEPT !.pc = "look", !.sta = w]]

\* The firmware asks for a session, whatever the state of the station; so
\* does the transmit path (ba_ori_session_start), for some of them.
ExtEventBaTriggerHandler(c, w) ==
  /\ c # Mlme
  /\ call[c].pc = "idle"
  /\ Enter(c, w)
  /\ UNCHANGED <<mac, ori, timer, num, tab, tt, mlme, hist>>

SetupLook(c) ==
  LET Idx == mac[call[c].sta].arr IN
  /\ call[c].pc = "look"
  /\ call' = [call EXCEPT ![c].Idx = Idx, ![c].entry = Idx,
                          ![c].pc = IF Idx = 0 THEN "alloc" ELSE "test"]
  /\ UNCHANGED <<mac, ori, timer, num, tab, tt, mlme, hist>>

\* ba_alloc_ori_entry, under BATabLock.  If the counter says there is room
\* but no entry is free, the loop leaves the last entry and Idx still 0.
TableFull == num.as >= TableSize - 1
FreeEntries == {i \in Entries : ori[i].status = "NONE"}
UncountedAlloc == num
CountedTwice == [num EXCEPT !.as = Plus(Plus(@))]
CountedAlloc == [num EXCEPT !.as = Plus(@)]

ba_alloc_ori_entry(c) ==
  /\ call[c].pc = "alloc" /\ LockFree
  /\ \/ TableFull /\ Return(c)
     \/ /\ ~TableFull /\ FreeEntries # {}
        /\ call' = [call EXCEPT ![c].pc = "take", ![c].Idx = Min(FreeEntries),
                                ![c].entry = Min(FreeEntries)]
     \/ /\ ~TableFull /\ FreeEntries = {}
        /\ call' = [call EXCEPT ![c].pc = "test",
                                ![c].entry = TableSize - 1]
  /\ UNCHANGED <<mac, ori, timer, num, tab, tt, mlme, hist>>

Take(c) ==
  /\ call[c].pc = "take"
  /\ num' = CountedAlloc
  /\ ori' = [ori EXCEPT ![call[c].entry].status = "USED"]
  /\ call' = [call EXCEPT ![c].pc = "test", ![c].own = TRUE]
  /\ UNCHANGED <<mac, timer, tab, tt, mlme, hist>>

SetupTest(c) ==
  /\ call[c].pc = "test"
  /\ IF ori[call[c].entry].status \in Open THEN Return(c)
                                            ELSE CallAt(c, "map")
  /\ UNCHANGED <<mac, ori, timer, num, tab, tt, mlme, hist>>

\* The caller is right to go on when it has allocated the entry, nobody has
\* freed it and the station still has none.
Rightful(c) ==
  /\ call[c].own /\ ori[call[c].entry].status = "USED"
  /\ mac[call[c].sta].arr = 0

SetupMap(c) ==
  /\ call[c].pc = "map"
  /\ mac' = [mac EXCEPT ![call[c].sta].arr = call[c].Idx]
  /\ Stale(~Rightful(c))
  /\ CallAt(c, "status")
  /\ UNCHANGED <<ori, timer, num, tab, tt, mlme>>

SetupStatus(c) ==
  /\ call[c].pc = "status"
  /\ ori' = [ori EXCEPT ![call[c].entry].status = "WaitRes"]
  /\ CallAt(c, "wcid")
  /\ UNCHANGED <<mac, timer, num, tab, tt, mlme, hist>>

SetupWcid(c) ==
  /\ call[c].pc = "wcid"
  /\ ori' = [ori EXCEPT ![call[c].entry].Wcid = call[c].sta]
  /\ CallAt(c, "token")
  /\ UNCHANGED <<mac, timer, num, tab, tt, mlme, hist>>

SetupToken(c) ==
  /\ call[c].pc = "token"
  /\ ori' = [ori EXCEPT ![call[c].entry].Token = 1]
  /\ CallAt(c, "arm")
  /\ UNCHANGED <<mac, timer, num, tab, tt, mlme, hist>>

\* The bit of a session of before means that the timer is initialised.
SetupArm(c) ==
  LET set == mac[call[c].sta].TXBA IN
  /\ call[c].pc = "arm"
  /\ CallAt(c, IF set THEN "cancel" ELSE "init")
  /\ Stale(set)
  /\ UNCHANGED <<mac, ori, timer, num, tab, tt, mlme>>

SetupTimer(c) ==
  LET i == call[c].entry IN
  /\ \/ /\ call[c].pc = "init"
        /\ timer' = [timer EXCEPT ![i] = InitTimer(@)]
        /\ CallAt(c, "set")
     \/ /\ call[c].pc = "cancel"
        /\ timer' = [timer EXCEPT ![i] = CancelTimer(@)]
        /\ CallAt(c, "set")
     \/ /\ call[c].pc = "set"
        /\ timer' = [timer EXCEPT ![i] = SetTimer(@)]
        /\ Return(c)
  /\ UNCHANGED <<mac, ori, num, tab, tt, mlme, hist>>

-----------------------------------------------------------------------------
(***************************************************************************)
(* The timer and the timer thread: ba_ori_session_setup_timeout.  There is *)
(* always an entry left for the timer queue.                               *)
(***************************************************************************)
TtAt(p) == tt' = [tt EXCEPT !.pc = p]

TimerFires(i) ==
  /\ timer[i].armed /\ timer[i].queued < MaxQueued
  /\ timer' = [timer EXCEPT ![i].armed = FALSE, ![i].queued = @ + 1]
  /\ UNCHANGED <<mac, ori, num, tab, call, tt, mlme, hist>>

RtmpTimerQHandle(i) ==
  /\ tt.pc = "idle"
  /\ timer[i].queued > 0
  /\ timer' = [timer EXCEPT ![i].queued = @ - 1]
  /\ tt' = [NoTimeout EXCEPT !.pc = "look", !.slot = i]
  /\ UNCHANGED <<mac, ori, num, tab, call, mlme, hist>>

TimeoutLook ==
  /\ tt.pc = "look"
  /\ tt' = [tt EXCEPT !.pc = "test", !.sta = ori[tt.slot].Wcid]
  /\ UNCHANGED <<mac, ori, timer, num, tab, call, mlme, hist>>

TimeoutTest ==
  /\ tt.pc = "test"
  /\ TtAt(IF ori[tt.slot].status = "WaitRes" THEN "tries" ELSE "pick")
  /\ UNCHANGED <<mac, ori, timer, num, tab, call, mlme, hist>>

\* An ADDBA request is sent (which the peer may answer at any time), and
\* counted: Token++ is a read and a write.
TimeoutTries ==
  /\ tt.pc = "tries"
  /\ TtAt(IF ori[tt.slot].Token < MaxRetry THEN "again" ELSE "pick")
  /\ UNCHANGED <<mac, ori, timer, num, tab, call, mlme, hist>>

TimeoutAgain ==
  /\ tt.pc = "again"
  /\ tt' = [tt EXCEPT !.pc = "count", !.n = ori[tt.slot].Token]
  /\ UNCHANGED <<mac, ori, timer, num, tab, call, mlme, hist>>

TimeoutCount ==
  /\ tt.pc = "count"
  /\ ori' = [ori EXCEPT ![tt.slot].Token = tt.n + 1]
  /\ TtAt("set")
  /\ UNCHANGED <<mac, timer, num, tab, call, mlme, hist>>

RetryOnce(t) == t
Retry(t) == SetTimer(t)
TimeoutSet ==
  /\ tt.pc = "set"
  /\ timer' = [timer EXCEPT ![tt.slot] = Retry(@)]
  /\ tt' = NoTimeout
  /\ UNCHANGED <<mac, ori, num, tab, call, mlme, hist>>

\* The station's entry is read, then freed: it need not be the entry whose
\* timer fired.
TimeoutPick ==
  /\ tt.pc = "pick"
  /\ tt' = [tt EXCEPT !.pc = "free", !.Idx = mac[tt.sta].arr]
  /\ UNCHANGED <<mac, ori, timer, num, tab, call, mlme, hist>>

TimeoutFree ==
  /\ tt.pc = "free"
  /\ \/ ba_free_ori_entry(tt.Idx, "tt") /\ UNCHANGED tt
     \/ NothingToFree(tt.Idx) /\ tt' = NoTimeout /\ UNCHANGED <<tab, hist>>
  /\ UNCHANGED <<mac, ori, timer, num, call, mlme>>

-----------------------------------------------------------------------------
(***************************************************************************)
(* The MLME thread handles one message after the other.                    *)
(***************************************************************************)
MlmeAt(p) == mlme' = [mlme EXCEPT !.pc = p]
MlmeFree == mlme.pc = "idle" /\ call[Mlme].pc = "idle"
Begin(w, p, reason) ==
  /\ MlmeFree
  /\ mlme' = [NoMessage EXCEPT !.pc = p, !.sta = w, !.why = reason]

peer_addba_rsp_action(w) ==
  /\ \E p \in {"add", "tear"} : Begin(w, p, "peer")
  /\ UNCHANGED <<mac, ori, timer, num, tab, call, tt, hist>>

peer_delba_action(w) ==
  /\ Begin(w, "tear", "peer")
  /\ UNCHANGED <<mac, ori, timer, num, tab, call, tt, hist>>

\* ba_ori_session_add.
AddLook ==
  LET Idx == mac[mlme.sta].arr IN
  /\ mlme.pc = "add"
  /\ IF Idx = 0 THEN Finish
                ELSE mlme' = [mlme EXCEPT !.pc = "test", !.Idx = Idx]
  /\ UNCHANGED <<mac, ori, timer, num, tab, call, tt, hist>>

AddTest ==
  /\ mlme.pc = "test"
  /\ IF ori[mlme.Idx].status = "WaitRes" THEN MlmeAt("done") ELSE Finish
  /\ UNCHANGED <<mac, ori, timer, num, tab, call, tt, hist>>

\* It is right to go on when the session still waits for the answer, and
\* nobody is freeing it.
Awaited ==
  /\ ori[mlme.Idx].status = "WaitRes" /\ mac[mlme.sta].arr = mlme.Idx
  /\ tab.Idx # mlme.Idx

AddDone ==
  /\ mlme.pc = "done"
  /\ ori' = [ori EXCEPT ![mlme.Idx].status = "Done"]
  /\ Stale(~Awaited)
  /\ MlmeAt("count")
  /\ UNCHANGED <<mac, timer, num, tab, call, tt>>

\* numDoneOriginator++ is a read and a write, without the lock.
AddCount ==
  /\ mlme.pc = "count"
  /\ mlme' = [mlme EXCEPT !.pc = "counted", !.n = num.done]
  /\ UNCHANGED <<mac, ori, timer, num, tab, call, tt, hist>>

AddCounted ==
  /\ mlme.pc = "counted"
  /\ num' = [num EXCEPT !.done = Plus(mlme.n)]
  /\ Stale(num.done # mlme.n)
  /\ MlmeAt("bit")
  /\ UNCHANGED <<mac, ori, timer, tab, call, tt>>

AddBit ==
  /\ mlme.pc = "bit"
  /\ mac' = [mac EXCEPT ![mlme.sta].TXBA = TRUE]
  /\ MlmeAt("cancel")
  /\ UNCHANGED <<ori, timer, num, tab, call, tt, hist>>

AddCancel ==
  /\ mlme.pc = "cancel"
  /\ timer' = [timer EXCEPT ![mlme.Idx] = CancelTimer(@)]
  /\ Finish
  /\ UNCHANGED <<mac, ori, num, tab, call, tt, hist>>

\* ba_ori_session_tear_down.  On the driver's own initiative it tells the
\* peer of an established session, for which it needs memory: without any
\* it gives up.  (The status may be read with the index: only this thread
\* makes it Done.)
TearDown ==
  LET Idx == mac[mlme.sta].arr
      told == mlme.why # "peer" /\ ori[Idx].status = "Done" IN
  /\ mlme.pc = "tear"
  /\ \/ Idx = 0 /\ GoOn
     \/ Idx # 0 /\ told /\ GoOn
     \/ Idx # 0 /\ mlme' = [mlme EXCEPT !.pc = "release", !.Idx = Idx]
  /\ UNCHANGED <<mac, ori, timer, num, tab, call, tt, hist>>

TearRelease ==
  /\ mlme.pc = "release"
  /\ timer' = [timer EXCEPT ![mlme.Idx] = ReleaseTimer(@)]
  /\ MlmeAt("free")
  /\ UNCHANGED <<mac, ori, num, tab, call, tt, hist>>

TearFree ==
  /\ mlme.pc = "free"
  /\ \/ ba_free_ori_entry(mlme.Idx, "mlme") /\ UNCHANGED mlme
     \/ NothingToFree(mlme.Idx) /\ GoOn /\ UNCHANGED <<tab, hist>>
  /\ UNCHANGED <<mac, ori, timer, num, call, tt>>

\* An associated station authenticates again.
ap_peer_auth(w) ==
  /\ mac[w].used
  /\ Begin(w, "tear", "auth")
  /\ UNCHANGED <<mac, ori, timer, num, tab, call, tt, hist>>

\* Association, also that of a station already associated: the bitmap is
\* cleared, and a session asked for.
ap_assoc(w) ==
  /\ mac[w].used /\ MlmeFree
  /\ mac' = [mac EXCEPT ![w].TXBA = FALSE]
  /\ Enter(Mlme, w)
  /\ UNCHANGED <<ori, timer, num, tab, tt, mlme, hist>>

\* After the tear-down the station's index is given up.  Its mapping and
\* bitmap stay as they are.
MacTableDeleteEntry(w) ==
  /\ mac[w].used
  /\ Begin(w, "tear", "delete")
  /\ UNCHANGED <<mac, ori, timer, num, tab, call, tt, hist>>

EntryGone ==
  /\ mlme.pc = "gone"
  /\ mac' = [mac EXCEPT ![mlme.sta].used = FALSE]
  /\ Finish
  /\ UNCHANGED <<ori, timer, num, tab, call, tt, hist>>

\* MacTableResetEntry tears down what the last user of the entry left, then
\* clears the entry.
MacTableInsertEntry(w) ==
  /\ ~mac[w].used
  /\ Begin(w, "tear", "insert")
  /\ UNCHANGED <<mac, ori, timer, num, tab, call, tt, hist>>

EntryReset ==
  /\ mlme.pc = "reset"
  /\ mac' = [mac EXCEPT ![mlme.sta] =
               [used |-> TRUE, arr |-> 0, TXBA |-> FALSE]]
  /\ Stale(mac[mlme.sta].arr # 0)
  /\ Finish
  /\ UNCHANGED <<ori, timer, num, tab, call, tt>>

-----------------------------------------------------------------------------
Free ==
  \/ FreeUnmap \/ FreeLook \/ FreeCounted \/ FreeBit \/ FreeNone
  \/ FreeToken
Setup(c) ==
  \/ SetupLook(c) \/ ba_alloc_ori_entry(c) \/ Take(c) \/ SetupTest(c)
  \/ SetupMap(c) \/ SetupStatus(c) \/ SetupWcid(c) \/ SetupToken(c)
  \/ SetupArm(c) \/ SetupTimer(c)
Timeout ==
  \/ \E i \in Entries : RtmpTimerQHandle(i)
  \/ TimeoutLook \/ TimeoutTest \/ TimeoutTries \/ TimeoutAgain
  \/ TimeoutCount \/ TimeoutSet \/ TimeoutPick \/ TimeoutFree
Handler ==
  \/ AddLook \/ AddTest \/ AddDone \/ AddCount \/ AddCounted \/ AddBit
  \/ AddCancel
  \/ TearDown \/ TearRelease \/ TearFree
  \/ EntryGone \/ EntryReset
Message(w) ==
  \/ peer_addba_rsp_action(w) \/ peer_delba_action(w)
  \/ ap_peer_auth(w) \/ ap_assoc(w)
  \/ MacTableDeleteEntry(w) \/ MacTableInsertEntry(w)

Next ==
  \/ Free \/ Timeout \/ Handler
  \/ \E i \in Entries : TimerFires(i)
  \/ \E c \in Callers : Setup(c)
  \/ \E c \in Callers, w \in Stations : ExtEventBaTriggerHandler(c, w)
  \/ \E w \in Stations : Message(w)

Spec == Init /\ [][Next]_vars

\* A function that has been entered is left; timers fire.
FairSpec ==
  /\ Spec
  /\ \A c \in Callers : WF_vars(Setup(c))
  /\ \A i \in Entries : WF_vars(TimerFires(i))
  /\ WF_vars(Free) /\ WF_vars(Timeout) /\ WF_vars(Handler)

-----------------------------------------------------------------------------
(***************************************************************************)
(* Properties.                                                             *)
(***************************************************************************)
Statuses == {"NONE", "USED", "WaitRes", "Done"}
StaOrNone == Stations \cup {NoStation}
MacType == [used : BOOLEAN, arr : Idxs, TXBA : BOOLEAN]
OriType == [status : Statuses, Wcid : StaOrNone, Token : 0 .. MaxRetry]
TimerType == [Valid : BOOLEAN, armed : BOOLEAN, queued : 0 .. MaxQueued]
NumType == [as : 0 .. NumSpace - 1, done : 0 .. NumSpace - 1]
TabType == [pc : {"idle", "unmap", "look", "counted", "bit", "none",
                  "token"},
            by : {"tt", "mlme"}, Idx : Idxs, sta : StaOrNone,
            n : 0 .. NumSpace - 1]
CallType == [pc : {"idle", "look", "alloc", "take", "test", "map", "status",
                   "wcid", "token", "arm", "init", "cancel", "set"},
             sta : StaOrNone, Idx : Idxs, entry : Idxs, own : BOOLEAN]
TtType == [pc : {"idle", "look", "test", "tries", "again", "count", "set",
                 "pick", "free"},
           slot : Idxs, sta : StaOrNone, Idx : Idxs, n : 0 .. MaxRetry - 1]
MlmeType == [pc : {"idle", "add", "test", "done", "count", "counted", "bit",
                   "cancel", "tear", "release", "free", "gone", "reset"},
             sta : StaOrNone, Idx : Idxs, n : 0 .. NumSpace - 1,
             why : {"peer", "auth", "delete", "insert"}]

\* Every variable keeps its type; no retry counter passes MaxRetry.
TypeOK ==
  /\ mac \in [Stations -> MacType]
  /\ ori \in [Entries -> OriType]
  /\ timer \in [Entries -> TimerType]
  /\ num \in NumType
  /\ tab \in TabType
  /\ call \in [Callers -> CallType]
  /\ tt \in TtType
  /\ mlme \in MlmeType
  /\ hist \in [stale : BOOLEAN, below : BOOLEAN]

WithStatus(S) == {i \in Entries : ori[i].status \in S}
Taken == Entries \ FreeEntries

\* Whatever the threads did to the table, a session is refused for want of
\* room only when every entry is taken, until numAsOriginator has been taken
\* below zero: the races lose entries and revive freed ones, but never count
\* one too many.
RefusalMeansFull == ~hist.below /\ TableFull => Taken = Entries

\* As long as nobody acted on a stale look, the counters say exactly how many
\* entries are taken and how many sessions established, but for the one that
\* is just being counted: no path counts twice or forgets to, so the table
\* neither leaks nor overflows.
Uncounted(i) ==
  \/ mlme.Idx = i /\ mlme.pc \in {"count", "counted"}
  \/ tab.Idx = i /\ tab.pc \in {"bit", "none"}
CountersExact ==
  ~hist.stale =>
    /\ num.as = Cardinality(Taken)
    /\ num.done = Cardinality({i \in WithStatus({"Done"}) : ~Uncounted(i)})

\* As long as nobody acted on a stale look, the table and the stations'
\* mapping are inverse to each other, but for an entry that is just being
\* given its station or taken from it: every open session can be found by its
\* station, and only by it.
Filling(c) == call[c].pc \in {"status", "wcid"}
SessionReachable ==
  ~hist.stale =>
    /\ \A i \in WithStatus(Open) :
         \/ tab.Idx = i
         \/ \E c \in Callers : Filling(c) /\ call[c].entry = i
         \/ mac[ori[i].Wcid].arr = i
    /\ \A w \in Stations : mac[w].arr # 0 =>
         \/ ori[mac[w].arr].status \in Open /\ ori[mac[w].arr].Wcid = w
         \/ \E c \in Callers : Filling(c) /\ call[c].sta = w

\* As long as nobody acted on a stale look, TXBAbitmap marks frames for
\* aggregation only while an established session backs it
\* (cmm_data.c:2599), or is just being freed, through deletion,
\* re-authentication and timeouts.
BitmapBacked ==
  ~hist.stale => \A w \in Stations : mac[w].TXBA =>
    \/ mac[w].arr # 0 /\ ori[mac[w].arr].status = "Done"
    \/ tab.sta = w /\ tab.pc \in {"look", "counted", "bit"}

\* A session that waits for the peer's answer does not wait for ever, even
\* if the station is deleted in the middle of the set-up: the retries run
\* out and the entry is freed.
WaitingEnds ==
  \A i \in Entries :
    ori[i].status = "WaitRes" ~> ori[i].status # "WaitRes" \/ hist.stale

\* ba_action.c:141 asserts numAsOriginator != 0 before it subtracts one.
CounterNotZero == tab.pc = "none" => num.as # 0
=============================================================================
