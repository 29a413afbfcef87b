---------------------------- MODULE BaRecipient ----------------------------
(***************************************************************************)
(* The table of block-ack recipient sessions                               *)
(* (embedded/common/ba_action.c), one TID per station.  Three threads use  *)
(* an entry at once: the MLME thread, which opens, renews and ends         *)
(* sessions; an ioctl or timer thread, which ends them; and the receive    *)
(* tasklet, which puts frames into the entry's buffer, establishes the     *)
(* session with the first and ends it on a block-ack request that is not   *)
(* compressed.  BATabLock covers parts of it; the tasklet looks at an      *)
(* entry, and fills it, without the lock.                                  *)
(*                                                                         *)
(* Of the buffer only the number of frames is kept: what goes in and comes *)
(* out when, is BaReorder.                                                 *)
(***************************************************************************)
EXTENDS Integers, FiniteSets, FiniteSetsExt

CONSTANTS
  Stations,    \* indexes of the MAC table
  NoStation,   \* the Wcid of an entry never used
  TableSize,   \* MAX_LEN_OF_BA_REC_TABLE
  BAWinSize    \* the window agreed on

ASSUME RecAssumption ==
  /\ NoStation \notin Stations
  /\ TableSize \in Nat /\ TableSize > 1 /\ BAWinSize \in Nat \ {0}

Threads == {"mlme", "ioctl", "rx"}
Idxs == 0 .. TableSize - 1
Entries == Idxs \ {0}   \* index 0 means: no session

VARIABLES
  rec,   \* BARecEntry: REC_BA_Status, Wcid, number of frames in the buffer
  arr,   \* BARecWcidArray[TID] of each station
  num,   \* numAsRecipient
  sta,   \* is the station associated?
  thr,   \* where each thread is, for which station, with which entry
  hist,  \* "overlap" once two threads were at work on one station; before
         \* that "forgot" once the index of an open session was cleared
  lost   \* before any overlap a frame was not passed up, kept or released

vars == <<rec, arr, num, sta, thr, hist, lost>>

\* Idx is the local variable of ba_rec_session_add; then: where a thread
\* goes when the session is torn down.
Idle == [pc |-> "idle", sta |-> NoStation, Idx |-> 0, entry |-> 0,
         then |-> "idle"]

Init ==
  /\ rec = [i \in Entries |->
              [status |-> "NONE", Wcid |-> NoStation, kept |-> 0]]
  /\ arr = [w \in Stations |-> 0]
  /\ num = 0
  /\ sta = [w \in Stations |-> TRUE]
  /\ thr = [t \in Threads |-> Idle]
  /\ hist = "apart" /\ lost = FALSE

Busy(t) == thr[t].pc # "idle"
At(t, p) == thr[t].pc = p
Goto(t, p) == thr' = [thr EXCEPT ![t].pc = p]
Finish(t) == thr' = [thr EXCEPT ![t] = Idle]

\* Thread t begins to work on station w: place p, entry i, then q.
Begin(t, w, p, i, q) ==
  /\ ~Busy(t)
  /\ thr' = [thr EXCEPT ![t] = [pc |-> p, sta |-> w, entry |-> i, then |-> q,
                                Idx |-> IF t = "mlme" THEN i ELSE 0]]
  /\ hist' = IF \E u \in Threads \ {t} : Busy(u) /\ thr[u].sta = w
               THEN "overlap" ELSE hist

SetStatus(i, s) == rec' = [rec EXCEPT ![i].status = s]
SetKept(i, n) == rec' = [rec EXCEPT ![i].kept = n]
\* ba_refresh_reordering_mpdus: everything in the buffer goes up.
NotRefreshed(n) == n
Refreshed(n) == 0

\* BATabLock is held between the two assignments to REC_BA_Status.
Locked == At("mlme", "fill")

(***************************************************************************)
(* ba_rec_session_add, in the MLME thread.                                 *)
(***************************************************************************)
peer_addba_req_action(w) ==
  /\ sta[w]
  /\ Begin("mlme", w, IF arr[w] = 0 THEN "alloc" ELSE "refresh", arr[w], "idle")
  /\ UNCHANGED <<rec, arr, num, sta, lost>>

FreeEntries == {i \in Entries : rec[i].status = "NONE"}
FullLate == num >= TableSize
Full == num >= TableSize - 1

AllocRefused ==
  /\ At("mlme", "alloc") /\ Full
  /\ Finish("mlme")
  /\ UNCHANGED <<rec, arr, num, sta, hist, lost>>

AllocFound ==
  /\ At("mlme", "alloc") /\ ~Full /\ FreeEntries # {}
  /\ LET i == Min(FreeEntries) IN
       /\ SetStatus(i, "USED")
       /\ thr' = [thr EXCEPT !["mlme"].pc = "handle", !["mlme"].Idx = i,
                             !["mlme"].entry = i]
  /\ num' = num + 1
  /\ UNCHANGED <<arr, sta, hist, lost>>

\* The last entry looked at is returned, and Idx stays zero.
AllocNone ==
  /\ At("mlme", "alloc") /\ ~Full /\ FreeEntries = {}
  /\ thr' = [thr EXCEPT !["mlme"].pc = "handle",
                        !["mlme"].entry = TableSize - 1]
  /\ UNCHANGED <<rec, arr, num, sta, hist, lost>>

AddRefresh ==
  /\ At("mlme", "refresh")
  /\ SetKept(thr["mlme"].entry, Refreshed(rec[thr["mlme"].entry].kept))
  /\ Goto("mlme", "handle")
  /\ UNCHANGED <<arr, num, sta, hist, lost>>

AddHandle ==
  /\ At("mlme", "handle")
  /\ SetStatus(thr["mlme"].entry, "HandleRes")
  /\ Goto("mlme", "fill")
  /\ UNCHANGED <<arr, num, sta, hist, lost>>

AddFill ==
  /\ At("mlme", "fill")
  /\ rec' = [rec EXCEPT ![thr["mlme"].entry].status = "Initialization",
                        ![thr["mlme"].entry].Wcid = thr["mlme"].sta]
  /\ Goto("mlme", "map")
  /\ UNCHANGED <<arr, num, sta, hist, lost>>

AddMap ==
  /\ At("mlme", "map")
  /\ arr' = [arr EXCEPT ![thr["mlme"].sta] = thr["mlme"].Idx]
  /\ Finish("mlme")
  /\ UNCHANGED <<rec, num, sta, hist, lost>>

(***************************************************************************)
(* ba_rec_session_tear_down, in any of the threads.  BARecWcidArray is     *)
(* read on entry; without a session, or without memory for the DELBA       *)
(* (none is sent when the peer's own is handled), the function returns and *)
(* the caller goes on.                                                     *)
(***************************************************************************)
ba_rec_session_tear_down(t, w, bPassive, q) ==
  /\ \/ arr[w] # 0 /\ Begin(t, w, "empty", arr[w], q)
     \/ (arr[w] = 0 \/ ~bPassive) /\ q # "idle" /\ Begin(t, w, q, 0, "idle")
  /\ UNCHANGED <<rec, arr, num, sta, lost>>

\* The MLME thread does the same for an authentication frame, and sends a
\* DELBA then.
peer_delba_action(w) ==
  sta[w] /\ ba_rec_session_tear_down("mlme", w, TRUE, "idle")
Set_BARecTearDown_Proc(w) ==
  ba_rec_session_tear_down("ioctl", w, FALSE, "idle")
MacTableDeleteEntry(t, w) ==
  sta[w] /\ ba_rec_session_tear_down(t, w, FALSE, "gone")
MacTableInsertEntry(w) ==
  ~sta[w] /\ ba_rec_session_tear_down("mlme", w, FALSE, "reset")

TearEmpty(t) ==
  /\ At(t, "empty")
  /\ SetKept(thr[t].entry, Refreshed(rec[thr[t].entry].kept))
  /\ Goto(t, "unmap")
  /\ UNCHANGED <<arr, num, sta, hist, lost>>

TearUnmap(t) ==
  /\ At(t, "unmap") /\ ~Locked
  /\ arr' = [arr EXCEPT ![thr[t].sta] = 0]
  /\ Goto(t, "free")
  /\ UNCHANGED <<rec, num, sta, hist, lost>>

NoLess(n) == n
OneLess(n) == IF n > 0 THEN n - 1 ELSE n

\* ba_free_rec_entry, and back to the caller
TearFree(t) ==
  LET i == thr[t].entry IN
  /\ At(t, "free") /\ ~Locked
  /\ IF rec[i].status # "NONE"
       THEN /\ arr' = [arr EXCEPT ![rec[i].Wcid] = 0]
            /\ num' = OneLess(num)
            /\ SetStatus(i, "NONE")
       ELSE UNCHANGED <<rec, arr, num>>
  /\ IF thr[t].then = "idle"
       THEN Finish(t)
       ELSE thr' = [thr EXCEPT ![t] = [Idle EXCEPT !.pc = thr[t].then,
                                                   !.sta = thr[t].sta]]
  /\ UNCHANGED <<sta, hist, lost>>

EntryGone(t) ==
  /\ At(t, "gone")
  /\ sta' = [sta EXCEPT ![thr[t].sta] = FALSE]
  /\ Finish(t)
  /\ UNCHANGED <<rec, arr, num, hist, lost>>

\* MacTableResetEntry clears what the last station left; the new one is
\* taken to be associated at once.
EntryReset ==
  LET w == thr["mlme"].sta IN
  /\ At("mlme", "reset")
  /\ arr' = [arr EXCEPT ![w] = 0]
  /\ sta' = [sta EXCEPT ![w] = TRUE]
  /\ hist' = IF hist = "apart" /\ arr[w] # 0 THEN "forgot" ELSE hist
  /\ Finish("mlme")
  /\ UNCHANGED <<rec, num, lost>>

(***************************************************************************)
(* The receive tasklet.                                                    *)
(***************************************************************************)
\* A frame or a request may first let a part of the buffer go up.
PartUp(i) == \E n \in 0 .. rec[i].kept : SetKept(i, n)

\* Without a session the frame goes up at once.
ba_reorder(w) ==
  /\ sta[w] /\ arr[w] # 0
  /\ Begin("rx", w, "state", arr[w], "idle")
  /\ PartUp(arr[w])
  /\ UNCHANGED <<arr, num, sta, lost>>

\* The frame is neither passed up nor released.
FrameLost ==
  /\ At("rx", "state")
  /\ rec[thr["rx"].entry].status \in {"NONE", "USED", "HandleRes"}
  /\ SetKept(thr["rx"].entry, Refreshed(rec[thr["rx"].entry].kept))
  /\ lost' = (lost \/ hist # "overlap")
  /\ Finish("rx")
  /\ UNCHANGED <<arr, num, sta, hist>>

FrameFirst ==
  /\ At("rx", "state")
  /\ rec[thr["rx"].entry].status = "Initialization"
  /\ SetKept(thr["rx"].entry, Refreshed(rec[thr["rx"].entry].kept))
  /\ Goto("rx", "establish")
  /\ UNCHANGED <<arr, num, sta, hist, lost>>

FrameNext ==
  /\ At("rx", "state")
  /\ rec[thr["rx"].entry].status = "Established"
  /\ Goto("rx", "place")
  /\ UNCHANGED <<rec, arr, num, sta, hist, lost>>

FrameEstablish ==
  /\ At("rx", "establish")
  /\ SetStatus(thr["rx"].entry, "Established")
  /\ Goto("rx", "place")
  /\ UNCHANGED <<arr, num, sta, hist, lost>>

\* The frame goes up with a part of the buffer, is released, or is kept.
Placed(n) == 0 .. IF n < BAWinSize THEN n + 1 ELSE n
FramePlace ==
  /\ At("rx", "place")
  /\ \E n \in Placed(rec[thr["rx"].entry].kept) : SetKept(thr["rx"].entry, n)
  /\ Finish("rx")
  /\ UNCHANGED <<arr, num, sta, hist, lost>>

bar_process(w) ==
  /\ sta[w] /\ arr[w] # 0 /\ ~Busy("rx")
  /\ PartUp(arr[w])
  /\ \/ UNCHANGED <<thr, hist>>
     \/ Begin("rx", w, "empty", arr[w], "idle")
  /\ UNCHANGED <<arr, num, sta, lost>>

\* ba_timeout_monitor asks for it, the tasklet does it; that it empties the
\* buffer of an established session is BaReorder!BufferEmpties.
ba_timeout_flush(i) ==
  /\ ~Busy("rx")
  /\ rec[i].status = "Established" /\ rec[i].kept > 0
  /\ SetKept(i, 0)
  /\ UNCHANGED <<arr, num, sta, thr, hist, lost>>

Add == AllocRefused \/ AllocFound \/ AllocNone \/ AddRefresh \/ AddHandle
       \/ AddFill \/ AddMap
TearDown(t) == TearEmpty(t) \/ TearUnmap(t) \/ TearFree(t) \/ EntryGone(t)
Receive == FrameLost \/ FrameFirst \/ FrameNext \/ FrameEstablish \/ FramePlace

Next ==
  \/ \E w \in Stations :
       \/ peer_addba_req_action(w) \/ peer_delba_action(w)
       \/ Set_BARecTearDown_Proc(w) \/ MacTableInsertEntry(w)
       \/ \E t \in {"mlme", "ioctl"} : MacTableDeleteEntry(t, w)
       \/ ba_reorder(w) \/ bar_process(w)
  \/ Add \/ EntryReset \/ Receive
  \/ \E t \in Threads : TearDown(t)
  \/ \E i \in Entries : ba_timeout_flush(i)

Spec == Init /\ [][Next]_vars

-----------------------------------------------------------------------------
(***************************************************************************)
(* Properties.                                                             *)
(***************************************************************************)
Statuses == {"NONE", "USED", "HandleRes", "Initialization", "Established"}
Places == {"idle", "alloc", "refresh", "handle", "fill", "map", "empty",
           "unmap", "free", "gone", "reset", "state", "establish", "place"}
StaOrNone == Stations \cup {NoStation}
RecType == [status : Statuses, Wcid : StaOrNone, kept : 0 .. BAWinSize]
ThrType == [pc : Places, sta : StaOrNone, Idx : Idxs, entry : Idxs,
            then : {"idle", "gone", "reset"}]

\* Every variable keeps its type; no buffer holds more than its window.
TypeOK ==
  /\ rec \in [Entries -> RecType]
  /\ arr \in [Stations -> Idxs]
  /\ num \in Idxs
  /\ sta \in [Stations -> BOOLEAN]
  /\ thr \in [Threads -> ThrType]
  /\ hist \in {"apart", "forgot", "overlap"} /\ lost \in BOOLEAN

Taken == {i \in Entries : rec[i].status # "NONE"}
InHand(i) == \E t \in Threads : Busy(t) /\ thr[t].entry = i

\* As long as no two threads were at work on one station, whatever they did
\* at once to different stations: numAsRecipient counts the entries taken, a
\* station's index leads to an open session of its own, and every entry
\* taken is found by its station or still in a thread's hands, unless a
\* DELBA could not be allocated before the station's place was used again.
SessionsMatch ==
  hist # "overlap" =>
    /\ num = Cardinality(Taken)
    /\ \A w \in Stations : arr[w] # 0 =>
         /\ rec[arr[w]].status \in {"HandleRes", "Initialization", "Established"}
         /\ rec[arr[w]].Wcid = w
    /\ hist = "forgot" \/ \A i \in Taken : InHand(i) \/ arr[rec[i].Wcid] = i

\* On the same condition no frame is lost to an entry in a state that takes
\* none, and what is buffered is where the reorder timeout looks for it.
FramesSafe ==
  /\ ~lost
  /\ hist # "overlap" =>
       \A i \in Entries : rec[i].kept > 0 => rec[i].status = "Established"

\* Whatever overlaps, a session is refused for want of room only when every
\* entry is taken: the races that lose entries never count one too many.
RefusalMeansFull == Full => Taken = Entries
=============================================================================
