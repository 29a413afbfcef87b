------------------------- MODULE BaRecipient_proofs -------------------------
(***************************************************************************)
(* Proofs about BaRecipient: types, refusals, and sessions and frames as   *)
(* long as no two threads are at work on one station.                      *)
(***************************************************************************)
EXTENDS BaRecipient, Lemmas

USE RecAssumption

-----------------------------------------------------------------------------
(***************************************************************************)
(* Types.                                                                  *)
(***************************************************************************)
LEMMA RecGet ==
  ASSUME NEW r \in RecType
  PROVE  /\ r.kept \in 0 .. BAWinSize /\ r.kept \in Int /\ r.kept >= 0
         /\ r.status \in Statuses /\ r.Wcid \in StaOrNone
BY DEF RecType

LEMMA RecSets ==
  ASSUME NEW r \in RecType
  PROVE  /\ r.kept \in 0 .. BAWinSize /\ r.status \in Statuses
         /\ r.Wcid \in StaOrNone
         /\ \A s \in Statuses : [r EXCEPT !.status = s] \in RecType
         /\ \A n \in 0 .. BAWinSize : [r EXCEPT !.kept = n] \in RecType
         /\ \A s \in Statuses, w \in StaOrNone :
              [r EXCEPT !.status = s, !.Wcid = w] \in RecType
BY DEF RecType

LEMMA ThrSets ==
  ASSUME NEW r \in ThrType
  PROVE  /\ r.pc \in Places /\ r.sta \in StaOrNone /\ r.Idx \in Idxs
         /\ r.entry \in Idxs /\ r.then \in {"idle", "gone", "reset"}
         /\ \A p \in Places : [r EXCEPT !.pc = p] \in ThrType
         /\ \A p \in Places, i, j \in Idxs :
              [r EXCEPT !.pc = p, !.Idx = i, !.entry = j] \in ThrType
         /\ \A p \in Places, i \in Idxs :
              [r EXCEPT !.pc = p, !.entry = i] \in ThrType
BY DEF ThrType

LEMMA ThrNew ==
  /\ 0 \in Idxs /\ Idle \in ThrType /\ Idle.pc = "idle" /\ Idle.entry = 0
  /\ Idle.then = "idle"
  /\ \A p \in Places, w \in StaOrNone :
       [Idle EXCEPT !.pc = p, !.sta = w] \in ThrType
<1>1. 0 \in Idxs /\ Idle.pc = "idle" /\ Idle.entry = 0 /\ Idle.then = "idle"
  BY DEF Idle, Idxs
<1>2. Idle \in ThrType
  BY <1>1 DEF Idle, ThrType, Places, StaOrNone
<1> QED
  BY <1>1, <1>2 DEF ThrType

LEMMA BeginSet ==
  ASSUME NEW p \in Places, NEW w \in StaOrNone, NEW i \in Idxs, NEW j \in Idxs,
         NEW q \in {"idle", "gone", "reset"}
  PROVE  [pc |-> p, sta |-> w, entry |-> i, then |-> q, Idx |-> j] \in ThrType
BY DEF ThrType

LEMMA FreeMin ==
  FreeEntries # {} => Min(FreeEntries) \in FreeEntries
<1>1. FreeEntries \in SUBSET Nat
  BY DEF FreeEntries, Entries, Idxs
<1> QED
  BY <1>1, MinIn

\* What a step may do to one entry, and what a thread may do to its record.
LEMMA StatusSet ==
  ASSUME rec \in [Entries -> RecType], NEW i, NEW s \in Statuses, SetStatus(i, s)
  PROVE  /\ rec' \in [Entries -> RecType]
         /\ i \in Entries => rec'[i].status = s
         /\ \A j \in Entries : /\ rec'[j].Wcid = rec[j].Wcid
                               /\ rec'[j].kept = rec[j].kept
                               /\ j # i => rec'[j].status = rec[j].status
<1>1. \A j \in Entries : rec[j] \in RecType
  OBVIOUS
<1> QED
  BY <1>1, RecSets DEF SetStatus, RecType

LEMMA KeptSet ==
  ASSUME rec \in [Entries -> RecType], NEW i, NEW n, SetKept(i, n),
         i \in Entries => n \in 0 .. BAWinSize
  PROVE  /\ rec' \in [Entries -> RecType]
         /\ i \in Entries => rec'[i].kept = n
         /\ \A j \in Entries : /\ rec'[j].Wcid = rec[j].Wcid
                               /\ rec'[j].status = rec[j].status
                               /\ j # i => rec'[j].kept = rec[j].kept
<1>1. \A j \in Entries : rec[j] \in RecType
  OBVIOUS
<1> QED
  BY <1>1, RecSets DEF SetKept, RecType

\* What a thread's record is after a step of the thread.
Only(t) == /\ thr' \in [Threads -> ThrType]
           /\ \A u \in Threads \ {t} : thr'[u] = thr[u]
LEMMA GotoSet ==
  ASSUME thr \in [Threads -> ThrType], NEW t \in Threads, NEW p \in Places,
         Goto(t, p)
  PROVE  /\ Only(t) /\ thr'[t].pc = p /\ thr'[t].sta = thr[t].sta
         /\ thr'[t].entry = thr[t].entry /\ thr'[t].Idx = thr[t].Idx
         /\ thr'[t].then = thr[t].then
<1> DEFINE r == [thr[t] EXCEPT !.pc = p]
<1>1. /\ r \in ThrType /\ r.pc = p /\ r.sta = thr[t].sta
      /\ r.entry = thr[t].entry /\ r.Idx = thr[t].Idx /\ r.then = thr[t].then
  BY DEF ThrType
<1>2. thr' = [thr EXCEPT ![t] = r]
  BY DEF Goto
<1> HIDE DEF r
<1> QED
  BY <1>1, <1>2 DEF Only

LEMMA FinishSet ==
  ASSUME thr \in [Threads -> ThrType], NEW t \in Threads, Finish(t)
  PROVE  Only(t) /\ thr'[t] = Idle
BY ThrNew DEF Finish, Only

LEMMA BeginThr ==
  ASSUME thr \in [Threads -> ThrType], NEW t \in Threads, NEW w \in Stations,
         NEW p \in Places, NEW i \in Idxs, NEW q \in {"idle", "gone", "reset"},
         Begin(t, w, p, i, q), hist \in {"apart", "forgot", "overlap"}
  PROVE  /\ Only(t) /\ thr[t].pc = "idle" /\ thr'[t].pc = p /\ thr'[t].sta = w
         /\ thr'[t].entry = i /\ thr'[t].then = q
         /\ t = "mlme" => thr'[t].Idx = i
         /\ hist' \in {"apart", "forgot", "overlap"}
         /\ hist' # "overlap" =>
              /\ hist' = hist
              /\ \A u \in Threads \ {t} : Busy(u) => thr[u].sta # w
<1> DEFINE j == IF t = "mlme" THEN i ELSE 0
<1>1. j \in Idxs /\ w \in StaOrNone
  BY ThrNew DEF StaOrNone
<1> DEFINE r == [pc |-> p, sta |-> w, entry |-> i, then |-> q, Idx |-> j]
<1>2. /\ r \in ThrType /\ r.pc = p /\ r.sta = w /\ r.entry = i
      /\ r.then = q /\ (t = "mlme" => r.Idx = i)
  BY <1>1, BeginSet
<1>3. thr' = [thr EXCEPT ![t] = r]
  BY DEF Begin
<1> HIDE DEF r
<1> QED
  BY <1>2, <1>3 DEF Begin, Busy, Only

\* Which thread is at which place, and that it works for a station.
InAdd == {"alloc", "refresh", "handle", "fill", "map"}
InReorder == {"state", "establish", "place"}
PlaceOK ==
  \A t \in Threads :
    /\ Busy(t) => thr[t].sta \in Stations
    /\ thr[t].pc \in InAdd \cup {"reset"} => t = "mlme"
    /\ thr[t].then = "reset" => t = "mlme"
    /\ thr[t].pc \in InReorder => t = "rx"
TypeInv == TypeOK /\ PlaceOK

LEMMA InitTypes == Init => TypeInv
<1> SUFFICES ASSUME Init PROVE TypeInv
  OBVIOUS
<1>1. rec \in [Entries -> RecType]
  BY DEF Init, RecType, Statuses, StaOrNone
<1>2. thr \in [Threads -> ThrType]
  BY ThrNew DEF Init
<1>3. PlaceOK
  BY ThrNew DEF Init, PlaceOK, Busy, InAdd, InReorder
<1> QED
  BY <1>1, <1>2, <1>3, ThrNew DEF Init, TypeInv, TypeOK, Idxs

\* The steps that begin something.
Starts ==
  \E w \in Stations :
    \/ peer_addba_req_action(w) \/ peer_delba_action(w)
    \/ Set_BARecTearDown_Proc(w) \/ MacTableInsertEntry(w)
    \/ \E t \in {"mlme", "ioctl"} : MacTableDeleteEntry(t, w)
    \/ ba_reorder(w) \/ bar_process(w)

\* Beginning a tear-down: with an entry, or without one straight to what
\* follows.
LEMMA TearStart ==
  ASSUME TypeInv, NEW t \in Threads, NEW w \in Stations, NEW p \in BOOLEAN,
         NEW q \in {"idle", "gone", "reset"}, q = "reset" => t = "mlme",
         ba_rec_session_tear_down(t, w, p, q)
  PROVE  /\ TypeInv' /\ Only(t) /\ thr[t].pc = "idle" /\ thr'[t].sta = w
         /\ UNCHANGED <<rec, arr, num, sta, lost>>
         /\ \/ /\ thr'[t].pc = "empty" /\ thr'[t].entry = arr[w]
               /\ arr[w] # 0
            \/ thr'[t].pc \in {"gone", "reset"}
         /\ hist' # "overlap" =>
              /\ hist' = hist
              /\ \A u \in Threads \ {t} : Busy(u) => thr[u].sta # w
<1>0. /\ thr \in [Threads -> ThrType] /\ arr[w] \in Idxs
      /\ hist \in {"apart", "forgot", "overlap"}
  BY DEF TypeInv, TypeOK
<1>1. PICK a \in {"empty", q}, i \in {arr[w], 0}, b \in {"idle", q} :
        /\ Begin(t, w, a, i, b)
        /\ \/ a = "empty" /\ i = arr[w] /\ arr[w] # 0
           \/ a = q /\ q # "idle"
  BY DEF ba_rec_session_tear_down
<1>2. a \in Places /\ i \in Idxs /\ b \in {"idle", "gone", "reset"}
  BY <1>0, ThrNew DEF Places
<1>3. /\ Only(t) /\ thr[t].pc = "idle" /\ thr'[t].pc = a /\ thr'[t].sta = w
      /\ thr'[t].entry = i /\ thr'[t].then = b
      /\ hist' \in {"apart", "forgot", "overlap"}
      /\ hist' # "overlap" =>
           /\ hist' = hist
           /\ \A u \in Threads \ {t} : Busy(u) => thr[u].sta # w
  BY <1>0, <1>1, <1>2, BeginThr
<1>4. UNCHANGED <<rec, arr, num, sta, lost>>
  BY DEF ba_rec_session_tear_down
<1>5. TypeOK'
  BY <1>3, <1>4 DEF TypeInv, TypeOK, Only
<1>6. PlaceOK'
  BY <1>1, <1>3 DEF TypeInv, PlaceOK, Only, Busy, InAdd, InReorder
<1> QED
  BY <1>1, <1>3, <1>4, <1>5, <1>6 DEF TypeInv

LEMMA PartUpSet ==
  ASSUME rec \in [Entries -> RecType], NEW i \in Entries, PartUp(i)
  PROVE  \E n \in 0 .. BAWinSize : SetKept(i, n) /\ n <= rec[i].kept
<1>0. rec[i] \in RecType
  OBVIOUS
<1>1. rec[i].kept \in 0 .. BAWinSize /\ rec[i].kept \in Int
  BY <1>0, RecGet
<1> QED
  BY <1>1 DEF PartUp

LEMMA StartTypes == TypeInv /\ Starts => TypeInv'
<1> SUFFICES ASSUME TypeInv, NEW w \in Stations,
                    \/ peer_addba_req_action(w) \/ peer_delba_action(w)
                    \/ Set_BARecTearDown_Proc(w) \/ MacTableInsertEntry(w)
                    \/ \E t \in {"mlme", "ioctl"} : MacTableDeleteEntry(t, w)
                    \/ ba_reorder(w) \/ bar_process(w)
             PROVE  TypeInv'
  BY DEF Starts
<1>0. /\ thr \in [Threads -> ThrType] /\ arr[w] \in Idxs
      /\ hist \in {"apart", "forgot", "overlap"}
      /\ rec \in [Entries -> RecType] /\ {"mlme", "ioctl", "rx"} = Threads
      /\ {"idle", "alloc", "refresh", "empty", "state"} \subseteq Places
  BY DEF TypeInv, TypeOK, Threads, Places
<1>1. CASE peer_addba_req_action(w)
  <2>1. PICK a \in {"alloc", "refresh"} : Begin("mlme", w, a, arr[w], "idle")
    BY <1>1 DEF peer_addba_req_action
  <2>2. /\ Only("mlme") /\ thr'["mlme"].pc = a /\ thr'["mlme"].sta = w
        /\ thr'["mlme"].then = "idle"
        /\ hist' \in {"apart", "forgot", "overlap"}
    BY <1>0, <2>1, BeginThr
  <2>3. UNCHANGED <<rec, arr, num, sta, lost>>
    BY <1>1 DEF peer_addba_req_action
  <2> QED
    BY <2>2, <2>3
    DEF TypeInv, TypeOK, PlaceOK, Only, Busy, InAdd, InReorder
<1>2. CASE \/ peer_delba_action(w) \/ Set_BARecTearDown_Proc(w)
           \/ MacTableInsertEntry(w)
           \/ \E t \in {"mlme", "ioctl"} : MacTableDeleteEntry(t, w)
  BY <1>0, <1>2, TearStart
  DEF peer_delba_action, Set_BARecTearDown_Proc, MacTableInsertEntry,
      MacTableDeleteEntry
<1>3. CASE ba_reorder(w) \/ bar_process(w)
  <2>1. arr[w] \in Entries /\ PartUp(arr[w]) /\ UNCHANGED <<arr, num, sta, lost>>
    BY <1>0, <1>3 DEF ba_reorder, bar_process, Entries
  <2>2. rec' \in [Entries -> RecType]
    BY <1>0, <2>1, PartUpSet, KeptSet
  <2>3. CASE UNCHANGED <<thr, hist>>
    BY <2>1, <2>2, <2>3
    DEF TypeInv, TypeOK, PlaceOK, Busy, InAdd, InReorder
  <2>4. CASE \E a \in {"state", "empty"} : Begin("rx", w, a, arr[w], "idle")
    <3>1. PICK a \in {"state", "empty"} : Begin("rx", w, a, arr[w], "idle")
      BY <2>4
    <3>2. /\ Only("rx") /\ thr'["rx"].pc = a /\ thr'["rx"].sta = w
          /\ thr'["rx"].then = "idle"
          /\ hist' \in {"apart", "forgot", "overlap"}
      BY <1>0, <3>1, BeginThr
    <3> QED
      BY <2>1, <2>2, <3>2
      DEF TypeInv, TypeOK, PlaceOK, Only, Busy, InAdd, InReorder
  <2> QED
    BY <1>3, <2>3, <2>4 DEF ba_reorder, bar_process
<1> QED
  BY <1>1, <1>2, <1>3

LEMMA AddTypes == TypeInv /\ Add => TypeInv'
<1> SUFFICES ASSUME TypeInv, Add PROVE TypeInv'
  OBVIOUS
<1> DEFINE t == "mlme"
           e == thr[t].entry
<1>0. /\ thr \in [Threads -> ThrType] /\ arr \in [Stations -> Idxs]
      /\ rec \in [Entries -> RecType] /\ t \in Threads /\ thr[t] \in ThrType
      /\ num \in Idxs /\ num \in Int /\ TableSize \in Int
      /\ {"handle", "fill", "map"} \subseteq Places
      /\ {"USED", "HandleRes", "Initialization"} \subseteq Statuses
  BY DEF TypeInv, TypeOK, Threads, Places, Statuses, Idxs
<1>1. CASE AllocRefused
  <2>1. Only(t) /\ thr'[t] = Idle
    BY <1>0, <1>1, FinishSet DEF AllocRefused
  <2> QED
    BY <1>1, <2>1, ThrNew
    DEF AllocRefused, TypeInv, TypeOK, PlaceOK, Only, Busy, InAdd, InReorder
<1>2. CASE AllocFound
  <2> DEFINE i == Min(FreeEntries)
  <2>1. i \in Entries /\ i \in Idxs
    BY <1>2, FreeMin DEF AllocFound, FreeEntries, Entries
  <2>2. /\ SetStatus(i, "USED") /\ num' = num + 1
        /\ UNCHANGED <<arr, sta, hist, lost>> /\ thr[t].pc = "alloc"
        /\ num < TableSize - 1
    BY <1>0, <1>2 DEF AllocFound, At, Full
  <2>6. thr' = [thr EXCEPT !["mlme"].pc = "handle", !["mlme"].Idx = i,
                           !["mlme"].entry = i]
    BY <1>2 DEF AllocFound
  <2> HIDE DEF i
  <2>3. /\ Only(t) /\ thr'[t].pc = "handle" /\ thr'[t].sta = thr[t].sta
        /\ thr'[t].then = thr[t].then
    BY <1>0, <2>1, <2>6 DEF Only, ThrType
  <2>4. rec' \in [Entries -> RecType]
    BY <1>0, <2>2, StatusSet
  <2>5. num' \in Idxs
    BY <1>0, <2>2 DEF Idxs
  <2> QED
    BY <2>2, <2>3, <2>4, <2>5
    DEF TypeInv, TypeOK, PlaceOK, Only, Busy, InAdd, InReorder
<1>3. CASE AllocNone
  <2>1. /\ thr' = [thr EXCEPT ![t] = [thr[t] EXCEPT !.pc = "handle",
                                                    !.entry = TableSize - 1]]
        /\ UNCHANGED <<rec, arr, num, sta, hist, lost>> /\ thr[t].pc = "alloc"
    BY <1>0, <1>3 DEF AllocNone, At
  <2>2. TableSize - 1 \in Idxs
    BY DEF Idxs
  <2>3. /\ Only(t) /\ thr'[t].pc = "handle" /\ thr'[t].sta = thr[t].sta
        /\ thr'[t].then = thr[t].then
    <3> DEFINE q == [thr[t] EXCEPT !.pc = "handle", !.entry = TableSize - 1]
    <3>1. /\ q \in ThrType /\ q.pc = "handle" /\ q.sta = thr[t].sta
          /\ q.then = thr[t].then
      BY <1>0, <2>2 DEF ThrType
    <3> HIDE DEF q
    <3>2. thr' = [thr EXCEPT ![t] = q]
      BY <2>1 DEF q
    <3> QED
      BY <1>0, <3>1, <3>2 DEF Only
  <2> QED
    BY <2>1, <2>3
    DEF TypeInv, TypeOK, PlaceOK, Only, Busy, InAdd, InReorder
<1>4. CASE AddRefresh \/ AddHandle
  <2>1. PICK p \in {"handle", "fill"} : Goto(t, p)
    BY <1>4 DEF AddRefresh, AddHandle
  <2>2. /\ Only(t) /\ thr'[t].pc = p /\ thr'[t].sta = thr[t].sta
        /\ thr'[t].then = thr[t].then
    BY <1>0, <2>1, GotoSet
  <2>3. thr[t].pc \in {"refresh", "handle"} /\ UNCHANGED <<arr, num, sta, hist, lost>>
    BY <1>4 DEF AddRefresh, AddHandle, At
  <2>4. rec' \in [Entries -> RecType]
    <3>1. CASE AddRefresh
      BY <1>0, <3>1, KeptSet DEF AddRefresh, Refreshed
    <3>2. CASE AddHandle
      BY <1>0, <3>2, StatusSet DEF AddHandle
    <3> QED
      BY <1>4, <3>1, <3>2
  <2> QED
    BY <2>2, <2>3, <2>4
    DEF TypeInv, TypeOK, PlaceOK, Only, Busy, InAdd, InReorder
<1>5. CASE AddFill
  <2>1. /\ Goto(t, "map") /\ thr[t].pc = "fill" /\ UNCHANGED <<arr, num, sta, hist, lost>>
        /\ rec' = [rec EXCEPT ![e] = [rec[e] EXCEPT !.status = "Initialization",
                                                    !.Wcid = thr[t].sta]]
    BY <1>0, <1>5 DEF AddFill, At
  <2>2. /\ Only(t) /\ thr'[t].pc = "map" /\ thr'[t].sta = thr[t].sta
        /\ thr'[t].then = thr[t].then
    BY <1>0, <2>1, GotoSet
  <2>3. rec' \in [Entries -> RecType]
    <3>1. thr[t].sta \in StaOrNone
      BY <1>0, ThrSets
    <3>2. e \in Entries => rec[e] \in RecType
      BY <1>0
    <3> HIDE DEF e, t
    <3> QED
      BY <1>0, <2>1, <3>1, <3>2, RecSets
  <2> QED
    BY <2>1, <2>2, <2>3
    DEF TypeInv, TypeOK, PlaceOK, Only, Busy, InAdd, InReorder
<1>6. CASE AddMap
  <2>1. Only(t) /\ thr'[t] = Idle
    BY <1>0, <1>6, FinishSet DEF AddMap
  <2>2. arr' \in [Stations -> Idxs] /\ UNCHANGED <<rec, num, sta, hist, lost>>
    BY <1>0, <1>6, ThrSets DEF AddMap
  <2> QED
    BY <2>1, <2>2, ThrNew
    DEF TypeInv, TypeOK, PlaceOK, Only, Busy, InAdd, InReorder
<1> QED
  BY <1>1, <1>2, <1>3, <1>4, <1>5, <1>6 DEF Add

LEMMA TearTypes ==
  ASSUME TypeInv, NEW t \in Threads, TearDown(t)
  PROVE  TypeInv'
<1> DEFINE i == thr[t].entry
<1>0. /\ thr \in [Threads -> ThrType] /\ arr \in [Stations -> Idxs]
      /\ rec \in [Entries -> RecType] /\ thr[t] \in ThrType
      /\ num \in Idxs /\ sta \in [Stations -> BOOLEAN] /\ 0 \in Idxs
      /\ {"unmap", "free", "gone", "reset"} \subseteq Places
      /\ "NONE" \in Statuses
  BY ThrNew DEF TypeInv, TypeOK, Places, Statuses
<1>1. CASE TearEmpty(t) \/ TearUnmap(t)
  <2>1. PICK p \in {"unmap", "free"} : Goto(t, p)
    BY <1>1 DEF TearEmpty, TearUnmap
  <2>2. /\ Only(t) /\ thr'[t].pc = p /\ thr'[t].sta = thr[t].sta
        /\ thr'[t].then = thr[t].then
    BY <1>0, <2>1, GotoSet
  <2>3. thr[t].pc \in {"empty", "unmap"} /\ UNCHANGED <<num, sta, hist, lost>>
    BY <1>1 DEF TearEmpty, TearUnmap, At
  <2>4. rec' \in [Entries -> RecType] /\ arr' \in [Stations -> Idxs]
    BY <1>0, <1>1, KeptSet DEF TearEmpty, TearUnmap, Refreshed
  <2> QED
    BY <2>2, <2>3, <2>4
    DEF TypeInv, TypeOK, PlaceOK, Only, Busy, InAdd, InReorder
<1>2. CASE TearFree(t)
  <2>1. rec' \in [Entries -> RecType] /\ arr' \in [Stations -> Idxs] /\ num' \in Idxs
    <3>1. CASE /\ arr' = [arr EXCEPT ![rec[i].Wcid] = 0] /\ num' = OneLess(num)
               /\ SetStatus(i, "NONE")
      <4>1. rec' \in [Entries -> RecType]
        BY <1>0, <3>1, StatusSet
      <4>2. num' \in Idxs
        BY <1>0, <3>1 DEF OneLess, Idxs
      <4> QED
        BY <1>0, <3>1, <4>1, <4>2
    <3>2. CASE UNCHANGED <<rec, arr, num>>
      BY <1>0, <3>2
    <3> QED
      BY <1>2, <3>1, <3>2 DEF TearFree
  <2>2. /\ Only(t) /\ thr'[t].pc = thr[t].then /\ thr'[t].then = "idle"
        /\ thr'[t].pc # "idle" => thr'[t].sta = thr[t].sta
        /\ thr[t].then \in {"idle", "gone", "reset"}
    <3> DEFINE q == [Idle EXCEPT !.pc = thr[t].then, !.sta = thr[t].sta]
    <3>1. thr[t].then \in {"idle", "gone", "reset"} /\ thr[t].sta \in StaOrNone
      BY <1>0, ThrSets
    <3>2. /\ q \in ThrType /\ q.pc = thr[t].then /\ q.then = "idle"
          /\ q.sta = thr[t].sta
      BY <1>0, <3>1, ThrNew DEF Idle, Places
    <3> HIDE DEF q
    <3>3. CASE thr[t].then = "idle"
      <4>1. Finish(t)
        BY <1>2, <3>3 DEF TearFree
      <4> QED
        BY <1>0, <3>3, <4>1, FinishSet, ThrNew
    <3>4. CASE thr[t].then # "idle"
      <4>1. thr' = [thr EXCEPT ![t] = q]
        BY <1>2, <3>4 DEF TearFree, q
      <4> QED
        BY <1>0, <3>1, <3>2, <4>1 DEF Only
    <3> QED
      BY <3>3, <3>4
  <2>3. UNCHANGED <<sta, hist, lost>> /\ thr[t].pc = "free"
    BY <1>2 DEF TearFree, At
  <2> QED
    BY <2>1, <2>2, <2>3
    DEF TypeInv, TypeOK, PlaceOK, Only, Busy, InAdd, InReorder
<1>3. CASE EntryGone(t)
  <2>1. Only(t) /\ thr'[t] = Idle
    BY <1>0, <1>3, FinishSet DEF EntryGone
  <2> QED
    BY <1>0, <1>3, <2>1, ThrNew
    DEF EntryGone, TypeInv, TypeOK, PlaceOK, Only, Busy, InAdd, InReorder
<1> QED
  BY <1>1, <1>2, <1>3 DEF TearDown

LEMMA EntryResetTypes == TypeInv /\ EntryReset => TypeInv'
<1> SUFFICES ASSUME TypeInv, EntryReset PROVE TypeInv'
  OBVIOUS
<1>0. /\ thr \in [Threads -> ThrType] /\ arr \in [Stations -> Idxs]
      /\ sta \in [Stations -> BOOLEAN] /\ 0 \in Idxs
      /\ hist \in {"apart", "forgot", "overlap"} /\ "mlme" \in Threads
  BY ThrNew DEF TypeInv, TypeOK, Threads
<1>1. Only("mlme") /\ thr'["mlme"] = Idle
  BY <1>0, FinishSet DEF EntryReset
<1>2. /\ arr' \in [Stations -> Idxs] /\ sta' \in [Stations -> BOOLEAN]
      /\ hist' \in {"apart", "forgot", "overlap"} /\ UNCHANGED <<rec, num, lost>>
  BY <1>0 DEF EntryReset
<1> QED
  BY <1>1, <1>2, ThrNew
  DEF TypeInv, TypeOK, PlaceOK, Only, Busy, InAdd, InReorder

LEMMA PlacedSet ==
  ASSUME NEW k \in 0 .. BAWinSize
  PROVE  Placed(k) \subseteq 0 .. BAWinSize
BY DEF Placed

LEMMA ReceiveTypes == TypeInv /\ Receive => TypeInv'
<1> SUFFICES ASSUME TypeInv, Receive PROVE TypeInv'
  OBVIOUS
<1> DEFINE t == "rx"
           i == thr[t].entry
<1>0. /\ thr \in [Threads -> ThrType] /\ rec \in [Entries -> RecType]
      /\ t \in Threads /\ {"establish", "place"} \subseteq Places
      /\ "Established" \in Statuses /\ lost \in BOOLEAN /\ 0 \in 0 .. BAWinSize
  BY DEF TypeInv, TypeOK, Threads, Places, Statuses
<1>1. /\ UNCHANGED <<arr, num, sta, hist>> /\ lost' \in BOOLEAN
      /\ thr[t].pc \in InReorder
  BY <1>0 DEF Receive, FrameLost, FrameFirst, FrameNext, FrameEstablish,
              FramePlace, At, InReorder
<1>2. rec' \in [Entries -> RecType]
  <2>1. CASE SetKept(i, 0)
    BY <1>0, <2>1, KeptSet
  <2>2. CASE SetStatus(i, "Established")
    BY <1>0, <2>2, StatusSet
  <2>3. CASE FramePlace
    <3>1. PICK n \in Placed(rec[i].kept) : SetKept(i, n)
      BY <2>3 DEF FramePlace
    <3>2. i \in Entries => n \in 0 .. BAWinSize
      BY <1>0, <3>1, PlacedSet, RecGet
    <3> QED
      BY <1>0, <3>1, <3>2, KeptSet
  <2>4. CASE rec' = rec
    BY <1>0, <2>4
  <2> QED
    BY <2>1, <2>2, <2>3, <2>4
    DEF Receive, FrameLost, FrameFirst, FrameNext, FrameEstablish, Refreshed
<1>3. CASE Finish(t)
  <2>1. Only(t) /\ thr'[t] = Idle
    BY <1>0, <1>3, FinishSet
  <2> QED
    BY <1>1, <1>2, <2>1, ThrNew
    DEF TypeInv, TypeOK, PlaceOK, Only, Busy, InAdd, InReorder
<1>4. CASE \E p \in {"establish", "place"} : Goto(t, p)
  <2>1. PICK p \in {"establish", "place"} : Goto(t, p)
    BY <1>4
  <2>2. /\ Only(t) /\ thr'[t].pc = p /\ thr'[t].sta = thr[t].sta
        /\ thr'[t].then = thr[t].then
    BY <1>0, <2>1, GotoSet
  <2> QED
    BY <1>1, <1>2, <2>2
    DEF TypeInv, TypeOK, PlaceOK, Only, Busy, InAdd, InReorder
<1> QED
  BY <1>3, <1>4
  DEF Receive, FrameLost, FrameFirst, FrameNext, FrameEstablish, FramePlace

LEMMA FlushTypes ==
  ASSUME TypeInv, NEW i \in Entries, ba_timeout_flush(i)
  PROVE  TypeInv'
<1>1. rec \in [Entries -> RecType] /\ 0 \in 0 .. BAWinSize
  BY DEF TypeInv, TypeOK
<1>2. rec' \in [Entries -> RecType]
  BY <1>1, KeptSet DEF ba_timeout_flush
<1> QED
  BY <1>2
  DEF ba_timeout_flush, TypeInv, TypeOK, PlaceOK, Busy, InAdd, InReorder

\* Next, as the sum of the groups above.
LEMMA NextIs ==
  Next <=> \/ Starts \/ Add \/ EntryReset \/ Receive
           \/ \E t \in Threads : TearDown(t)
           \/ \E i \in Entries : ba_timeout_flush(i)
BY DEF Next, Starts

LEMMA StepTypes == TypeInv /\ [Next]_vars => TypeInv'
<1> SUFFICES ASSUME TypeInv, [Next]_vars PROVE TypeInv'
  OBVIOUS
<1>1. CASE UNCHANGED vars
  BY <1>1 DEF vars, TypeInv, TypeOK, PlaceOK, Busy, InAdd, InReorder
<1>2. CASE Next
  BY <1>2, NextIs, StartTypes, AddTypes, EntryResetTypes, ReceiveTypes,
     TearTypes, FlushTypes
<1> QED
  BY <1>1, <1>2

\* TypeOK, for every number of stations, entries and frames: in particular
\* numAsRecipient stays below the table's size and no buffer holds more than
\* its window.
THEOREM RecTypeCorrect == Spec => []TypeOK
<1>1. Init => TypeInv
  BY InitTypes
<1>2. TypeInv /\ [Next]_vars => TypeInv'
  BY StepTypes
<1>3. TypeInv => TypeOK
  BY DEF TypeInv
<1> QED
  BY <1>1, <1>2, <1>3, PTL DEF Spec

-----------------------------------------------------------------------------
(***************************************************************************)
(* Refusals.  An entry may be taken without being counted (when the        *)
(* tasklet revives one that was freed), but not counted without being      *)
(* taken: numAsRecipient never exceeds the number of entries taken.        *)
(***************************************************************************)
Few == num <= Cardinality(Taken)

LEMMA SomeEntries ==
  ASSUME NEW S \in SUBSET Entries
  PROVE  /\ Cardinality(S) \in Nat
         /\ Cardinality(S) >= TableSize - 1 => S = Entries
         /\ \A T \in SUBSET Entries : S \subseteq T => Cardinality(S) <= Cardinality(T)
         /\ \A i \in Entries \ S : Cardinality(S \cup {i}) = Cardinality(S) + 1
         /\ \A i \in S : Cardinality(S \ {i}) = Cardinality(S) - 1
<1>1. IsFiniteSet(Entries) /\ Cardinality(Entries) = TableSize - 1
  <2>1. Entries = 1 .. TableSize - 1
    BY DEF Entries, Idxs
  <2>2. /\ 1 \in Int /\ TableSize - 1 \in Int
        /\ 1 =< TableSize - 1 /\ (TableSize - 1) - 1 + 1 = TableSize - 1
    OBVIOUS
  <2> QED
    BY <2>1, <2>2, FS_Interval
<1>2. \A T \in SUBSET Entries : IsFiniteSet(T) /\ Cardinality(T) \in Nat
  BY <1>1, FS_Subset, FS_CardinalityType
<1>3. \A T \in SUBSET Entries : S \subseteq T => Cardinality(S) <= Cardinality(T)
  BY <1>2, FS_Subset
<1>4. Cardinality(S) >= TableSize - 1 => S = Entries
  BY <1>1, <1>2, FS_Subset
<1>5. \A i \in Entries \ S : Cardinality(S \cup {i}) = Cardinality(S) + 1
  BY <1>2, FS_AddElement
<1>6. \A i \in S : Cardinality(S \ {i}) = Cardinality(S) - 1
  BY <1>2, FS_RemoveElement
<1> QED
  BY <1>2, <1>3, <1>4, <1>5, <1>6

\* A step that frees no entry and does not count keeps it.
LEMMA StayFew ==
  ASSUME Few, num' = num, num \in Int,
         \A i \in Entries : rec[i].status # "NONE" => rec'[i].status # "NONE"
  PROVE  Few'
<1>1. Taken \in SUBSET Entries /\ Taken' \in SUBSET Entries /\ Taken \subseteq Taken'
  BY DEF Taken
<1>2. /\ Cardinality(Taken) \in Nat /\ Cardinality(Taken') \in Nat
      /\ Cardinality(Taken) <= Cardinality(Taken')
  BY <1>1, SomeEntries
<1> QED
  BY <1>2 DEF Few

LEMMA FoundFew == TypeInv /\ Few /\ AllocFound => Few'
<1> SUFFICES ASSUME TypeInv, Few, AllocFound PROVE Few'
  OBVIOUS
<1> DEFINE i == Min(FreeEntries)
<1>0. rec \in [Entries -> RecType] /\ num \in Int /\ "USED" \in Statuses
  BY DEF TypeInv, TypeOK, Idxs, Statuses
<1>1. i \in Entries /\ rec[i].status = "NONE"
  BY FreeMin DEF AllocFound, FreeEntries
<1>2. SetStatus(i, "USED") /\ num' = num + 1
  BY DEF AllocFound
<1> HIDE DEF i
<1>3. /\ rec'[i].status = "USED"
      /\ \A j \in Entries : j # i => rec'[j].status = rec[j].status
  BY <1>0, <1>1, <1>2, StatusSet
<1>4. Taken' = Taken \cup {i} /\ i \in Entries \ Taken /\ Taken \in SUBSET Entries
  BY <1>1, <1>3 DEF Taken
<1>5. /\ Cardinality(Taken) \in Nat
      /\ Cardinality(Taken') = Cardinality(Taken) + 1
  BY <1>4, SomeEntries
<1> QED
  BY <1>0, <1>2, <1>5 DEF Few

LEMMA FreeFew ==
  ASSUME TypeInv, Few, NEW t \in Threads, TearFree(t)
  PROVE  Few'
<1> DEFINE i == thr[t].entry
<1>0. rec \in [Entries -> RecType] /\ num \in Int /\ num >= 0 /\ "NONE" \in Statuses
  BY DEF TypeInv, TypeOK, Idxs, Statuses
<1>1. CASE rec[i].status = "NONE"
  BY <1>0, <1>1, StayFew DEF TearFree
<1>2. CASE rec[i].status # "NONE"
  <2>1. num' = OneLess(num) /\ SetStatus(i, "NONE")
    BY <1>2 DEF TearFree
  <2>2. \A j \in Entries : j # i => rec'[j].status = rec[j].status
    BY <1>0, <2>1, StatusSet
  <2>3. i \in Entries => rec'[i].status = "NONE"
    BY <1>0, <2>1, StatusSet
  <2> HIDE DEF i
  <2>4. Taken \in SUBSET Entries /\ Taken' = Taken \ {i}
    BY <2>2, <2>3 DEF Taken
  <2>5. i \in Taken => Cardinality(Taken') = Cardinality(Taken) - 1
    BY <2>4, SomeEntries
  <2>6. i \notin Taken => Taken' = Taken
    BY <2>4
  <2>7. Cardinality(Taken) \in Nat /\ Cardinality(Taken') \in Nat
    BY <2>4, SomeEntries
  <2> QED
    BY <1>0, <2>1, <2>5, <2>6, <2>7 DEF Few, OneLess
<1> QED
  BY <1>1, <1>2

\* Of the other steps none frees an entry, and none counts.
LEMMA OtherFew ==
  ASSUME TypeInv, Few, Next, ~AllocFound, \A t \in Threads : ~TearFree(t)
  PROVE  Few'
<1>0. /\ rec \in [Entries -> RecType] /\ num \in Int
      /\ {"HandleRes", "Established", "Initialization"} \subseteq Statuses
      /\ arr \in [Stations -> Idxs] /\ 0 \in 0 .. BAWinSize
  BY DEF TypeInv, TypeOK, Idxs, Statuses
<1>1. num' = num
  BY NextIs
  DEF Starts, peer_addba_req_action, peer_delba_action, Set_BARecTearDown_Proc,
      MacTableInsertEntry, MacTableDeleteEntry, ba_rec_session_tear_down,
      ba_reorder, bar_process, Add, AllocRefused, AllocNone, AddRefresh,
      AddHandle, AddFill, AddMap, EntryReset, Receive, FrameLost, FrameFirst,
      FrameNext, FrameEstablish, FramePlace, TearDown, TearEmpty, TearUnmap,
      EntryGone, ba_timeout_flush
<1>2. CASE rec' = rec
  BY <1>0, <1>1, <1>2, StayFew
<1>3. CASE \E i \in Idxs, n \in 0 .. BAWinSize : SetKept(i, n)
  BY <1>0, <1>1, <1>3, KeptSet, StayFew
<1>4. CASE \E i \in Idxs, s \in {"HandleRes", "Established"} : SetStatus(i, s)
  BY <1>0, <1>1, <1>4, StatusSet, StayFew
<1>5. CASE AddFill
  <2> DEFINE e == thr["mlme"].entry
  <2>1. \A j \in Entries : rec'[j].status \in {rec[j].status, "Initialization"}
    BY <1>0, <1>5, RecSets DEF AddFill, RecType
  <2> QED
    BY <1>0, <1>1, <2>1, StayFew
<1>6. CASE Starts
  <2>1. PICK w \in Stations : rec' = rec \/ (arr[w] # 0 /\ PartUp(arr[w]))
    BY <1>6
    DEF Starts, peer_addba_req_action, peer_delba_action, Set_BARecTearDown_Proc,
        MacTableInsertEntry, MacTableDeleteEntry, ba_rec_session_tear_down,
        ba_reorder, bar_process
  <2>2. arr[w] # 0 => arr[w] \in Entries
    BY <1>0 DEF Entries
  <2> QED
    BY <1>0, <1>2, <1>3, <2>1, <2>2, PartUpSet DEF Entries
<1>7. CASE FramePlace
  <2> DEFINE i == thr["rx"].entry
  <2>1. PICK n \in Placed(rec[i].kept) : SetKept(i, n)
    BY <1>7 DEF FramePlace
  <2>2. i \in Entries => n \in 0 .. BAWinSize
    BY <1>0, <2>1, PlacedSet, RecGet
  <2> QED
    BY <1>0, <1>1, <2>1, <2>2, KeptSet, StayFew
<1>8. CASE \/ Add /\ ~AddFill
           \/ EntryReset
           \/ Receive /\ ~FramePlace
           \/ \E t \in Threads : TearDown(t)
           \/ \E i \in Entries : ba_timeout_flush(i)
  <2>0. /\ thr \in [Threads -> ThrType]
        /\ Threads = {"mlme", "ioctl", "rx"} /\ Entries \subseteq Idxs
    BY DEF TypeInv, TypeOK, Threads, Entries
  <2>1. \A t \in Threads : thr[t].entry \in Idxs
    BY <2>0, ThrSets
  <2>2. \/ rec' = rec
        \/ \E i \in Idxs : SetKept(i, 0)
        \/ \E i \in Idxs, s \in {"HandleRes", "Established"} : SetStatus(i, s)
    BY <1>8, <2>0, <2>1
    DEF Add, AllocRefused, AllocNone, AddRefresh, AddHandle, AddMap, EntryReset,
        Receive, FrameLost, FrameFirst, FrameNext, FrameEstablish, TearDown,
        TearEmpty, TearUnmap, EntryGone, ba_timeout_flush, Refreshed
  <2> QED
    BY <1>0, <1>2, <1>3, <1>4, <2>2
<1> QED
  BY <1>5, <1>6, <1>7, <1>8, NextIs

LEMMA StepFew == TypeInv /\ Few /\ [Next]_vars => Few'
<1> SUFFICES ASSUME TypeInv, Few, [Next]_vars PROVE Few'
  OBVIOUS
<1>1. CASE UNCHANGED vars
  BY <1>1 DEF vars, Few, Taken
<1>2. CASE Next
  BY <1>2, FoundFew, FreeFew, OtherFew
<1> QED
  BY <1>1, <1>2

\* RefusalMeansFull, for every number of stations and entries: a session is
\* refused for want of room only when every entry is taken, whatever the
\* threads did to the table before.
THEOREM RecRefusalMeansFull == Spec => []RefusalMeansFull
<1>1. Init => TypeInv /\ Few
  <2> SUFFICES ASSUME Init PROVE Few
    BY InitTypes
  <2>1. Taken \in SUBSET Entries /\ num = 0
    BY DEF Init, Taken
  <2> QED
    BY <2>1, SomeEntries DEF Few
<1>2. TypeInv /\ Few /\ [Next]_vars => (TypeInv /\ Few)'
  BY StepTypes, StepFew
<1>3. TypeInv /\ Few => RefusalMeansFull
  <2> SUFFICES ASSUME TypeInv, Few, Full PROVE Taken = Entries
    BY DEF RefusalMeansFull
  <2>1. Taken \in SUBSET Entries /\ num \in Int /\ num >= TableSize - 1
    BY DEF TypeInv, TypeOK, Idxs, Full, Taken
  <2>2. Cardinality(Taken) \in Nat /\ num <= Cardinality(Taken)
    BY <2>1, SomeEntries DEF Few
  <2> QED
    BY <2>1, <2>2, SomeEntries
<1> QED
  BY <1>1, <1>2, <1>3, PTL DEF Spec

-----------------------------------------------------------------------------
(***************************************************************************)
(* Sessions and frames, as long as no two threads were at work on one      *)
(* station.  Then an entry is in at most one thread's hands, and a step of *)
(* a thread leaves the entries and stations of the others alone.           *)
(***************************************************************************)
\* Where a thread has an entry in hand; where it is the one its station's
\* index leads to; where it is taken and no other station's index leads to
\* it; where its buffer is empty.
Mapped == {"refresh", "empty", "unmap", "state", "establish", "place"}
Opening == {"handle", "fill", "map"}
Holding == Mapped \cup Opening \cup {"free"}
Emptied == Opening \cup {"unmap", "free", "establish"}

CountOK == num = Cardinality(Taken)
Apart ==
  \A t, u \in Threads :
    t # u /\ Busy(t) /\ Busy(u) => thr[t].sta # thr[u].sta
OneHand ==
  \A t, u \in Threads :
    t # u /\ thr[t].pc \in Holding /\ thr[u].pc \in Holding
      => thr[t].entry # thr[u].entry

\* The entry a station's index leads to.
Renewed(w) == At("mlme", "fill") /\ thr["mlme"].sta = w
MapAt(w) ==
  arr[w] # 0 =>
    /\ rec[arr[w]].Wcid = w
    /\ \/ rec[arr[w]].status \in {"Initialization", "Established"}
       \/ rec[arr[w]].status = "HandleRes" /\ Renewed(w)

\* What a thread knows of its entry.
HandOK(t) ==
  /\ thr[t].pc \in Mapped =>
       thr[t].entry \in Entries /\ arr[thr[t].sta] = thr[t].entry
  /\ thr[t].pc = "free" =>
       /\ thr[t].entry \in Taken /\ arr[thr[t].sta] = 0
       /\ rec[thr[t].entry].Wcid = thr[t].sta
  /\ thr[t].pc \in Opening =>
       /\ thr[t].entry \in Taken /\ thr[t].Idx = thr[t].entry
       /\ arr[thr[t].sta] \in {0, thr[t].entry}
       /\ \A w \in Stations : arr[w] = thr[t].entry => w = thr[t].sta
  /\ thr[t].pc = "alloc" => arr[thr[t].sta] = 0
  /\ thr[t].pc = "refresh" => thr[t].Idx = thr[t].entry
  /\ thr[t].pc = "fill" => rec[thr[t].entry].status = "HandleRes"
  /\ thr[t].pc = "map" =>
       /\ rec[thr[t].entry].Wcid = thr[t].sta
       /\ rec[thr[t].entry].status = "Initialization"
  /\ thr[t].pc = "establish" => rec[thr[t].entry].status = "Initialization"
  /\ thr[t].pc = "place" => rec[thr[t].entry].status = "Established"

\* An entry taken is found, a buffer filled is one of an open session.
FoundAt(i) ==
  \/ \E t \in Threads : thr[t].pc \in Holding /\ thr[t].entry = i
  \/ rec[i].Wcid \in Stations /\ arr[rec[i].Wcid] = i
KeptAt(i) == rec[i].kept > 0 => rec[i].status = "Established"
KeptIn(t) == thr[t].pc \in Emptied => rec[thr[t].entry].kept = 0

Separate ==
  /\ CountOK /\ Apart /\ OneHand
  /\ \A w \in Stations : MapAt(w)
  /\ \A t \in Threads : HandOK(t) /\ KeptIn(t)
  /\ hist = "forgot" \/ \A i \in Taken : FoundAt(i)
  /\ \A i \in Entries : KeptAt(i)

\* A thread's entry is one of the table and taken, and no other station's
\* index leads to it.
LEMMA Own ==
  ASSUME TypeInv, Separate, NEW u \in Threads, thr[u].pc \in Holding
  PROVE  /\ thr[u].entry \in Taken /\ thr[u].entry \in Entries
         /\ Busy(u) /\ thr[u].sta \in Stations
         /\ \A w \in Stations : arr[w] = thr[u].entry => w = thr[u].sta
<1>1. Busy(u) /\ thr[u].sta \in Stations
  BY DEF Holding, Mapped, Opening, Busy, TypeInv, PlaceOK
<1>2. CASE thr[u].pc \in Mapped
  <2>1. thr[u].entry \in Entries /\ arr[thr[u].sta] = thr[u].entry
    BY <1>2 DEF Separate, HandOK
  <2>2. /\ thr[u].entry # 0 /\ rec[thr[u].entry].Wcid = thr[u].sta
        /\ rec[thr[u].entry].status # "NONE"
    BY <1>1, <2>1 DEF Entries, Separate, MapAt
  <2>3. \A w \in Stations : arr[w] = thr[u].entry => w = thr[u].sta
    BY <2>2 DEF Separate, MapAt
  <2> QED
    BY <1>1, <2>1, <2>2, <2>3 DEF Taken
<1>3. CASE thr[u].pc = "free"
  <2>1. thr[u].entry \in Taken /\ rec[thr[u].entry].Wcid = thr[u].sta
    BY <1>3 DEF Separate, HandOK
  <2>2. thr[u].entry \in Entries /\ thr[u].entry # 0
    BY <2>1 DEF Taken, Entries
  <2> QED
    BY <1>1, <2>1, <2>2 DEF Separate, MapAt
<1>4. CASE thr[u].pc \in Opening
  BY <1>1, <1>4 DEF Separate, HandOK, Taken
<1> QED
  BY <1>2, <1>3, <1>4 DEF Holding

\* A step of thread t for station s with entry e (none if it is 0): what it
\* leaves alone keeps its part of the invariant, what is left is stated of
\* t, s and e.
LEMMA Step ==
  ASSUME TypeInv, Separate, NEW t \in Threads, NEW s \in Stations, NEW e \in Idxs,
         Only(t), Busy(t) => thr[t].sta = s, Busy(t)' => thr'[t].sta = s,
         thr[t].pc \in Holding => thr[t].entry = e,
         thr'[t].pc \in Holding => thr'[t].entry = e,
         \A j \in Entries \ {e} : rec'[j] = rec[j],
         \A w \in Stations \ {s} : arr'[w] = arr[w] /\ (e # 0 => arr[w] # e),
         arr'[s] \in {arr[s], 0, e},
         arr'[s] = arr[s] \/ arr[s] \in {0, e} \/ hist' = "forgot",
         \A u \in Threads \ {t} :
           /\ Busy(u) => thr[u].sta # s
           /\ thr[u].pc \in Holding => thr[u].entry # e,
         hist' = hist \/ hist' = "forgot",
         CountOK', MapAt(s)', HandOK(t)', KeptIn(t)',
         e # 0 => KeptAt(e)' /\ (e \in Taken' => FoundAt(e)' \/ hist' = "forgot")
  PROVE  Separate'
<1> USE DEF Separate
<1>0. /\ \A u \in Threads \ {t} : thr'[u] = thr[u]
      /\ \A u \in Threads : thr[u].pc \in Holding => Busy(u)
      /\ \A u \in Threads : thr[u].pc \in Emptied => thr[u].pc \in Holding
  BY DEF Only, Holding, Mapped, Opening, Emptied, Busy
<1>1. Apart'
  BY <1>0 DEF Apart, Busy
<1>2. OneHand'
  BY <1>0 DEF OneHand
<1>3. ASSUME NEW w \in Stations \ {s} PROVE MapAt(w)'
  <2>1. arr'[w] = arr[w] /\ (arr[w] # 0 => arr[w] \in Entries /\ arr[w] # e)
    BY DEF TypeInv, TypeOK, Entries
  <2>2. Renewed(w) => Renewed(w)'
    BY <1>0 DEF Renewed, At, Threads, Busy
  <2> QED
    BY <2>1, <2>2 DEF MapAt
<1>4. ASSUME NEW u \in Threads \ {t} PROVE HandOK(u)' /\ KeptIn(u)'
  <2>1. thr'[u] = thr[u] /\ HandOK(u) /\ KeptIn(u)
    BY <1>0
  <2>2. CASE thr[u].pc \in Holding
    <3>1. /\ thr[u].entry \in Taken /\ thr[u].entry \in Entries /\ thr[u].entry # e
          /\ thr[u].sta \in Stations /\ thr[u].sta # s
          /\ thr[u].pc # "alloc"
      BY <2>2, Own, <1>0 DEF Holding, Mapped, Opening
    <3>2. /\ rec'[thr[u].entry] = rec[thr[u].entry]
          /\ arr'[thr[u].sta] = arr[thr[u].sta]
      BY <3>1
    <3>3. thr[u].entry \in Taken'
      BY <3>1, <3>2 DEF Taken
    <3>4. \A w \in Stations : arr'[w] = thr[u].entry => arr[w] = thr[u].entry
      BY <3>1 DEF Entries
    <3>5. KeptIn(u)'
      BY <2>1, <3>2 DEF KeptIn
    <3> QED
      BY <2>1, <3>1, <3>2, <3>3, <3>4, <3>5 DEF HandOK
  <2>3. CASE thr[u].pc \notin Holding
    <3>1. thr[u].pc = "alloc" => thr[u].sta \in Stations /\ thr[u].sta # s
      BY DEF TypeInv, PlaceOK, Busy
    <3> QED
      BY <2>1, <2>3, <3>1 DEF HandOK, KeptIn, Holding, Mapped, Opening, Emptied
  <2> QED
    BY <2>2, <2>3
<1>5. ASSUME hist' # "forgot", NEW i \in Taken' PROVE FoundAt(i)'
  <2>0. i \in Entries /\ i # 0
    BY DEF Taken, Entries
  <2>1. CASE i = e
    BY <1>5, <2>0, <2>1
  <2>2. CASE i # e
    <3>1. rec'[i] = rec[i] /\ i \in Taken
      BY <2>0, <2>2 DEF Taken
    <3>2. FoundAt(i)
      BY <1>5, <3>1
    <3>3. CASE \E u \in Threads : thr[u].pc \in Holding /\ thr[u].entry = i
      BY <1>0, <2>2, <3>3 DEF FoundAt
    <3>4. CASE rec[i].Wcid \in Stations /\ arr[rec[i].Wcid] = i
      BY <1>5, <2>0, <2>2, <3>1, <3>4 DEF FoundAt
    <3> QED
      BY <3>2, <3>3, <3>4 DEF FoundAt
  <2> QED
    BY <2>1, <2>2
<1>6. \A i \in Entries : KeptAt(i)'
  BY DEF KeptAt, Entries
<1> QED
  BY <1>1, <1>2, <1>3, <1>4, <1>5, <1>6

LEMMA SameCount ==
  ASSUME CountOK, num' = num,
         \A j \in Entries : rec'[j].status = "NONE" <=> rec[j].status = "NONE"
  PROVE  CountOK'
<1>1. Taken' = Taken
  BY DEF Taken
<1> QED
  BY <1>1 DEF CountOK

\* The step of a thread with an entry in hand.
LEMMA HoldStep ==
  ASSUME TypeInv, Separate, NEW t \in Threads, NEW s, NEW e,
         thr[t].pc \in Holding, s = thr[t].sta, e = thr[t].entry,
         Only(t), Busy(t)' => thr'[t].sta = s,
         thr'[t].pc \in Holding => thr'[t].entry = e,
         \A j \in Entries \ {e} : rec'[j] = rec[j],
         \A w \in Stations \ {s} : arr'[w] = arr[w],
         arr'[s] \in {arr[s], 0, e}, hist' = hist,
         CountOK' \/ (num' = num /\ rec'[e].status # "NONE"),
         MapAt(s)', HandOK(t)', KeptIn(t)', KeptAt(e)',
         thr'[t].pc \notin Holding /\ e \in Taken' =>
           rec'[e].Wcid = s /\ arr'[s] = e
  PROVE  Separate'
<1>1. /\ e \in Taken /\ e \in Entries /\ e \in Idxs /\ s \in Stations /\ Busy(t)
      /\ \A w \in Stations : arr[w] = e => w = s
  BY Own DEF Entries
<1>2. arr[s] \in {0, e}
  BY DEF Separate, HandOK, Holding
<1>3. \A u \in Threads \ {t} :
        /\ Busy(u) => thr[u].sta # s
        /\ thr[u].pc \in Holding => thr[u].entry # e
  BY <1>1 DEF Separate, Apart, OneHand
<1>4. CountOK'
  <2> SUFFICES ASSUME num' = num, rec'[e].status # "NONE" PROVE CountOK'
    OBVIOUS
  <2>1. \A j \in Entries : rec'[j].status = "NONE" <=> rec[j].status = "NONE"
    BY <1>1 DEF Taken
  <2> QED
    BY <2>1, SameCount DEF Separate
<1>5. e \in Taken' => FoundAt(e)'
  BY <1>1 DEF FoundAt
<1> QED
  BY <1>1, <1>2, <1>3, <1>4, <1>5, Step

\* What an assignment to one entry leaves, and what it sets.
LEMMA StatusOne ==
  ASSUME rec \in [Entries -> RecType], NEW i \in Entries, NEW s \in Statuses,
         SetStatus(i, s)
  PROVE  /\ rec'[i].status = s /\ rec'[i].Wcid = rec[i].Wcid
         /\ rec'[i].kept = rec[i].kept
         /\ \A j \in Entries \ {i} : rec'[j] = rec[j]
BY StatusSet DEF SetStatus

LEMMA KeptOne ==
  ASSUME rec \in [Entries -> RecType], NEW i \in Entries,
         NEW n \in 0 .. BAWinSize, SetKept(i, n)
  PROVE  /\ rec'[i].status = rec[i].status /\ rec'[i].Wcid = rec[i].Wcid
         /\ rec'[i].kept = n
         /\ \A j \in Entries \ {i} : rec'[j] = rec[j]
BY KeptSet DEF SetKept

\* The MLME thread, opening or renewing a session.
LEMMA OpenSeparate ==
  ASSUME TypeInv, Separate, AddRefresh \/ AddHandle \/ AddFill \/ AddMap
  PROVE  Separate'
<1> DEFINE t == "mlme"
<1>p. PICK s, e : s = thr[t].sta /\ e = thr[t].entry
  OBVIOUS
<1>0. /\ thr \in [Threads -> ThrType] /\ rec \in [Entries -> RecType]
      /\ t \in Threads /\ arr \in [Stations -> Idxs] /\ 0 \in 0 .. BAWinSize
      /\ {"handle", "fill", "map"} \subseteq Places
      /\ {"HandleRes", "Initialization"} \subseteq Statuses
      /\ HandOK(t) /\ KeptIn(t) /\ thr[t] \in ThrType
  BY DEF TypeInv, TypeOK, Threads, Places, Statuses, Separate
<1>1. thr[t].pc \in Holding
  BY DEF AddRefresh, AddHandle, AddFill, AddMap, At, Holding, Mapped, Opening
<1>2. /\ e \in Taken /\ e \in Entries /\ e # 0 /\ s \in Stations /\ MapAt(s)
      /\ \A w \in Stations : arr[w] = e => w = s
  BY <1>p, <1>0, <1>1, Own DEF Entries, Separate
<1>3. CASE AddRefresh
  <2>1. /\ Only(t) /\ thr'[t].pc = "handle" /\ thr'[t].sta = s
        /\ thr'[t].entry = e /\ thr'[t].Idx = thr[t].Idx /\ thr[t].pc = "refresh"
    BY <1>p, <1>0, <1>3, GotoSet DEF AddRefresh, At
  <2>2. /\ rec'[e].status = rec[e].status /\ rec'[e].Wcid = rec[e].Wcid
        /\ rec'[e].kept = 0 /\ \A j \in Entries \ {e} : rec'[j] = rec[j]
        /\ UNCHANGED <<arr, num, hist>>
    BY <1>p, <1>0, <1>2, <1>3, KeptOne DEF AddRefresh, Refreshed
  <2>3. thr[t].Idx = e /\ arr[s] = e /\ rec'[e].status # "NONE"
    BY <1>p, <1>0, <1>2, <2>1, <2>2 DEF HandOK, Mapped, Taken
  <2>4. MapAt(s)' /\ KeptIn(t)' /\ KeptAt(e)'
    BY <1>2, <2>1, <2>2, <2>3 DEF MapAt, KeptIn, KeptAt, Renewed, At
  <2>5. HandOK(t)'
    BY <1>2, <2>1, <2>2, <2>3 DEF HandOK, Mapped, Opening, Taken
  <2> QED
    BY <1>p, <1>0, <1>1, <2>1, <2>2, <2>3, <2>4, <2>5, HoldStep
    DEF Holding, Opening
<1>4. CASE AddHandle
  <2>1. /\ Only(t) /\ thr'[t].pc = "fill" /\ thr'[t].sta = s
        /\ thr'[t].entry = e /\ thr'[t].Idx = thr[t].Idx /\ thr[t].pc = "handle"
    BY <1>p, <1>0, <1>4, GotoSet DEF AddHandle, At
  <2>2. /\ rec'[e].status = "HandleRes" /\ rec'[e].Wcid = rec[e].Wcid
        /\ rec'[e].kept = rec[e].kept /\ \A j \in Entries \ {e} : rec'[j] = rec[j]
        /\ UNCHANGED <<arr, num, hist>>
    BY <1>p, <1>0, <1>2, <1>4, StatusOne DEF AddHandle
  <2>3. thr[t].Idx = e /\ arr[s] \in {0, e} /\ rec[e].kept = 0
    BY <1>p, <1>0, <2>1 DEF HandOK, KeptIn, Opening, Emptied
  <2>4. MapAt(s)' /\ KeptIn(t)' /\ KeptAt(e)'
    BY <1>2, <2>1, <2>2, <2>3 DEF MapAt, KeptIn, KeptAt, Renewed, At
  <2>5. HandOK(t)'
    BY <1>2, <2>1, <2>2, <2>3 DEF HandOK, Mapped, Opening, Taken
  <2> QED
    BY <1>p, <1>0, <1>1, <2>1, <2>2, <2>3, <2>4, <2>5, HoldStep
    DEF Holding, Opening
<1>5. CASE AddFill
  <2>1. /\ Only(t) /\ thr'[t].pc = "map" /\ thr'[t].sta = s
        /\ thr'[t].entry = e /\ thr'[t].Idx = thr[t].Idx /\ thr[t].pc = "fill"
    BY <1>p, <1>0, <1>5, GotoSet DEF AddFill, At
  <2>2. /\ rec'[e].status = "Initialization" /\ rec'[e].Wcid = s
        /\ rec'[e].kept = rec[e].kept /\ \A j \in Entries \ {e} : rec'[j] = rec[j]
        /\ UNCHANGED <<arr, num, hist>>
    <3>1. rec[e] \in RecType
      BY <1>p, <1>0, <1>2
    <3>2. rec' = [rec EXCEPT ![e] = [rec[e] EXCEPT !.status = "Initialization",
                                                   !.Wcid = s]]
      BY <1>p, <1>5 DEF AddFill
    <3> QED
      BY <1>p, <1>0, <1>2, <1>5, <3>1, <3>2 DEF AddFill, RecType
  <2>3. thr[t].Idx = e /\ arr[s] \in {0, e} /\ rec[e].kept = 0
    BY <1>p, <1>0, <2>1 DEF HandOK, KeptIn, Opening, Emptied
  <2>4. MapAt(s)' /\ KeptIn(t)' /\ KeptAt(e)'
    BY <1>2, <2>1, <2>2, <2>3 DEF MapAt, KeptIn, KeptAt
  <2>5. HandOK(t)'
    BY <1>2, <2>1, <2>2, <2>3 DEF HandOK, Mapped, Opening, Taken
  <2> QED
    BY <1>p, <1>0, <1>1, <2>1, <2>2, <2>3, <2>4, <2>5, HoldStep
    DEF Holding, Opening
<1>6. CASE AddMap
  <2>1. /\ Only(t) /\ thr'[t].pc = "idle" /\ thr[t].pc = "map"
    BY <1>p, <1>0, <1>6, FinishSet, ThrNew DEF AddMap, At
  <2>2. /\ UNCHANGED <<rec, num, hist>> /\ arr' = [arr EXCEPT ![s] = thr[t].Idx]
    BY <1>p, <1>6 DEF AddMap
  <2>3. /\ thr[t].Idx = e /\ rec[e].kept = 0 /\ rec[e].Wcid = s
        /\ rec[e].status = "Initialization"
    BY <1>p, <1>0, <2>1 DEF HandOK, KeptIn, Opening, Emptied
  <2>4. /\ arr'[s] = e /\ \A w \in Stations \ {s} : arr'[w] = arr[w]
    BY <1>p, <1>0, <1>2, <2>2, <2>3
  <2>5. MapAt(s)' /\ KeptIn(t)' /\ KeptAt(e)'
    BY <2>1, <2>2, <2>3, <2>4 DEF MapAt, KeptIn, KeptAt, Emptied, Opening
  <2>6. HandOK(t)'
    BY <2>1 DEF HandOK, Mapped, Opening
  <2> QED
    BY <1>p, <1>0, <1>1, <2>1, <2>2, <2>3, <2>4, <2>5, <2>6, HoldStep
    DEF Holding, Opening, Mapped, Busy
<1> QED
  BY <1>3, <1>4, <1>5, <1>6

\* A tear-down, in any thread.
LEMMA EndSeparate ==
  ASSUME TypeInv, Separate, NEW t \in Threads,
         TearEmpty(t) \/ TearUnmap(t) \/ TearFree(t)
  PROVE  Separate'
<1>p. PICK s, e : s = thr[t].sta /\ e = thr[t].entry
  OBVIOUS
<1>0. /\ thr \in [Threads -> ThrType] /\ rec \in [Entries -> RecType]
      /\ arr \in [Stations -> Idxs] /\ 0 \in 0 .. BAWinSize
      /\ {"unmap", "free"} \subseteq Places /\ "NONE" \in Statuses
      /\ HandOK(t) /\ KeptIn(t) /\ thr[t] \in ThrType
  BY DEF TypeInv, TypeOK, Places, Statuses, Separate
<1>1. thr[t].pc \in Holding
  BY DEF TearEmpty, TearUnmap, TearFree, At, Holding, Mapped
<1>2. /\ e \in Taken /\ e \in Entries /\ e # 0 /\ s \in Stations /\ MapAt(s)
      /\ \A w \in Stations : arr[w] = e => w = s
  BY <1>p, <1>0, <1>1, Own DEF Entries, Separate
<1>3. CASE TearEmpty(t)
  <2>1. /\ Only(t) /\ thr'[t].pc = "unmap" /\ thr'[t].sta = s
        /\ thr'[t].entry = e /\ thr[t].pc = "empty"
    BY <1>p, <1>0, <1>3, GotoSet DEF TearEmpty, At
  <2>2. /\ rec'[e].status = rec[e].status /\ rec'[e].Wcid = rec[e].Wcid
        /\ rec'[e].kept = 0 /\ \A j \in Entries \ {e} : rec'[j] = rec[j]
        /\ UNCHANGED <<arr, num, hist>>
    BY <1>p, <1>0, <1>2, <1>3, KeptOne DEF TearEmpty, Refreshed
  <2>3. arr[s] = e /\ rec'[e].status # "NONE"
    BY <1>p, <1>0, <1>2, <2>1, <2>2 DEF HandOK, Mapped, Taken
  <2>4. MapAt(s)' /\ KeptIn(t)' /\ KeptAt(e)'
    <3>1. Renewed(s) => Renewed(s)'
      BY <1>p, <2>1 DEF Renewed, At, Only, Threads
    <3> QED
      BY <1>2, <2>1, <2>2, <2>3, <3>1 DEF MapAt, KeptIn, KeptAt
  <2>5. HandOK(t)'
    BY <2>1, <2>2, <2>3, <1>2 DEF HandOK, Mapped, Opening
  <2> QED
    BY <1>p, <1>0, <1>1, <2>1, <2>2, <2>3, <2>4, <2>5, HoldStep
    DEF Holding, Mapped
<1>4. CASE TearUnmap(t)
  <2>1. /\ Only(t) /\ thr'[t].pc = "free" /\ thr'[t].sta = s
        /\ thr'[t].entry = e /\ thr[t].pc = "unmap"
    BY <1>p, <1>0, <1>4, GotoSet DEF TearUnmap, At
  <2>2. /\ UNCHANGED <<rec, num, hist>> /\ arr' = [arr EXCEPT ![s] = 0]
    BY <1>p, <1>4 DEF TearUnmap
  <2>3. arr[s] = e /\ rec[e].status # "NONE" /\ rec[e].Wcid = s /\ rec[e].kept = 0
    BY <1>p, <1>0, <1>2, <2>1 DEF HandOK, KeptIn, Emptied, Mapped, Taken, MapAt
  <2>4. arr'[s] = 0 /\ \A w \in Stations \ {s} : arr'[w] = arr[w]
    BY <1>0, <1>2, <2>2
  <2>5. MapAt(s)' /\ KeptIn(t)' /\ KeptAt(e)'
    BY <2>1, <2>2, <2>3, <2>4 DEF MapAt, KeptIn, KeptAt
  <2>6. HandOK(t)'
    BY <1>2, <2>1, <2>2, <2>3, <2>4 DEF HandOK, Mapped, Opening, Taken
  <2> QED
    BY <1>p, <1>0, <1>1, <2>1, <2>2, <2>3, <2>4, <2>5, <2>6, HoldStep
    DEF Holding
<1>5. CASE TearFree(t)
  <2>1. /\ thr[t].pc = "free" /\ arr[s] = 0 /\ rec[e].kept = 0
        /\ rec[e].Wcid = s /\ rec[e].status # "NONE"
    BY <1>p, <1>0, <1>2, <1>5 DEF TearFree, At, HandOK, KeptIn, Emptied, Taken
  <2>2. /\ Only(t) /\ thr'[t].pc \in {"idle", "gone", "reset"}
        /\ thr'[t].pc # "idle" => thr'[t].sta = s
    <3> DEFINE q == [Idle EXCEPT !.pc = thr[t].then, !.sta = thr[t].sta]
    <3>1. thr[t].then \in {"idle", "gone", "reset"} /\ thr[t].sta \in StaOrNone
      BY <1>0, ThrSets
    <3>2. q \in ThrType /\ q.pc = thr[t].then /\ q.sta = thr[t].sta
      BY <1>0, <3>1, ThrNew DEF Idle, Places
    <3> HIDE DEF q
    <3>3. CASE thr[t].then = "idle"
      <4>1. Finish(t)
        BY <1>5, <3>3 DEF TearFree
      <4> QED
        BY <1>0, <3>3, <4>1, FinishSet, ThrNew
    <3>4. CASE thr[t].then # "idle"
      <4>1. thr' = [thr EXCEPT ![t] = q]
        BY <1>5, <3>4 DEF TearFree, q
      <4> QED
        BY <1>p, <1>0, <3>1, <3>2, <4>1 DEF Only
    <3> QED
      BY <3>3, <3>4
  <2>3. /\ SetStatus(e, "NONE") /\ num' = OneLess(num) /\ hist' = hist
        /\ arr' = [arr EXCEPT ![s] = 0]
    BY <1>p, <1>5, <2>1 DEF TearFree
  <2>4. /\ rec'[e].status = "NONE" /\ rec'[e].Wcid = s /\ rec'[e].kept = 0
        /\ \A j \in Entries \ {e} : rec'[j] = rec[j]
    BY <1>0, <1>2, <2>1, <2>3, StatusOne
  <2>5. /\ arr'[s] = 0 /\ \A w \in Stations \ {s} : arr'[w] = arr[w]
    BY <1>0, <1>2, <2>3
  <2>6. CountOK'
    <3>1. Taken' = Taken \ {e} /\ Taken \in SUBSET Entries
      BY <1>2, <2>4 DEF Taken
    <3>2. /\ Cardinality(Taken) \in Nat /\ Cardinality(Taken') \in Nat
          /\ Cardinality(Taken') = Cardinality(Taken) - 1
      BY <1>2, <3>1, SomeEntries
    <3>3. num = Cardinality(Taken)
      BY DEF Separate, CountOK
    <3> QED
      BY <2>3, <3>2, <3>3 DEF CountOK, OneLess
  <2>7. MapAt(s)' /\ KeptIn(t)' /\ KeptAt(e)' /\ HandOK(t)' /\ e \notin Taken'
    BY <2>2, <2>4, <2>5
    DEF MapAt, KeptIn, KeptAt, HandOK, Mapped, Opening, Emptied, Taken
  <2> QED
    BY <1>p, <1>0, <1>1, <2>2, <2>3, <2>4, <2>5, <2>6, <2>7, HoldStep
    DEF Holding, Mapped, Opening, Busy
<1> QED
  BY <1>3, <1>4, <1>5

\* The receive tasklet with a frame; none is lost.
LEMMA FrameSeparate ==
  ASSUME TypeInv, Separate, Receive
  PROVE  Separate' /\ ~FrameLost
<1> DEFINE t == "rx"
<1>p. PICK s, e : s = thr[t].sta /\ e = thr[t].entry
  OBVIOUS
<1>0. /\ thr \in [Threads -> ThrType] /\ rec \in [Entries -> RecType]
      /\ t \in Threads /\ 0 \in 0 .. BAWinSize
      /\ {"establish", "place"} \subseteq Places /\ "Established" \in Statuses
      /\ HandOK(t) /\ KeptIn(t)
  BY DEF TypeInv, TypeOK, Threads, Places, Statuses, Separate
<1>1. thr[t].pc \in {"state", "establish", "place"} /\ thr[t].pc \in Holding
  BY DEF Receive, FrameLost, FrameFirst, FrameNext, FrameEstablish, FramePlace,
         At, Holding, Mapped
<1>2. /\ e \in Taken /\ e \in Entries /\ e # 0 /\ s \in Stations /\ MapAt(s)
      /\ \A w \in Stations : arr[w] = e => w = s
  BY <1>p, <1>0, <1>1, Own DEF Entries, Separate
<1>3. /\ arr[s] = e /\ rec[e].Wcid = s
      /\ rec[e].status \in {"Initialization", "Established"}
  <2>1. arr[s] = e
    BY <1>p, <1>0, <1>1 DEF HandOK, Mapped
  <2>2. ~Renewed(s)
    BY <1>p, <1>0, <1>1 DEF Renewed, At, Separate, Apart, Threads, Busy
  <2> QED
    BY <1>2, <2>1, <2>2 DEF MapAt
<1>4. ~FrameLost /\ UNCHANGED <<arr, num, hist>>
  BY <1>p, <1>3
  DEF Receive, FrameLost, FrameFirst, FrameNext, FrameEstablish, FramePlace
<1>5. /\ Only(t) /\ thr'[t].pc \in {"establish", "place", "idle"}
      /\ thr'[t].pc # "idle" => thr'[t].sta = s /\ thr'[t].entry = e
      /\ \A j \in Entries \ {e} : rec'[j] = rec[j]
      /\ rec'[e].status \in {"Initialization", "Established"}
      /\ rec'[e].Wcid = s /\ KeptAt(e)'
      /\ thr'[t].pc = "establish" =>
           rec'[e].status = "Initialization" /\ rec'[e].kept = 0
      /\ thr'[t].pc = "place" => rec'[e].status = "Established"
  <2>1. CASE FrameFirst
    <3>1. /\ Only(t) /\ thr'[t].pc = "establish" /\ thr'[t].sta = s
          /\ thr'[t].entry = e /\ rec[e].status = "Initialization"
      BY <1>p, <1>0, <2>1, GotoSet DEF FrameFirst
    <3>2. /\ rec'[e].status = rec[e].status /\ rec'[e].Wcid = s
          /\ rec'[e].kept = 0 /\ \A j \in Entries \ {e} : rec'[j] = rec[j]
      BY <1>p, <1>0, <1>2, <1>3, <2>1, KeptOne DEF FrameFirst, Refreshed
    <3> QED
      BY <3>1, <3>2 DEF KeptAt
  <2>2. CASE FrameNext
    <3>1. /\ Only(t) /\ thr'[t].pc = "place" /\ thr'[t].sta = s
          /\ thr'[t].entry = e /\ rec[e].status = "Established" /\ rec' = rec
      BY <1>p, <1>0, <2>2, GotoSet DEF FrameNext
    <3> QED
      BY <1>3, <3>1 DEF KeptAt
  <2>3. CASE FrameEstablish
    <3>1. /\ Only(t) /\ thr'[t].pc = "place" /\ thr'[t].sta = s
          /\ thr'[t].entry = e
      BY <1>p, <1>0, <2>3, GotoSet DEF FrameEstablish
    <3>2. /\ rec'[e].status = "Established" /\ rec'[e].Wcid = s
          /\ \A j \in Entries \ {e} : rec'[j] = rec[j]
      BY <1>p, <1>0, <1>2, <1>3, <2>3, StatusOne DEF FrameEstablish
    <3> QED
      BY <3>1, <3>2 DEF KeptAt
  <2>4. CASE FramePlace
    <3>1. Only(t) /\ thr'[t].pc = "idle" /\ thr[t].pc = "place"
      BY <1>0, <2>4, FinishSet, ThrNew DEF FramePlace, At
    <3>2. PICK n \in Placed(rec[e].kept) : SetKept(e, n)
      BY <1>p, <2>4 DEF FramePlace
    <3>3. n \in 0 .. BAWinSize
      BY <1>0, <1>2, <3>2, PlacedSet, RecGet
    <3>4. /\ rec'[e].status = rec[e].status /\ rec'[e].Wcid = s
          /\ \A j \in Entries \ {e} : rec'[j] = rec[j]
      BY <1>0, <1>2, <1>3, <3>2, <3>3, KeptOne
    <3>5. rec[e].status = "Established"
      BY <1>p, <1>0, <3>1 DEF HandOK
    <3> QED
      BY <3>1, <3>4, <3>5 DEF KeptAt
  <2> QED
    BY <1>4, <2>1, <2>2, <2>3, <2>4 DEF Receive
<1>6. MapAt(s)'
  BY <1>3, <1>4, <1>5 DEF MapAt
<1>7. HandOK(t)' /\ KeptIn(t)'
  BY <1>2, <1>3, <1>4, <1>5
  DEF HandOK, KeptIn, Mapped, Opening, Emptied
<1>8. Separate'
  BY <1>p, <1>0, <1>1, <1>3, <1>4, <1>5, <1>6, <1>7, HoldStep
  DEF Holding, Mapped, Opening, Busy
<1> QED
  BY <1>4, <1>8

\* A step of a thread for station s without an entry.
LEMMA BareStep ==
  ASSUME TypeInv, Separate, NEW t \in Threads, NEW s \in Stations,
         Only(t), thr[t].pc \notin Holding, thr'[t].pc \notin Holding,
         Busy(t) => thr[t].sta = s, Busy(t)' => thr'[t].sta = s,
         thr'[t].pc = "alloc" => arr[s] = 0,
         UNCHANGED <<rec, num>>,
         \A w \in Stations \ {s} : arr'[w] = arr[w],
         arr'[s] \in {arr[s], 0},
         arr'[s] = arr[s] \/ arr[s] = 0 \/ hist' = "forgot",
         \A u \in Threads \ {t} : Busy(u) => thr[u].sta # s,
         hist' = hist \/ hist' = "forgot"
  PROVE  Separate'
<1>1. 0 \in Idxs /\ 0 \notin Entries /\ \A j \in Entries : rec'[j] = rec[j]
  BY ThrNew DEF Entries
<1>2. \A u \in Threads \ {t} :
        /\ Busy(u) => thr[u].sta # s
        /\ thr[u].pc \in Holding => thr[u].entry # 0
  BY <1>1, Own
<1>3. CountOK'
  BY SameCount DEF Separate
<1>4. MapAt(s)'
  <2>1. ~Renewed(s)
    BY DEF Renewed, At, Busy, Threads, Holding, Opening
  <2> QED
    BY <2>1 DEF MapAt, Separate
<1>5. HandOK(t)' /\ KeptIn(t)'
  BY DEF HandOK, KeptIn, Holding, Mapped, Opening, Emptied, Busy
<1> QED
  BY <1>1, <1>2, <1>3, <1>4, <1>5, Step

LEMMA AllocSeparate ==
  ASSUME TypeInv, Separate, AllocRefused \/ AllocFound \/ AllocNone
  PROVE  Separate'
<1> DEFINE t == "mlme"
<1>p. PICK s : s = thr[t].sta
  OBVIOUS
<1>0. /\ thr \in [Threads -> ThrType] /\ rec \in [Entries -> RecType]
      /\ t \in Threads /\ "USED" \in Statuses /\ HandOK(t) /\ num \in Int
  BY DEF TypeInv, TypeOK, Threads, Statuses, Separate, Idxs
<1>1. /\ thr[t].pc = "alloc" /\ Busy(t) /\ s \in Stations /\ arr[s] = 0
      /\ thr[t].pc \notin Holding /\ UNCHANGED <<arr, hist>>
      /\ \A u \in Threads \ {t} : Busy(u) => thr[u].sta # s
  <2>1. thr[t].pc = "alloc" /\ UNCHANGED <<arr, hist>>
    BY DEF AllocRefused, AllocFound, AllocNone, At
  <2> QED
    BY <1>p, <1>0, <2>1
    DEF Busy, TypeInv, PlaceOK, HandOK, Separate, Apart, Holding, Mapped, Opening
<1>2. CASE AllocRefused
  <2>1. Only(t) /\ thr'[t].pc = "idle" /\ UNCHANGED <<rec, num>>
    BY <1>0, <1>2, FinishSet, ThrNew DEF AllocRefused
  <2> QED
    BY <1>p, <1>0, <1>1, <2>1, BareStep DEF Busy, Holding, Mapped, Opening
<1>3. CASE AllocNone
  <2>1. Taken = Entries /\ num < TableSize - 1 /\ num = Cardinality(Taken)
    BY <1>0, <1>3 DEF AllocNone, FreeEntries, Taken, Full, Separate, CountOK
  <2>2. Cardinality(Entries) = TableSize - 1
    <3>1. Entries = 1 .. TableSize - 1
      BY DEF Entries, Idxs
    <3>2. /\ 1 \in Int /\ TableSize - 1 \in Int
          /\ 1 =< TableSize - 1 /\ (TableSize - 1) - 1 + 1 = TableSize - 1
      OBVIOUS
    <3> QED
      BY <3>1, <3>2, FS_Interval
  <2> QED
    BY <2>1, <2>2
<1>4. CASE AllocFound
  <2>1. PICK e : e = Min(FreeEntries)
    OBVIOUS
  <2>2. e \in Entries /\ e \in Idxs /\ e # 0 /\ rec[e].status = "NONE"
    BY <1>4, <2>1, FreeMin DEF AllocFound, FreeEntries, Entries
  <2>3. /\ SetStatus(e, "USED") /\ num' = num + 1
        /\ thr' = [thr EXCEPT !["mlme"].pc = "handle", !["mlme"].Idx = e,
                              !["mlme"].entry = e]
    BY <1>4, <2>1 DEF AllocFound
  <2>4. /\ Only(t) /\ thr'[t].pc = "handle" /\ thr'[t].sta = s
        /\ thr'[t].Idx = e /\ thr'[t].entry = e
    <3> DEFINE q == [thr[t] EXCEPT !.pc = "handle", !.Idx = e, !.entry = e]
    <3>1. "handle" \in Places /\ thr[t] \in ThrType
      BY <1>0 DEF Places
    <3>2. /\ q \in ThrType /\ q.pc = "handle" /\ q.sta = s /\ q.Idx = e
          /\ q.entry = e
      BY <1>p, <2>2, <3>1 DEF ThrType
    <3>3. thr' = [thr EXCEPT ![t] = q]
      BY <2>3
    <3> HIDE DEF q
    <3> QED
      BY <1>0, <3>2, <3>3 DEF Only
  <2>5. /\ rec'[e].status = "USED" /\ rec'[e].kept = rec[e].kept
        /\ \A j \in Entries \ {e} : rec'[j] = rec[j]
    BY <1>0, <2>2, <2>3, StatusOne
  <2>6. e \notin Taken /\ Taken' = Taken \cup {e} /\ Taken \in SUBSET Entries
    BY <2>2, <2>5 DEF Taken
  <2>7. \A w \in Stations : arr[w] # e
    BY <2>2 DEF Separate, MapAt
  <2>8. \A u \in Threads \ {t} :
          /\ Busy(u) => thr[u].sta # s
          /\ thr[u].pc \in Holding => thr[u].entry # e
    BY <1>1, <2>6, Own
  <2>9. rec[e].kept = 0
    <3>1. KeptAt(e) /\ rec[e] \in RecType
      BY <1>0, <2>2 DEF Separate
    <3> QED
      BY <2>2, <3>1, RecGet DEF KeptAt
  <2>10. CountOK'
    <3>1. Cardinality(Taken') = Cardinality(Taken) + 1
      BY <2>2, <2>6, SomeEntries
    <3> QED
      BY <2>3, <3>1 DEF CountOK, Separate
  <2>11. MapAt(s)' /\ KeptIn(t)' /\ KeptAt(e)'
    BY <1>1, <2>4, <2>5, <2>9 DEF MapAt, KeptIn, KeptAt
  <2>12. HandOK(t)'
    BY <1>1, <2>4, <2>6, <2>7 DEF HandOK, Mapped, Opening
  <2>13. FoundAt(e)'
    BY <1>0, <2>4 DEF FoundAt, Holding, Opening
  <2> QED
    BY <1>p, <1>0, <1>1, <2>2, <2>4, <2>5, <2>7, <2>8, <2>10, <2>11, <2>12, <2>13,
       Step
<1> QED
  BY <1>2, <1>3, <1>4

LEMMA GoneSeparate ==
  ASSUME TypeInv, Separate, hist # "overlap", NEW t \in Threads,
         EntryGone(t) \/ (EntryReset /\ t = "mlme")
  PROVE  Separate'
<1>p. PICK s : s = thr[t].sta
  OBVIOUS
<1>0. /\ thr \in [Threads -> ThrType] /\ arr \in [Stations -> Idxs]
      /\ hist \in {"apart", "forgot"}
  BY DEF TypeInv, TypeOK
<1>1. /\ thr[t].pc \in {"gone", "reset"} /\ UNCHANGED <<rec, num>> /\ Finish(t)
  BY DEF EntryGone, EntryReset, At
<1>2. /\ Busy(t) /\ s \in Stations
      /\ \A u \in Threads \ {t} : Busy(u) => thr[u].sta # s
  BY <1>p, <1>1 DEF Busy, TypeInv, PlaceOK, Separate, Apart
<1>3. Only(t) /\ thr'[t].pc = "idle"
  BY <1>0, <1>1, FinishSet, ThrNew
<1>4. /\ \A w \in Stations \ {s} : arr'[w] = arr[w]
      /\ arr'[s] \in {arr[s], 0}
      /\ arr'[s] = arr[s] \/ arr[s] = 0 \/ hist' = "forgot"
      /\ hist' = hist \/ hist' = "forgot"
  BY <1>p, <1>0, <1>2 DEF EntryGone, EntryReset
<1> QED
  BY <1>p, <1>1, <1>2, <1>3, <1>4, BareStep
  DEF Busy, Holding, Mapped, Opening

\* A part of an entry's buffer is passed up.
LessKept(i) ==
  /\ rec'[i].status = rec[i].status /\ rec'[i].Wcid = rec[i].Wcid
  /\ rec'[i].kept > 0 => rec[i].kept > 0
  /\ rec[i].kept = 0 => rec'[i].kept = 0
  /\ \A j \in Entries \ {i} : rec'[j] = rec[j]

LEMMA PartUpLess ==
  ASSUME rec \in [Entries -> RecType], NEW i \in Entries,
         PartUp(i) \/ SetKept(i, 0)
  PROVE  LessKept(i)
<1>0. rec[i] \in RecType /\ 0 \in 0 .. BAWinSize
  OBVIOUS
<1>1. PICK n \in 0 .. BAWinSize : SetKept(i, n) /\ n <= rec[i].kept
  BY <1>0, PartUpSet, RecGet
<1> QED
  BY <1>0, <1>1, KeptOne, RecGet DEF LessKept

LEMMA LessSeparate ==
  ASSUME TypeInv, Separate, NEW i \in Entries, LessKept(i),
         UNCHANGED <<arr, num, thr, hist>>
  PROVE  Separate'
<1>1. \A j \in Entries : rec'[j].status = rec[j].status /\ rec'[j].Wcid = rec[j].Wcid
  BY DEF LessKept
<1>2. Taken' = Taken /\ CountOK'
  BY <1>1, SameCount DEF Taken, Separate
<1>3. Apart' /\ OneHand'
  BY DEF Separate, Apart, OneHand, Busy
<1>4. ASSUME NEW w \in Stations PROVE MapAt(w)'
  <2>1. arr[w] # 0 => arr[w] \in Entries
    BY DEF TypeInv, TypeOK, Entries
  <2> QED
    BY <1>1, <2>1 DEF MapAt, Separate, Renewed, At
<1>5. ASSUME NEW u \in Threads PROVE HandOK(u)' /\ KeptIn(u)'
  <2>1. /\ thr[u].pc \in Holding => thr[u].entry \in Entries
        /\ thr[u].pc \in Emptied => thr[u].pc \in Holding
    BY Own DEF Holding, Mapped, Opening, Emptied
  <2>2. HandOK(u)'
    BY <1>1, <1>2, <2>1 DEF HandOK, Separate, Holding, Mapped, Opening
  <2>3. KeptIn(u)'
    BY <2>1 DEF KeptIn, Separate, LessKept
  <2> QED
    BY <2>2, <2>3
<1>6. hist' = "forgot" \/ \A j \in Taken' : FoundAt(j)'
  <2>1. \A j \in Taken' : j \in Entries
    BY DEF Taken
  <2> QED
    BY <1>1, <1>2, <2>1 DEF FoundAt, Separate
<1>7. \A j \in Entries : KeptAt(j)'
  BY DEF KeptAt, LessKept, Separate
<1> QED
  BY <1>2, <1>3, <1>4, <1>5, <1>6, <1>7 DEF Separate

\* A thread begins, with the entry its station's index leads to or without.
LEMMA BeginBare ==
  ASSUME TypeInv, Separate, NEW t \in Threads, NEW w \in Stations,
         Only(t), thr[t].pc = "idle", thr'[t].sta = w,
         thr'[t].pc \in {"gone", "reset", "alloc"},
         thr'[t].pc = "alloc" => arr[w] = 0,
         UNCHANGED <<rec, arr, num, hist>>,
         \A u \in Threads \ {t} : Busy(u) => thr[u].sta # w
  PROVE  Separate'
BY BareStep DEF Busy, Holding, Mapped, Opening

LEMMA BeginWith ==
  ASSUME TypeInv, Separate, NEW t \in Threads, NEW w \in Stations, NEW e,
         e = arr[w], e # 0, LessKept(e),
         Only(t), thr[t].pc = "idle", thr'[t].sta = w, thr'[t].entry = e,
         thr'[t].pc \in {"empty", "refresh", "state"},
         thr'[t].pc = "refresh" => thr'[t].Idx = e,
         UNCHANGED <<arr, num, hist>>,
         \A u \in Threads \ {t} : Busy(u) => thr[u].sta # w
  PROVE  Separate'
<1>1. e \in Idxs /\ e \in Entries
  BY DEF TypeInv, TypeOK, Entries
<1>2. \A v \in Stations \ {w} : arr[v] # e
  BY DEF Separate, MapAt
<1>3. \A u \in Threads \ {t} : thr[u].pc \in Holding => thr[u].entry # e
  BY Own
<1>4. CountOK'
  BY SameCount DEF Separate, LessKept
<1>5. MapAt(w)'
  <2>1. ~Renewed(w)
    BY DEF Renewed, At, Busy, Threads
  <2> QED
    BY <2>1 DEF MapAt, Separate, LessKept
<1>6. HandOK(t)' /\ KeptIn(t)'
  BY <1>1 DEF HandOK, KeptIn, Mapped, Opening, Emptied
<1>7. KeptAt(e)' /\ FoundAt(e)'
  BY <1>1 DEF KeptAt, FoundAt, Separate, LessKept, Holding, Mapped
<1>8. \A j \in Entries \ {e} : rec'[j] = rec[j]
  BY DEF LessKept
<1>9. thr[t].pc \notin Holding /\ ~Busy(t)
  BY DEF Holding, Mapped, Opening, Busy
<1> QED
  BY <1>1, <1>2, <1>3, <1>4, <1>5, <1>6, <1>7, <1>8, <1>9, Step

LEMMA StartSeparate ==
  ASSUME TypeInv, Separate, Starts, hist' # "overlap"
  PROVE  Separate'
<1> SUFFICES ASSUME NEW w \in Stations,
                    \/ peer_addba_req_action(w) \/ peer_delba_action(w)
                    \/ Set_BARecTearDown_Proc(w) \/ MacTableInsertEntry(w)
                    \/ \E t \in {"mlme", "ioctl"} : MacTableDeleteEntry(t, w)
                    \/ ba_reorder(w) \/ bar_process(w)
             PROVE  Separate'
  BY DEF Starts
<1>0. /\ thr \in [Threads -> ThrType] /\ arr[w] \in Idxs
      /\ hist \in {"apart", "forgot", "overlap"}
      /\ rec \in [Entries -> RecType] /\ {"mlme", "ioctl", "rx"} = Threads
      /\ {"idle", "alloc", "refresh", "empty", "state"} \subseteq Places
  BY DEF TypeInv, TypeOK, Threads, Places
<1>p. PICK e : e = arr[w]
  OBVIOUS
<1>s. rec' = rec => LessKept(e)
  BY DEF LessKept
<1>1. CASE peer_addba_req_action(w)
  <2>1. PICK a \in {"alloc", "refresh"} :
          /\ Begin("mlme", w, a, arr[w], "idle")
          /\ a = "alloc" <=> arr[w] = 0
    BY <1>1 DEF peer_addba_req_action
  <2>2. /\ Only("mlme") /\ thr["mlme"].pc = "idle" /\ thr'["mlme"].pc = a
        /\ thr'["mlme"].sta = w /\ thr'["mlme"].entry = e
        /\ thr'["mlme"].Idx = e /\ hist' = hist
        /\ \A u \in Threads \ {"mlme"} : Busy(u) => thr[u].sta # w
    BY <1>0, <1>p, <2>1, BeginThr
  <2>3. UNCHANGED <<rec, arr, num>>
    BY <1>1 DEF peer_addba_req_action
  <2> QED
    BY <1>0, <1>p, <1>s, <2>1, <2>2, <2>3, BeginBare, BeginWith
<1>2. CASE \/ peer_delba_action(w) \/ Set_BARecTearDown_Proc(w)
           \/ MacTableInsertEntry(w)
           \/ \E t \in {"mlme", "ioctl"} : MacTableDeleteEntry(t, w)
  <2>1. PICK t \in Threads, p \in BOOLEAN, q \in {"idle", "gone", "reset"} :
          /\ ba_rec_session_tear_down(t, w, p, q)
          /\ q = "reset" => t = "mlme"
    BY <1>0, <1>2
    DEF peer_delba_action, Set_BARecTearDown_Proc, MacTableInsertEntry,
        MacTableDeleteEntry
  <2>2. /\ Only(t) /\ thr[t].pc = "idle" /\ thr'[t].sta = w /\ hist' = hist
        /\ UNCHANGED <<rec, arr, num>>
        /\ \A u \in Threads \ {t} : Busy(u) => thr[u].sta # w
        /\ \/ thr'[t].pc = "empty" /\ thr'[t].entry = arr[w] /\ arr[w] # 0
           \/ thr'[t].pc \in {"gone", "reset"}
    BY <2>1, TearStart
  <2> QED
    BY <1>p, <1>s, <2>2, BeginBare, BeginWith
<1>3. CASE ba_reorder(w) \/ bar_process(w)
  <2>1. /\ e \in Entries /\ e # 0 /\ PartUp(e) /\ UNCHANGED <<arr, num>>
    BY <1>0, <1>3, <1>p DEF ba_reorder, bar_process, Entries
  <2>2. LessKept(e)
    BY <1>0, <2>1, PartUpLess
  <2>3. CASE UNCHANGED <<thr, hist>>
    BY <2>1, <2>2, <2>3, LessSeparate
  <2>4. CASE \E a \in {"state", "empty"} : Begin("rx", w, a, arr[w], "idle")
    <3>1. PICK a \in {"state", "empty"} : Begin("rx", w, a, arr[w], "idle")
      BY <2>4
    <3>2. /\ Only("rx") /\ thr["rx"].pc = "idle" /\ thr'["rx"].pc = a
          /\ thr'["rx"].sta = w /\ thr'["rx"].entry = e /\ hist' = hist
          /\ \A u \in Threads \ {"rx"} : Busy(u) => thr[u].sta # w
      BY <1>0, <1>p, <3>1, BeginThr
    <3> QED
      BY <1>0, <1>p, <2>1, <2>2, <3>2, BeginWith
  <2> QED
    BY <1>3, <2>3, <2>4 DEF ba_reorder, bar_process
<1> QED
  BY <1>1, <1>2, <1>3

SessInv == TypeInv /\ ~lost /\ (hist # "overlap" => Separate)

LEMMA StepSess == SessInv /\ [Next]_vars => SessInv'
<1> SUFFICES ASSUME SessInv, [Next]_vars PROVE SessInv'
  OBVIOUS
<1>0. TypeInv' /\ rec \in [Entries -> RecType]
  BY StepTypes DEF SessInv, TypeInv, TypeOK
<1>1. CASE UNCHANGED vars
  BY <1>0, <1>1
  DEF vars, SessInv, Separate, CountOK, Taken, Apart, OneHand, Busy, MapAt,
      Renewed, At, HandOK, KeptIn, FoundAt, KeptAt
<1>2. CASE Next
  <2>1. ~lost' /\ (hist' # "overlap" => hist # "overlap")
    <3>1. CASE FrameLost
      <4>1. Receive /\ hist' = hist /\ lost' = (lost \/ hist # "overlap")
        BY <3>1 DEF Receive, FrameLost
      <4>2. hist = "overlap"
        BY <3>1, <4>1, FrameSeparate DEF SessInv
      <4> QED
        BY <4>1, <4>2 DEF SessInv
    <3>2. CASE ~FrameLost
      <4>1. lost' = lost
        BY <1>2, <3>2, NextIs
        DEF Starts, peer_addba_req_action, peer_delba_action,
            Set_BARecTearDown_Proc, MacTableInsertEntry, MacTableDeleteEntry,
            ba_rec_session_tear_down, ba_reorder, bar_process, Add,
            AllocRefused, AllocFound, AllocNone, AddRefresh, AddHandle, AddFill,
            AddMap, EntryReset, Receive, FrameFirst, FrameNext, FrameEstablish,
            FramePlace, TearDown, TearEmpty, TearUnmap, TearFree, EntryGone,
            ba_timeout_flush
      <4>2. hist' # "overlap" => hist # "overlap"
        BY <1>2, <3>2, NextIs
        DEF Starts, peer_addba_req_action, peer_delba_action,
            Set_BARecTearDown_Proc, MacTableInsertEntry, MacTableDeleteEntry,
            ba_rec_session_tear_down, ba_reorder, bar_process, Begin, Add,
            AllocRefused, AllocFound, AllocNone, AddRefresh, AddHandle, AddFill,
            AddMap, EntryReset, Receive, FrameFirst, FrameNext, FrameEstablish,
            FramePlace, TearDown, TearEmpty, TearUnmap, TearFree, EntryGone,
            ba_timeout_flush
      <4> QED
        BY <4>1, <4>2 DEF SessInv
    <3> QED
      BY <3>1, <3>2
  <2> SUFFICES ASSUME hist' # "overlap" PROVE Separate'
    BY <1>0, <2>1 DEF SessInv
  <2>2. TypeInv /\ Separate /\ hist # "overlap"
    BY <2>1 DEF SessInv
  <2>3. CASE Starts
    BY <2>2, <2>3, StartSeparate
  <2>4. CASE Add
    BY <2>2, <2>4, AllocSeparate, OpenSeparate DEF Add
  <2>5. CASE EntryReset
    BY <2>2, <2>5, GoneSeparate DEF Threads
  <2>6. CASE Receive
    BY <2>2, <2>6, FrameSeparate
  <2>7. CASE \E t \in Threads : TearDown(t)
    BY <2>2, <2>7, EndSeparate, GoneSeparate DEF TearDown
  <2>8. CASE \E i \in Entries : ba_timeout_flush(i)
    BY <1>0, <2>2, <2>8, PartUpLess, LessSeparate DEF ba_timeout_flush
  <2> QED
    BY <1>2, <2>3, <2>4, <2>5, <2>6, <2>7, <2>8, NextIs
<1> QED
  BY <1>1, <1>2

LEMMA InitSess == Init => SessInv
<1> SUFFICES ASSUME Init PROVE SessInv
  OBVIOUS
<1>1. TypeInv /\ ~lost /\ num = 0 /\ Taken = {} /\ \A w \in Stations : arr[w] = 0
  BY InitTypes DEF Init, Taken
<1>2. \A t \in Threads : thr[t].pc = "idle"
  BY ThrNew DEF Init
<1>3. CountOK
  BY <1>1, FS_EmptySet DEF CountOK
<1>4. \A i \in Entries : KeptAt(i)
  BY DEF Init, KeptAt
<1> QED
  BY <1>1, <1>2, <1>3, <1>4
  DEF SessInv, Separate, Apart, OneHand, Busy, MapAt, HandOK, KeptIn, Holding,
      Mapped, Opening, Emptied

\* SessionsMatch, for every number of stations, entries and frames: as long
\* as the threads keep to different stations, numAsRecipient counts the
\* entries taken and a station's index leads to an open session of its own.
THEOREM RecSessionsMatch == Spec => []SessionsMatch
<1>1. SessInv => SessionsMatch
  <2> SUFFICES ASSUME SessInv, hist # "overlap" PROVE SessionsMatch
    BY DEF SessionsMatch
  <2>1. num = Cardinality(Taken)
    BY DEF SessInv, Separate, CountOK
  <2>2. ASSUME NEW w \in Stations, arr[w] # 0
        PROVE  /\ rec[arr[w]].status \in
                    {"HandleRes", "Initialization", "Established"}
               /\ rec[arr[w]].Wcid = w
    BY <2>2 DEF SessInv, Separate, MapAt
  <2>3. hist = "forgot" \/ \A i \in Taken : InHand(i) \/ arr[rec[i].Wcid] = i
    BY DEF SessInv, Separate, FoundAt, InHand, Busy, Holding, Mapped, Opening
  <2> QED
    BY <2>1, <2>2, <2>3 DEF SessionsMatch
<1> QED
  BY <1>1, InitSess, StepSess, PTL DEF Spec

\* FramesSafe: no frame is lost, and what is buffered belongs to an
\* established session.
THEOREM RecFramesSafe == Spec => []FramesSafe
<1>1. SessInv => FramesSafe
  BY DEF SessInv, Separate, KeptAt, FramesSafe
<1> QED
  BY <1>1, InitSess, StepSess, PTL DEF Spec
=============================================================================
