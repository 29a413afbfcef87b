---------------------------- MODULE BaOri_proofs ----------------------------
(***************************************************************************)
(* The bookkeeping of the originator's block-ack table: exact until a      *)
(* thread acts on a stale look, and never counting too much afterwards,    *)
(* for every number of stations, threads, entries and retries.             *)
(***************************************************************************)
EXTENDS BaOri, Lemmas

USE OriAssumption

-----------------------------------------------------------------------------
(***************************************************************************)
(* The counters' arithmetic, and the choice of a free entry.               *)
(***************************************************************************)
LEMMA ModRange ==
  ASSUME NEW n \in Int, NEW N \in Nat \ {0}
  PROVE  n % N \in 0 .. N - 1
OBVIOUS

LEMMA ModSmall ==
  ASSUME NEW N \in Nat \ {0}, NEW n \in 0 .. N - 1
  PROVE  n % N = n
OBVIOUS

LEMMA NumRange ==
  ASSUME NEW n \in 0 .. NumSpace - 1
  PROVE  /\ Plus(n) \in 0 .. NumSpace - 1 /\ Minus(n) \in 0 .. NumSpace - 1
         /\ n + 1 < NumSpace => Plus(n) = n + 1
         /\ n > 0 => Minus(n) = n - 1
<1>1. NumSpace \in Nat \ {0} /\ n + 1 \in Int /\ n - 1 \in Int
  OBVIOUS
<1>2. n + 1 < NumSpace => n + 1 \in 0 .. NumSpace - 1
  OBVIOUS
<1>3. n > 0 => n - 1 \in 0 .. NumSpace - 1
  OBVIOUS
<1> QED
  BY <1>1, <1>2, <1>3, ModRange, ModSmall DEF Plus, Minus

LEMMA MinFree == FreeEntries # {} => Min(FreeEntries) \in FreeEntries
<1>1. FreeEntries \in SUBSET Nat
  BY DEF FreeEntries, Entries
<1> QED
  BY <1>1, MinIn

\* Sets of entries are finite, and their sizes within the counters' range.
LEMMA EntrySets ==
  ASSUME NEW S \in SUBSET Entries
  PROVE  IsFiniteSet(S) /\ Cardinality(S) \in 0 .. TableSize - 1
<1>1. IsFiniteSet(Entries) /\ Cardinality(Entries) = TableSize - 1
  BY FS_Interval DEF Entries
<1> QED
  BY <1>1, FS_Subset, FS_CardinalityType

LEMMA EntryAdded ==
  ASSUME NEW S \in SUBSET Entries, NEW i \in Entries \ S
  PROVE  /\ Cardinality(S \cup {i}) = Cardinality(S) + 1
         /\ Cardinality(S) \in 0 .. NumSpace - 1
         /\ Cardinality(S) + 1 < NumSpace
<1>1. IsFiniteSet(S) /\ Cardinality(S) \in 0 .. TableSize - 1
  BY EntrySets
<1>2. S \cup {i} \in SUBSET Entries
  OBVIOUS
<1>3. Cardinality(S \cup {i}) \in 0 .. TableSize - 1
  BY <1>2, EntrySets
<1>4. Cardinality(S \cup {i}) = Cardinality(S) + 1
  BY <1>1, FS_AddElement
<1> QED
  BY <1>1, <1>3, <1>4

LEMMA EntryRemoved ==
  ASSUME NEW S \in SUBSET Entries, NEW i \in S
  PROVE  /\ Cardinality(S \ {i}) = Cardinality(S) - 1
         /\ Cardinality(S) \in 1 .. NumSpace - 1
<1>1. /\ IsFiniteSet(S) /\ Cardinality(S) \in 0 .. TableSize - 1
      /\ Cardinality(S \ {i}) \in 0 .. TableSize - 1
  BY EntrySets
<1>2. Cardinality(S \ {i}) = Cardinality(S) - 1
  BY <1>1, FS_RemoveElement
<1> QED
  BY <1>1, <1>2

-----------------------------------------------------------------------------
(***************************************************************************)
(* What the assignments of one field do.                                   *)
(***************************************************************************)
LEMMA Constant ==
  /\ 0 \in Idxs /\ 0 \in 0 .. MaxRetry /\ 1 \in 0 .. MaxRetry
  /\ 0 \in 0 .. MaxRetry - 1 /\ 0 \in 0 .. NumSpace - 1
  /\ 0 \in 0 .. MaxQueued
  /\ TableSize - 1 \in Entries
  /\ \A i \in Entries : i \in Idxs /\ i # 0
  /\ \A i \in Idxs : i # 0 => i \in Entries
  /\ Stations \subseteq StaOrNone /\ NoStation \in StaOrNone
BY DEF Idxs, Entries, StaOrNone

LEMMA Idle ==
  /\ Unlocked \in TabType /\ Unlocked.pc = "idle" /\ Unlocked.Idx = 0
  /\ NoCall \in CallType /\ NoCall.pc = "idle" /\ ~NoCall.own
  /\ NoTimeout \in TtType /\ NoTimeout.pc = "idle"
  /\ NoMessage \in MlmeType /\ NoMessage.pc = "idle"
BY Constant DEF Unlocked, NoCall, NoTimeout, NoMessage,
                TabType, CallType, TtType, MlmeType

CallPcs == {"idle", "look", "alloc", "take", "test", "map", "status", "wcid",
            "token", "arm", "init", "cancel", "set"}
TtPcs == {"idle", "look", "test", "tries", "again", "count", "set", "pick",
          "free"}
MlmePcs == {"idle", "add", "test", "done", "count", "counted", "bit",
            "cancel", "tear", "release", "free", "gone", "reset"}
TabPcs == {"idle", "unmap", "look", "counted", "bit", "none", "token"}

LEMMA CallMoves ==
  ASSUME call \in [Callers -> CallType], NEW c \in Callers,
         NEW p \in CallPcs, CallAt(c, p)
  PROVE  /\ call' \in [Callers -> CallType]
         /\ call'[c].pc = p /\ call'[c].sta = call[c].sta
         /\ call'[c].Idx = call[c].Idx /\ call'[c].entry = call[c].entry
         /\ call'[c].own = call[c].own
         /\ \A d \in Callers : d # c => call'[d] = call[d]
<1> DEFINE r == [call[c] EXCEPT !.pc = p]
<1>1. /\ r \in CallType /\ r.pc = p /\ r.sta = call[c].sta
      /\ r.Idx = call[c].Idx /\ r.entry = call[c].entry /\ r.own = call[c].own
  BY DEF CallType, CallPcs
<1>2. call' = [call EXCEPT ![c] = r]
  BY DEF CallAt
<1> HIDE DEF r
<1> QED
  BY <1>1, <1>2

LEMMA CallReturns ==
  ASSUME call \in [Callers -> CallType], NEW c \in Callers, Return(c)
  PROVE  /\ call' \in [Callers -> CallType]
         /\ call'[c].pc = "idle" /\ ~call'[c].own
         /\ \A d \in Callers : d # c => call'[d] = call[d]
BY Idle DEF Return

LEMMA CallEnters ==
  ASSUME call \in [Callers -> CallType], NEW c \in Callers,
         NEW w \in Stations, Enter(c, w)
  PROVE  /\ call' \in [Callers -> CallType]
         /\ call'[c].pc = "look" /\ call'[c].sta = w
         /\ call'[c].Idx = 0 /\ ~call'[c].own
         /\ \A d \in Callers : d # c => call'[d] = call[d]
<1> DEFINE r == [NoCall EXCEPT !.pc = "look", !.sta = w]
<1>1. r \in CallType /\ r.pc = "look" /\ r.sta = w /\ r.Idx = 0 /\ ~r.own
  BY Constant DEF CallType, NoCall
<1>2. call' = [call EXCEPT ![c] = r]
  BY DEF Enter
<1> HIDE DEF r
<1> QED
  BY <1>1, <1>2

LEMMA TtMoves ==
  ASSUME tt \in TtType, NEW p \in TtPcs, TtAt(p)
  PROVE  /\ tt' \in TtType /\ tt'.pc = p /\ tt'.slot = tt.slot
         /\ tt'.sta = tt.sta /\ tt'.Idx = tt.Idx /\ tt'.n = tt.n
BY DEF TtAt, TtType, TtPcs

LEMMA MlmeMoves ==
  ASSUME mlme \in MlmeType, NEW p \in MlmePcs, MlmeAt(p)
  PROVE  /\ mlme' \in MlmeType /\ mlme'.pc = p /\ mlme'.sta = mlme.sta
         /\ mlme'.Idx = mlme.Idx /\ mlme'.n = mlme.n
         /\ mlme'.why = mlme.why
BY DEF MlmeAt, MlmeType, MlmePcs

LEMMA TabMoves ==
  ASSUME tab \in TabType, NEW p \in TabPcs, FreeAt(p)
  PROVE  /\ tab' \in TabType /\ tab'.pc = p /\ tab'.Idx = tab.Idx
         /\ tab'.sta = tab.sta /\ tab'.n = tab.n
BY DEF FreeAt, TabType, TabPcs

LEMMA GoesOn ==
  ASSUME mlme \in MlmeType, GoOn \/ Finish
  PROVE  /\ mlme' \in MlmeType
         /\ mlme'.pc \in {"idle", "gone", "reset"}
         /\ IF mlme'.pc = "idle"
              THEN mlme'.why = "peer"
              ELSE mlme'.sta = mlme.sta /\ mlme.why # "peer"
<1>1. ASSUME NEW p \in {"gone", "reset"},
             mlme' = [mlme EXCEPT !.pc = p, !.Idx = 0]
      PROVE  mlme' \in MlmeType /\ mlme'.pc = p /\ mlme'.sta = mlme.sta
  BY <1>1, Constant DEF MlmeType
<1>2. \/ mlme' = NoMessage
      \/ /\ mlme.why # "peer"
         /\ \E p \in {"gone", "reset"} :
              mlme' = [mlme EXCEPT !.pc = p, !.Idx = 0]
  BY DEF GoOn, Finish
<1>3. NoMessage.why = "peer"
  BY DEF NoMessage
<1> QED
  BY <1>1, <1>2, <1>3, Idle

LEMMA StatusWritten ==
  ASSUME ori \in [Entries -> OriType], NEW i \in Entries,
         NEW s \in Statuses, ori' = [ori EXCEPT ![i].status = s]
  PROVE  /\ ori' \in [Entries -> OriType]
         /\ ori'[i].status = s
         /\ \A j \in Entries : /\ ori'[j].Wcid = ori[j].Wcid
                               /\ ori'[j].Token = ori[j].Token
                               /\ j # i => ori'[j].status = ori[j].status
<1> DEFINE r == [ori[i] EXCEPT !.status = s]
<1>1. /\ r \in OriType /\ r.status = s /\ r.Wcid = ori[i].Wcid
      /\ r.Token = ori[i].Token
  BY DEF OriType
<1>2. ori' = [ori EXCEPT ![i] = r]
  OBVIOUS
<1> HIDE DEF r
<1> QED
  BY <1>1, <1>2

LEMMA TokenWritten ==
  ASSUME ori \in [Entries -> OriType], NEW i \in Entries,
         NEW t \in 0 .. MaxRetry, ori' = [ori EXCEPT ![i].Token = t]
  PROVE  /\ ori' \in [Entries -> OriType]
         /\ ori'[i].Token = t
         /\ \A j \in Entries : /\ ori'[j].Wcid = ori[j].Wcid
                               /\ ori'[j].status = ori[j].status
                               /\ j # i => ori'[j].Token = ori[j].Token
<1> DEFINE r == [ori[i] EXCEPT !.Token = t]
<1>1. /\ r \in OriType /\ r.Token = t /\ r.Wcid = ori[i].Wcid
      /\ r.status = ori[i].status
  BY DEF OriType
<1>2. ori' = [ori EXCEPT ![i] = r]
  OBVIOUS
<1> HIDE DEF r
<1> QED
  BY <1>1, <1>2

LEMMA WcidWritten ==
  ASSUME ori \in [Entries -> OriType], NEW i \in Entries,
         NEW w \in Stations, ori' = [ori EXCEPT ![i].Wcid = w]
  PROVE  /\ ori' \in [Entries -> OriType]
         /\ ori'[i].Wcid = w
         /\ \A j \in Entries : /\ ori'[j].Token = ori[j].Token
                               /\ ori'[j].status = ori[j].status
                               /\ j # i => ori'[j].Wcid = ori[j].Wcid
<1> DEFINE r == [ori[i] EXCEPT !.Wcid = w]
<1>1. /\ r \in OriType /\ r.Wcid = w /\ r.Token = ori[i].Token
      /\ r.status = ori[i].status
  BY Constant DEF OriType
<1>2. ori' = [ori EXCEPT ![i] = r]
  OBVIOUS
<1> HIDE DEF r
<1> QED
  BY <1>1, <1>2

LEMMA ArrWritten ==
  ASSUME mac \in [Stations -> MacType], NEW w, NEW i \in Idxs,
         mac' = [mac EXCEPT ![w].arr = i]
  PROVE  /\ mac' \in [Stations -> MacType]
         /\ w \in Stations => mac'[w].arr = i
         /\ \A v \in Stations : /\ mac'[v].TXBA = mac[v].TXBA
                                /\ v # w => mac'[v].arr = mac[v].arr
<1>1. CASE w \in Stations
  <2> DEFINE r == [mac[w] EXCEPT !.arr = i]
  <2>1. r \in MacType /\ r.arr = i /\ r.TXBA = mac[w].TXBA
    BY <1>1 DEF MacType
  <2>2. mac' = [mac EXCEPT ![w] = r]
    OBVIOUS
  <2> HIDE DEF r
  <2> QED
    BY <1>1, <2>1, <2>2
<1>2. CASE w \notin Stations
  BY <1>2
<1> QED
  BY <1>1, <1>2

LEMMA BitWritten ==
  ASSUME mac \in [Stations -> MacType], NEW w, NEW b \in BOOLEAN,
         mac' = [mac EXCEPT ![w].TXBA = b]
  PROVE  /\ mac' \in [Stations -> MacType]
         /\ w \in Stations => mac'[w].TXBA = b
         /\ \A v \in Stations : /\ mac'[v].arr = mac[v].arr
                                /\ v # w => mac'[v].TXBA = mac[v].TXBA
<1>1. CASE w \in Stations
  <2> DEFINE r == [mac[w] EXCEPT !.TXBA = b]
  <2>1. r \in MacType /\ r.TXBA = b /\ r.arr = mac[w].arr
    BY <1>1 DEF MacType
  <2>2. mac' = [mac EXCEPT ![w] = r]
    OBVIOUS
  <2> HIDE DEF r
  <2> QED
    BY <1>1, <2>1, <2>2
<1>2. CASE w \notin Stations
  BY <1>2
<1> QED
  BY <1>1, <1>2

LEMMA TimerOps ==
  ASSUME NEW t \in TimerType
  PROVE  /\ InitTimer(t) \in TimerType /\ SetTimer(t) \in TimerType
         /\ CancelTimer(t) \in TimerType /\ ReleaseTimer(t) \in TimerType
<1>1. CancelTimer(t) \in TimerType
  <2> DEFINE q == IF t.queued = 0 THEN 0 ELSE t.queued - 1
  <2>1. q \in 0 .. MaxQueued
    BY DEF TimerType
  <2>2. [t EXCEPT !.armed = FALSE, !.queued = q] \in TimerType
    <3> HIDE DEF q
    <3> QED
      BY <2>1 DEF TimerType
  <2> QED
    BY <2>2 DEF CancelTimer
<1> QED
  BY <1>1 DEF TimerType, InitTimer, SetTimer, ReleaseTimer

-----------------------------------------------------------------------------
(***************************************************************************)
(* Types.                                                                  *)
(***************************************************************************)

\* What a thread relies on inside ba_ori_session_setup.
CallOK(c) ==
  /\ call[c].pc # "idle" => call[c].sta \in Stations
  /\ call[c].pc \notin {"idle", "look", "alloc"} => call[c].entry \in Entries
  /\ call[c].own \/ call[c].pc = "take" => call[c].Idx = call[c].entry
  /\ call[c].pc \in {"look", "alloc"} => call[c].Idx = 0 /\ ~call[c].own
  /\ call[c].pc \in {"token", "arm", "init", "cancel", "set"}
       => ori[call[c].entry].Wcid \in Stations

\* Only an entry that was given a station has a timer.
EntryOK(i) ==
  timer[i].Valid \/ timer[i].armed \/ timer[i].queued > 0
    => ori[i].Wcid \in Stations

\* The request the timer thread is about to count has repetitions left.
TtOK ==
  /\ tt.pc # "idle" => tt.slot \in Entries /\ ori[tt.slot].Wcid \in Stations
  /\ tt.pc \notin {"idle", "look"} => tt.sta \in Stations
  /\ tt.pc = "again" => ori[tt.slot].Token < MaxRetry

MlmeOK ==
  /\ mlme.pc # "idle" \/ mlme.why # "peer" => mlme.sta \in Stations
  /\ mlme.pc \in {"test", "done", "count", "counted", "bit", "cancel",
                  "release", "free"} => mlme.Idx \in Entries

\* Whoever holds BATabLock holds it alone, and keeps others from freeing the
\* entry.
TabOK ==
  /\ tab.pc = "idle" => tab.Idx = 0
  /\ tab.pc # "idle" =>
       tab.Idx \in Entries /\ \A c \in Callers : call[c].pc # "take"
  /\ tab.pc \notin {"idle", "token"} => ori[tab.Idx].status # "NONE"
  /\ \A c, d \in Callers : call[c].pc = "take" /\ call[d].pc = "take" => c = d

HandsOK ==
  /\ \A c \in Callers : CallOK(c)
  /\ \A i \in Entries : EntryOK(i)
  /\ TtOK /\ MlmeOK /\ TabOK

TypeInv == TypeOK /\ HandsOK

\* What a step may do to an entry without harm to the others: give it a
\* station, set its count of requests to 0 or 1, keep it from freeing.
Keeps ==
  \A i \in Entries :
    /\ ori[i].Wcid \in Stations => ori'[i].Wcid \in Stations
    /\ ori[i].status # "NONE" => ori'[i].status # "NONE"
    /\ ori[i].Token < MaxRetry => ori'[i].Token < MaxRetry

LEMMA StandStill ==
  ASSUME HandsOK, Keeps
  PROVE  /\ \A c \in Callers : call'[c] = call[c] => CallOK(c)'
         /\ tt' = tt => TtOK'
         /\ mlme' = mlme => MlmeOK'
         /\ \A i \in Entries :
              timer'[i] = timer[i] /\ ori'[i].Wcid = ori[i].Wcid => EntryOK(i)'
         /\ tab' = tab /\ (\A c \in Callers : call'[c].pc = "take" =>
                             call[c].pc = "take") => TabOK'
<1>1. \A c \in Callers : call'[c] = call[c] => CallOK(c)'
  BY DEF HandsOK, CallOK, Keeps
<1>2. tt' = tt => TtOK'
  BY DEF HandsOK, TtOK, Keeps
<1>3. mlme' = mlme => MlmeOK'
  BY DEF HandsOK, MlmeOK
<1>4. \A i \in Entries :
        timer'[i] = timer[i] /\ ori'[i].Wcid = ori[i].Wcid => EntryOK(i)'
  BY DEF HandsOK, EntryOK
<1>5. tab' = tab /\ (\A c \in Callers : call'[c].pc = "take" =>
                       call[c].pc = "take") => TabOK'
  BY DEF HandsOK, TabOK, Keeps
<1> QED
  BY <1>1, <1>2, <1>3, <1>4, <1>5

LEMMA GoesOnOK ==
  ASSUME mlme \in MlmeType, MlmeOK, GoOn \/ Finish
  PROVE  mlme' \in MlmeType /\ MlmeOK'
BY GoesOn DEF MlmeOK

LEMMA Same == ori' = ori => Keeps
BY DEF Keeps

\* Every step keeps the types and what the threads rely on: first the steps
\* of ba_free_ori_entry.
LEMMA FreeTypes ==
  ASSUME TypeInv, Free
  PROVE  TypeInv'
<1>0. /\ mac \in [Stations -> MacType] /\ ori \in [Entries -> OriType]
      /\ num \in NumType /\ tab \in TabType /\ call \in [Callers -> CallType]
      /\ tt \in TtType /\ mlme \in MlmeType
      /\ hist \in [stale : BOOLEAN, below : BOOLEAN]
      /\ num.as \in 0 .. NumSpace - 1 /\ num.done \in 0 .. NumSpace - 1
      /\ tab.n \in 0 .. NumSpace - 1
      /\ TabOK /\ HandsOK
  BY DEF TypeInv, TypeOK, HandsOK, NumType, TabType
<1>1. \A p \in TabPcs \ {"idle"} : FreeAt(p) =>
        /\ tab' \in TabType /\ tab'.pc = p /\ tab'.Idx = tab.Idx
  BY <1>0, TabMoves
<1>2. CASE FreeUnmap
  <2>1. tab' \in TabType /\ tab'.pc = "look" /\ tab'.Idx = tab.Idx
    BY <1>1, <1>2 DEF FreeUnmap, TabPcs
  <2>2. mac' \in [Stations -> MacType]
    BY <1>0, <1>2, ArrWritten, Constant DEF FreeUnmap, Unmapped
  <2>3. TypeOK'
    BY <1>2, <2>1, <2>2 DEF FreeUnmap, TypeInv, TypeOK
  <2>4. TabOK'
    BY <1>0, <1>2, <2>1 DEF FreeUnmap, TabOK
  <2> QED
    BY <1>0, <1>2, <2>3, <2>4, StandStill, Same
    DEF FreeUnmap, TypeInv, HandsOK
<1>3. CASE FreeLook
  <2>1. CASE ori[tab.Idx].status = "Done"
    <3> DEFINE r == [tab EXCEPT !.pc = "counted", !.n = num.done]
    <3>1. tab' = r
      BY <1>3, <2>1 DEF FreeLook
    <3>2. r \in TabType /\ r.pc = "counted" /\ r.Idx = tab.Idx
      BY <1>0 DEF TabType
    <3> HIDE DEF r
    <3>3. TypeOK'
      BY <1>3, <3>1, <3>2 DEF FreeLook, TypeInv, TypeOK
    <3>4. TabOK'
      BY <1>0, <1>3, <3>1, <3>2 DEF FreeLook, TabOK
    <3> QED
      BY <1>0, <1>3, <3>3, <3>4, StandStill, Same
      DEF FreeLook, TypeInv, HandsOK
  <2>2. CASE ori[tab.Idx].status # "Done"
    <3>1. FreeAt("none")
      BY <1>3, <2>2 DEF FreeLook, FreeAt
    <3>2. tab' \in TabType /\ tab'.pc = "none" /\ tab'.Idx = tab.Idx
      BY <1>1, <3>1 DEF TabPcs
    <3>3. TypeOK'
      BY <1>3, <3>2 DEF FreeLook, TypeInv, TypeOK
    <3>4. TabOK'
      BY <1>0, <1>3, <3>2 DEF FreeLook, TabOK
    <3> QED
      BY <1>0, <1>3, <3>3, <3>4, StandStill, Same
      DEF FreeLook, TypeInv, HandsOK
  <2> QED
    BY <2>1, <2>2
<1>4. CASE FreeCounted
  <2>1. tab' \in TabType /\ tab'.pc = "bit" /\ tab'.Idx = tab.Idx
    BY <1>1, <1>4 DEF FreeCounted, TabPcs
  <2>2. num' \in NumType
    <3>1. Minus(tab.n) \in 0 .. NumSpace - 1
      BY <1>0, NumRange
    <3> QED
      BY <1>0, <1>4, <3>1 DEF FreeCounted, NumType
  <2>3. TypeOK'
    BY <1>0, <1>4, <2>1, <2>2 DEF FreeCounted, Stale, TypeInv, TypeOK
  <2>4. TabOK'
    BY <1>0, <1>4, <2>1 DEF FreeCounted, TabOK
  <2> QED
    BY <1>0, <1>4, <2>3, <2>4, StandStill, Same
    DEF FreeCounted, TypeInv, HandsOK
<1>5. CASE FreeBit
  <2>1. tab' \in TabType /\ tab'.pc = "none" /\ tab'.Idx = tab.Idx
    BY <1>1, <1>5 DEF FreeBit, TabPcs
  <2>2. mac' \in [Stations -> MacType]
    BY <1>0, <1>5, BitWritten DEF FreeBit, BitCleared
  <2>3. TypeOK'
    BY <1>5, <2>1, <2>2 DEF FreeBit, TypeInv, TypeOK
  <2>4. TabOK'
    BY <1>0, <1>5, <2>1 DEF FreeBit, TabOK
  <2> QED
    BY <1>0, <1>5, <2>3, <2>4, StandStill, Same DEF FreeBit, TypeInv, HandsOK
<1>6. CASE FreeNone
  <2>1. tab' \in TabType /\ tab'.pc = "token" /\ tab'.Idx = tab.Idx
    BY <1>1, <1>6 DEF FreeNone, TabPcs
  <2>2. num' \in NumType
    <3>1. Minus(num.as) \in 0 .. NumSpace - 1
      BY <1>0, NumRange
    <3> QED
      BY <1>0, <1>6, <3>1 DEF FreeNone, NumType
  <2>3. PICK i \in Entries : i = tab.Idx /\ tab.pc = "none"
    BY <1>0, <1>6 DEF FreeNone, TabOK
  <2>4. ori' = [ori EXCEPT ![i].status = "NONE"]
    BY <1>6, <2>3 DEF FreeNone
  <2>5. /\ ori' \in [Entries -> OriType]
        /\ \A j \in Entries : /\ ori'[j].Wcid = ori[j].Wcid
                              /\ ori'[j].Token = ori[j].Token
    BY <1>0, <2>4, StatusWritten DEF Statuses
  <2>6. TypeOK'
    BY <1>0, <1>6, <2>1, <2>2, <2>5 DEF FreeNone, TypeInv, TypeOK
  <2>7. TabOK'
    BY <1>0, <1>6, <2>1, <2>3 DEF FreeNone, TabOK
  <2>8. /\ \A c \in Callers : CallOK(c)'
        /\ \A j \in Entries : EntryOK(j)'
        /\ TtOK' /\ MlmeOK'
    BY <1>0, <1>6, <2>5 DEF FreeNone, HandsOK, CallOK, EntryOK, TtOK, MlmeOK
  <2> QED
    BY <2>6, <2>7, <2>8 DEF TypeInv, HandsOK
<1>7. CASE FreeToken
  <2>1. PICK i \in Entries : i = tab.Idx /\ tab.pc = "token"
    BY <1>0, <1>7 DEF FreeToken, TabOK
  <2>2. /\ ori' \in [Entries -> OriType] /\ ori'[i].Token = 0
        /\ \A j \in Entries : /\ ori'[j].Wcid = ori[j].Wcid
                              /\ ori'[j].status = ori[j].status
                              /\ j # i => ori'[j].Token = ori[j].Token
    <3>1. ori' = [ori EXCEPT ![i].Token = 0]
      BY <1>7, <2>1 DEF FreeToken
    <3> QED
      BY <1>0, <3>1, TokenWritten, Constant
  <2>3. Keeps
    BY <2>2 DEF Keeps
  <2>4. mlme' \in MlmeType /\ (mlme' # mlme => MlmeOK')
    BY <1>0, <1>7, GoesOnOK DEF FreeToken, HandsOK
  <2>5. tt' \in TtType /\ (tt' # tt => TtOK')
    BY <1>0, <1>7, Idle DEF FreeToken, TtOK
  <2>6. tab' = Unlocked /\ TabOK'
    BY <1>0, <1>7, Idle DEF FreeToken, TabOK
  <2>7. TypeOK'
    BY <1>0, <1>7, <2>2, <2>4, <2>5, <2>6, Idle
    DEF FreeToken, TypeInv, TypeOK
  <2> QED
    BY <1>0, <1>7, <2>2, <2>3, <2>4, <2>5, <2>6, <2>7, StandStill
    DEF FreeToken, TypeInv, HandsOK
<1> QED
  BY <1>2, <1>3, <1>4, <1>5, <1>6, <1>7 DEF Free

\* Taking BATabLock to free an entry.
LEMMA LockTypes ==
  ASSUME TypeInv, NEW i, NEW who \in {"tt", "mlme"}, ba_free_ori_entry(i, who)
  PROVE  /\ tab' \in TabType
         /\ hist' \in [stale : BOOLEAN, below : BOOLEAN]
         /\ ori' = ori /\ call' = call => TabOK'
<1> DEFINE r == [Unlocked EXCEPT !.pc = "unmap", !.by = who, !.Idx = i,
                                 !.sta = ori[i].Wcid]
<1>1. /\ i \in Entries /\ i \in Idxs /\ ori[i].status # "NONE" /\ tab' = r
      /\ LockFree /\ hist \in [stale : BOOLEAN, below : BOOLEAN] /\ TabOK
      /\ hist' = [hist EXCEPT !.stale = @ \/ InHand(i)]
      /\ InHand(i) \in BOOLEAN
  BY Constant DEF ba_free_ori_entry, Stale, TypeInv, TypeOK, HandsOK, InHand,
                  Establishing
<1>2. ori[i].Wcid \in StaOrNone
  <2>1. ori[i] \in OriType
    BY <1>1 DEF TypeInv, TypeOK
  <2> QED
    BY <2>1 DEF OriType
<1>3. r \in TabType /\ r.pc = "unmap" /\ r.Idx = i
  BY <1>1, <1>2, Constant DEF TabType, Unlocked
<1> HIDE DEF r
<1>4. hist' \in [stale : BOOLEAN, below : BOOLEAN]
  BY <1>1
<1>5. ori' = ori /\ call' = call => TabOK'
  BY <1>1, <1>3 DEF TabOK, LockFree
<1> QED
  BY <1>1, <1>3, <1>4, <1>5

\* The callers.
LEMMA SetupTypes ==
  ASSUME TypeInv, NEW c \in Callers, Setup(c)
  PROVE  TypeInv'
<1>0. /\ mac \in [Stations -> MacType] /\ ori \in [Entries -> OriType]
      /\ timer \in [Entries -> TimerType] /\ num \in NumType
      /\ call \in [Callers -> CallType]
      /\ hist \in [stale : BOOLEAN, below : BOOLEAN]
      /\ call[c].Idx \in Idxs /\ call[c].entry \in Idxs
      /\ CallOK(c) /\ TabOK /\ HandsOK
  BY DEF TypeInv, TypeOK, CallType, HandsOK
<1>1. CASE SetupLook(c)
  <2> DEFINE Idx == mac[call[c].sta].arr
             q == IF Idx = 0 THEN "alloc" ELSE "test"
             r == [call[c] EXCEPT !.Idx = Idx, !.entry = Idx, !.pc = q]
  <2>1. call[c].sta \in Stations /\ call[c].pc = "look"
    BY <1>0, <1>1 DEF SetupLook, CallOK
  <2>2. Idx \in Idxs
    BY <1>0, <2>1 DEF MacType
  <2>3. call' = [call EXCEPT ![c] = r]
    BY <1>0, <1>1 DEF SetupLook
  <2>4. /\ r \in CallType /\ r.pc = q /\ r.sta = call[c].sta /\ r.Idx = Idx
        /\ r.entry = Idx /\ r.own = call[c].own
    <3>1. q \in CallPcs /\ call[c] \in CallType
      BY <1>0 DEF CallPcs
    <3> HIDE DEF q, Idx
    <3> QED
      BY <2>2, <3>1 DEF CallType, CallPcs
  <2> HIDE DEF r
  <2>5. TypeOK'
    <3>1. call' \in [Callers -> CallType]
      BY <1>0, <2>3, <2>4
    <3>2. UNCHANGED <<mac, ori, timer, num, tab, tt, mlme, hist>>
      BY <1>1 DEF SetupLook
    <3> QED
      BY <3>1, <3>2 DEF TypeInv, TypeOK
  <2>6. CallOK(c)'
    BY <1>0, <2>1, <2>2, <2>3, <2>4, Constant DEF CallOK
  <2>7. /\ \A d \in Callers : d # c => call'[d] = call[d]
        /\ call'[c].pc # "take"
    BY <1>0, <2>3, <2>4
  <2> QED
    BY <1>0, <1>1, <2>5, <2>6, <2>7, StandStill, Same
    DEF SetupLook, TypeInv, HandsOK
<1>2. CASE ba_alloc_ori_entry(c)
  <2>0. /\ call[c].sta \in Stations /\ call[c].pc = "alloc" /\ LockFree
        /\ UNCHANGED <<mac, ori, timer, num, tab, tt, mlme, hist>>
    BY <1>0, <1>2 DEF ba_alloc_ori_entry, CallOK
  <2>1. CASE Return(c)
    <3>1. /\ call' \in [Callers -> CallType]
          /\ call'[c].pc = "idle" /\ ~call'[c].own
          /\ \A d \in Callers : d # c => call'[d] = call[d]
      BY <1>0, <2>1, CallReturns
    <3>2. TypeOK'
      BY <2>0, <3>1 DEF TypeInv, TypeOK
    <3>3. CallOK(c)'
      BY <3>1 DEF CallOK
    <3> QED
      BY <1>0, <2>0, <3>1, <3>2, <3>3, StandStill, Same DEF TypeInv, HandsOK
  <2>2. CASE /\ FreeEntries # {}
             /\ call' = [call EXCEPT ![c].pc = "take",
                                     ![c].Idx = Min(FreeEntries),
                                     ![c].entry = Min(FreeEntries)]
    <3>1. PICK i \in Entries : i = Min(FreeEntries)
      BY <2>2, MinFree DEF FreeEntries
    <3> DEFINE r == [call[c] EXCEPT !.pc = "take", !.Idx = i, !.entry = i]
    <3>2. call' = [call EXCEPT ![c] = r]
      BY <1>0, <2>2, <3>1
    <3>3. /\ r \in CallType /\ r.pc = "take" /\ r.sta = call[c].sta
          /\ r.Idx = i /\ r.entry = i
      BY <1>0, <3>1, Constant DEF CallType
    <3> HIDE DEF r
    <3>4. /\ \A d \in Callers : d # c => call'[d] = call[d]
          /\ call'[c] = r
      BY <1>0, <3>2
    <3>5. TypeOK'
      BY <1>0, <2>0, <3>2, <3>3 DEF TypeInv, TypeOK
    <3>6. CallOK(c)'
      BY <2>0, <3>1, <3>3, <3>4 DEF CallOK
    <3>7. TabOK'
      BY <1>0, <2>0, <3>4 DEF TabOK, LockFree
    <3> QED
      BY <1>0, <2>0, <3>4, <3>5, <3>6, <3>7, StandStill, Same
      DEF TypeInv, HandsOK
  <2>3. CASE call' = [call EXCEPT ![c].pc = "test", ![c].entry = TableSize - 1]
             /\ call[c].Idx = 0 /\ ~call[c].own
    <3> DEFINE r == [call[c] EXCEPT !.pc = "test", !.entry = TableSize - 1]
    <3>1. call' = [call EXCEPT ![c] = r]
      BY <1>0, <2>3
    <3>2. /\ r \in CallType /\ r.pc = "test" /\ r.sta = call[c].sta
          /\ r.entry = TableSize - 1 /\ r.own = call[c].own
      BY <1>0, Constant DEF CallType
    <3> HIDE DEF r
    <3>3. \A d \in Callers : d # c => call'[d] = call[d]
      BY <1>0, <3>1
    <3>4. TypeOK'
      BY <1>0, <2>0, <3>1, <3>2 DEF TypeInv, TypeOK
    <3>5. CallOK(c)'
      BY <1>0, <2>0, <2>3, <3>1, <3>2, Constant DEF CallOK
    <3>6. call'[c].pc # "take"
      BY <1>0, <3>1, <3>2
    <3> QED
      BY <1>0, <2>0, <3>3, <3>4, <3>5, <3>6, StandStill, Same
      DEF TypeInv, HandsOK
  <2> QED
    BY <1>0, <1>2, <2>0, <2>1, <2>2, <2>3 DEF ba_alloc_ori_entry, CallOK
<1>3. CASE Take(c)
  <2>1. PICK i \in Entries : i = call[c].entry /\ call[c].pc = "take"
    BY <1>0, <1>3 DEF Take, CallOK
  <2> DEFINE r == [call[c] EXCEPT !.pc = "test", !.own = TRUE]
  <2>2. call' = [call EXCEPT ![c] = r]
    BY <1>0, <1>3 DEF Take
  <2>3. /\ r \in CallType /\ r.pc = "test" /\ r.sta = call[c].sta
        /\ r.Idx = call[c].Idx /\ r.entry = i
    BY <1>0, <2>1 DEF CallType
  <2> HIDE DEF r
  <2>4. ori' = [ori EXCEPT ![i].status = "USED"]
    BY <1>3, <2>1 DEF Take
  <2>5. /\ ori' \in [Entries -> OriType] /\ ori'[i].status = "USED"
        /\ \A j \in Entries : /\ ori'[j].Wcid = ori[j].Wcid
                              /\ ori'[j].Token = ori[j].Token
                              /\ j # i => ori'[j].status = ori[j].status
    BY <1>0, <2>4, StatusWritten DEF Statuses
  <2>6. num' \in NumType
    <3>1. num.as \in 0 .. NumSpace - 1
      BY <1>0 DEF NumType
    <3>2. Plus(num.as) \in 0 .. NumSpace - 1
      BY <3>1, NumRange
    <3> QED
      BY <1>0, <1>3, <3>2 DEF Take, CountedAlloc, NumType
  <2>7. TypeOK'
    <3>1. call' \in [Callers -> CallType]
      BY <1>0, <2>2, <2>3
    <3>2. UNCHANGED <<mac, timer, tab, tt, mlme, hist>>
      BY <1>3 DEF Take
    <3> QED
      BY <2>5, <2>6, <3>1, <3>2 DEF TypeInv, TypeOK
  <2>8. Keeps
    BY <2>5 DEF Keeps
  <2>9. CallOK(c)'
    BY <1>0, <2>1, <2>2, <2>3, <2>5 DEF CallOK
  <2>10. /\ \A d \in Callers : d # c => call'[d] = call[d]
         /\ call'[c].pc # "take"
    BY <1>0, <2>2, <2>3
  <2> QED
    BY <1>0, <1>3, <2>5, <2>7, <2>8, <2>9, <2>10, StandStill
    DEF Take, TypeInv, HandsOK
<1>4. CASE SetupTest(c)
  <2>1. CASE Return(c)
    <3>1. /\ call' \in [Callers -> CallType]
          /\ call'[c].pc = "idle" /\ ~call'[c].own
          /\ \A d \in Callers : d # c => call'[d] = call[d]
      BY <1>0, <2>1, CallReturns
    <3>2. TypeOK'
      BY <1>4, <3>1 DEF SetupTest, TypeInv, TypeOK
    <3>3. CallOK(c)'
      BY <3>1 DEF CallOK
    <3> QED
      BY <1>0, <1>4, <3>1, <3>2, <3>3, StandStill, Same
      DEF SetupTest, TypeInv, HandsOK
  <2>2. CASE CallAt(c, "map")
    <3>1. /\ call' \in [Callers -> CallType]
          /\ call'[c].pc = "map" /\ call'[c].sta = call[c].sta
          /\ call'[c].Idx = call[c].Idx /\ call'[c].entry = call[c].entry
          /\ call'[c].own = call[c].own
          /\ \A d \in Callers : d # c => call'[d] = call[d]
      BY <1>0, <2>2, CallMoves DEF CallPcs
    <3>2. TypeOK'
      BY <1>4, <3>1 DEF SetupTest, TypeInv, TypeOK
    <3>3. CallOK(c)'
      BY <1>0, <1>4, <3>1 DEF SetupTest, CallOK
    <3> QED
      BY <1>0, <1>4, <3>1, <3>2, <3>3, StandStill, Same
      DEF SetupTest, TypeInv, HandsOK
  <2> QED
    BY <1>4, <2>1, <2>2 DEF SetupTest
<1>5. CASE SetupMap(c)
  <2>1. PICK w \in Stations : w = call[c].sta /\ call[c].pc = "map"
    BY <1>0, <1>5 DEF SetupMap, CallOK
  <2>2. /\ call' \in [Callers -> CallType]
        /\ call'[c].pc = "status" /\ call'[c].sta = call[c].sta
        /\ call'[c].Idx = call[c].Idx /\ call'[c].entry = call[c].entry
        /\ call'[c].own = call[c].own
        /\ \A d \in Callers : d # c => call'[d] = call[d]
    BY <1>0, <1>5, CallMoves DEF SetupMap, CallPcs
  <2>3. mac' \in [Stations -> MacType]
    BY <1>0, <1>5, ArrWritten DEF SetupMap
  <2>4. TypeOK'
    BY <1>0, <1>5, <2>2, <2>3 DEF SetupMap, Stale, TypeInv, TypeOK
  <2>5. CallOK(c)'
    BY <1>0, <1>5, <2>1, <2>2 DEF SetupMap, CallOK
  <2> QED
    BY <1>0, <1>5, <2>2, <2>4, <2>5, StandStill, Same
    DEF SetupMap, TypeInv, HandsOK
<1>6. CASE SetupStatus(c)
  <2>1. PICK i \in Entries : i = call[c].entry /\ call[c].pc = "status"
    BY <1>0, <1>6 DEF SetupStatus, CallOK
  <2>2. /\ call' \in [Callers -> CallType]
        /\ call'[c].pc = "wcid" /\ call'[c].sta = call[c].sta
        /\ call'[c].Idx = call[c].Idx /\ call'[c].entry = call[c].entry
        /\ call'[c].own = call[c].own
        /\ \A d \in Callers : d # c => call'[d] = call[d]
    BY <1>0, <1>6, CallMoves DEF SetupStatus, CallPcs
  <2>3. ori' = [ori EXCEPT ![i].status = "WaitRes"]
    BY <1>6, <2>1 DEF SetupStatus
  <2>4. /\ ori' \in [Entries -> OriType] /\ ori'[i].status = "WaitRes"
        /\ \A j \in Entries : /\ ori'[j].Wcid = ori[j].Wcid
                              /\ ori'[j].Token = ori[j].Token
                              /\ j # i => ori'[j].status = ori[j].status
    BY <1>0, <2>3, StatusWritten DEF Statuses
  <2>5. TypeOK'
    BY <1>6, <2>2, <2>4 DEF SetupStatus, TypeInv, TypeOK
  <2>6. CallOK(c)' /\ Keeps
    BY <1>0, <2>1, <2>2, <2>4 DEF CallOK, Keeps
  <2> QED
    BY <1>0, <1>6, <2>2, <2>4, <2>5, <2>6, StandStill
    DEF SetupStatus, TypeInv, HandsOK
<1>7. CASE SetupWcid(c)
  <2>1. PICK i \in Entries, w \in Stations :
          i = call[c].entry /\ w = call[c].sta /\ call[c].pc = "wcid"
    BY <1>0, <1>7 DEF SetupWcid, CallOK
  <2>2. /\ call' \in [Callers -> CallType]
        /\ call'[c].pc = "token" /\ call'[c].sta = call[c].sta
        /\ call'[c].Idx = call[c].Idx /\ call'[c].entry = call[c].entry
        /\ call'[c].own = call[c].own
        /\ \A d \in Callers : d # c => call'[d] = call[d]
    BY <1>0, <1>7, CallMoves DEF SetupWcid, CallPcs
  <2>3. ori' = [ori EXCEPT ![i].Wcid = w]
    BY <1>7, <2>1 DEF SetupWcid
  <2>4. /\ ori' \in [Entries -> OriType] /\ ori'[i].Wcid = w
        /\ \A j \in Entries : /\ ori'[j].Token = ori[j].Token
                              /\ ori'[j].status = ori[j].status
                              /\ j # i => ori'[j].Wcid = ori[j].Wcid
    BY <1>0, <2>3, WcidWritten
  <2>5. TypeOK'
    BY <1>7, <2>2, <2>4 DEF SetupWcid, TypeInv, TypeOK
  <2>6. CallOK(c)' /\ Keeps
    BY <1>0, <2>1, <2>2, <2>4 DEF CallOK, Keeps
  <2>7. EntryOK(i)'
    BY <2>4 DEF EntryOK
  <2> QED
    BY <1>0, <1>7, <2>2, <2>4, <2>5, <2>6, <2>7, StandStill
    DEF SetupWcid, TypeInv, HandsOK
<1>8. CASE SetupToken(c)
  <2>1. PICK i \in Entries : i = call[c].entry /\ call[c].pc = "token"
    BY <1>0, <1>8 DEF SetupToken, CallOK
  <2>2. /\ call' \in [Callers -> CallType]
        /\ call'[c].pc = "arm" /\ call'[c].sta = call[c].sta
        /\ call'[c].Idx = call[c].Idx /\ call'[c].entry = call[c].entry
        /\ call'[c].own = call[c].own
        /\ \A d \in Callers : d # c => call'[d] = call[d]
    BY <1>0, <1>8, CallMoves DEF SetupToken, CallPcs
  <2>3. ori' = [ori EXCEPT ![i].Token = 1]
    BY <1>8, <2>1 DEF SetupToken
  <2>4. /\ ori' \in [Entries -> OriType] /\ ori'[i].Token = 1
        /\ \A j \in Entries : /\ ori'[j].Wcid = ori[j].Wcid
                              /\ ori'[j].status = ori[j].status
                              /\ j # i => ori'[j].Token = ori[j].Token
    BY <1>0, <2>3, TokenWritten, Constant
  <2>5. TypeOK'
    BY <1>8, <2>2, <2>4 DEF SetupToken, TypeInv, TypeOK
  <2>6. CallOK(c)' /\ Keeps
    BY <1>0, <2>1, <2>2, <2>4 DEF CallOK, Keeps
  <2> QED
    BY <1>0, <1>8, <2>2, <2>4, <2>5, <2>6, StandStill
    DEF SetupToken, TypeInv, HandsOK
<1>9. CASE SetupArm(c)
  <2>1. PICK q \in {"cancel", "init"} :
          CallAt(c, q) /\ call[c].pc = "arm"
    BY <1>9 DEF SetupArm
  <2>2. /\ call' \in [Callers -> CallType]
        /\ call'[c].pc = q /\ call'[c].sta = call[c].sta
        /\ call'[c].Idx = call[c].Idx /\ call'[c].entry = call[c].entry
        /\ call'[c].own = call[c].own
        /\ \A d \in Callers : d # c => call'[d] = call[d]
    BY <1>0, <2>1, CallMoves DEF CallPcs
  <2>3. hist' \in [stale : BOOLEAN, below : BOOLEAN]
    <3>1. mac[call[c].sta].TXBA \in BOOLEAN
      BY <1>0, <2>1 DEF CallOK, MacType
    <3> QED
      BY <1>0, <1>9, <3>1 DEF SetupArm, Stale
  <2>4. TypeOK'
    BY <1>9, <2>2, <2>3 DEF SetupArm, TypeInv, TypeOK
  <2>5. CallOK(c)'
    BY <1>0, <1>9, <2>1, <2>2 DEF SetupArm, CallOK
  <2> QED
    BY <1>0, <1>9, <2>2, <2>4, <2>5, StandStill, Same
    DEF SetupArm, TypeInv, HandsOK
<1>10. CASE SetupTimer(c)
  <2>1. PICK i \in Entries :
          i = call[c].entry /\ ori[i].Wcid \in Stations
    BY <1>0, <1>10 DEF SetupTimer, CallOK
  <2>2. PICK t \in {InitTimer(timer[i]), CancelTimer(timer[i]),
                    SetTimer(timer[i])} : timer' = [timer EXCEPT ![i] = t]
    BY <1>10, <2>1 DEF SetupTimer
  <2>3. timer' \in [Entries -> TimerType]
    BY <1>0, <2>2, TimerOps
  <2>4. /\ call' \in [Callers -> CallType]
        /\ CallOK(c)' /\ call'[c].pc # "take"
        /\ \A d \in Callers : d # c => call'[d] = call[d]
    <3>1. CASE Return(c)
      BY <3>1, <1>0, CallReturns DEF CallOK
    <3>2. CASE CallAt(c, "set") /\ call[c].pc \in {"init", "cancel"}
      <4>1. /\ call' \in [Callers -> CallType]
            /\ call'[c].pc = "set" /\ call'[c].sta = call[c].sta
            /\ call'[c].Idx = call[c].Idx /\ call'[c].entry = call[c].entry
            /\ call'[c].own = call[c].own
            /\ \A d \in Callers : d # c => call'[d] = call[d]
        BY <1>0, <3>2, CallMoves DEF CallPcs
      <4> QED
        BY <1>0, <1>10, <3>2, <4>1 DEF SetupTimer, CallOK
    <3> QED
      BY <1>10, <3>1, <3>2 DEF SetupTimer
  <2>5. TypeOK'
    BY <1>10, <2>3, <2>4 DEF SetupTimer, TypeInv, TypeOK
  <2>6. EntryOK(i)' /\ \A j \in Entries : j # i => timer'[j] = timer[j]
    BY <1>0, <1>10, <2>1, <2>2 DEF SetupTimer, EntryOK
  <2> QED
    BY <1>0, <1>10, <2>4, <2>5, <2>6, StandStill, Same
    DEF SetupTimer, TypeInv, HandsOK
<1> QED
  BY <1>1, <1>2, <1>3, <1>4, <1>5, <1>6, <1>7, <1>8, <1>9, <1>10 DEF Setup

\* The timer and the timer thread.
LEMMA TimeoutTypes ==
  ASSUME TypeInv, Timeout \/ \E i \in Entries : TimerFires(i)
  PROVE  TypeInv'
<1>0. /\ mac \in [Stations -> MacType] /\ ori \in [Entries -> OriType]
      /\ timer \in [Entries -> TimerType] /\ tt \in TtType
      /\ hist \in [stale : BOOLEAN, below : BOOLEAN] /\ tt.Idx \in Idxs
      /\ TtOK /\ HandsOK
  BY DEF TypeInv, TypeOK, TtType, HandsOK
<1>1. ASSUME NEW i \in Entries, TimerFires(i)
      PROVE  TypeInv'
  <2> DEFINE q == timer[i].queued + 1
             t == [timer[i] EXCEPT !.armed = FALSE, !.queued = q]
  <2>1. /\ timer[i] \in TimerType /\ timer[i].armed
        /\ timer[i].queued < MaxQueued
    BY <1>0, <1>1 DEF TimerFires
  <2>2. timer' = [timer EXCEPT ![i] = t]
    BY <1>1 DEF TimerFires
  <2>3. t \in TimerType
    <3>1. q \in 0 .. MaxQueued
      BY <2>1 DEF TimerType
    <3> HIDE DEF q
    <3> QED
      BY <2>1, <3>1 DEF TimerType
  <2> HIDE DEF t
  <2>4. TypeOK'
    <3>1. timer' \in [Entries -> TimerType]
      BY <1>0, <2>2, <2>3
    <3>2. UNCHANGED <<mac, ori, num, tab, call, tt, mlme, hist>>
      BY <1>1 DEF TimerFires
    <3> QED
      BY <3>1, <3>2 DEF TypeInv, TypeOK
  <2>5. EntryOK(i)' /\ \A j \in Entries : j # i => timer'[j] = timer[j]
    BY <1>0, <1>1, <2>1, <2>2 DEF TimerFires, EntryOK, HandsOK
  <2> QED
    BY <1>0, <1>1, <2>4, <2>5, StandStill, Same
    DEF TimerFires, TypeInv, HandsOK
<1>2. ASSUME NEW i \in Entries, RtmpTimerQHandle(i)
      PROVE  TypeInv'
  <2> DEFINE q == timer[i].queued - 1
             t == [timer[i] EXCEPT !.queued = q]
             r == [NoTimeout EXCEPT !.pc = "look", !.slot = i]
  <2>1. timer[i] \in TimerType /\ timer[i].queued > 0
    BY <1>0, <1>2 DEF RtmpTimerQHandle
  <2>2. timer' = [timer EXCEPT ![i] = t] /\ tt' = r
    BY <1>2 DEF RtmpTimerQHandle
  <2>3. t \in TimerType
    <3>1. q \in 0 .. MaxQueued
      BY <2>1 DEF TimerType
    <3> HIDE DEF q
    <3> QED
      BY <2>1, <3>1 DEF TimerType
  <2>4. r \in TtType /\ r.pc = "look" /\ r.slot = i
    BY Constant DEF TtType, NoTimeout
  <2> HIDE DEF t, r
  <2>5. TypeOK'
    BY <1>0, <1>2, <2>2, <2>3, <2>4 DEF RtmpTimerQHandle, TypeInv, TypeOK
  <2>6. ori[i].Wcid \in Stations
    BY <1>0, <2>1 DEF HandsOK, EntryOK
  <2>7. /\ EntryOK(i)' /\ TtOK'
        /\ \A j \in Entries : j # i => timer'[j] = timer[j]
    BY <1>0, <1>2, <2>2, <2>4, <2>6 DEF RtmpTimerQHandle, EntryOK, TtOK
  <2> QED
    BY <1>0, <1>2, <2>5, <2>7, StandStill, Same
    DEF RtmpTimerQHandle, TypeInv, HandsOK
<1>3. CASE TimeoutLook
  <2> DEFINE r == [tt EXCEPT !.pc = "test", !.sta = ori[tt.slot].Wcid]
  <2>1. tt' = r /\ tt.slot \in Entries /\ ori[tt.slot].Wcid \in Stations
    BY <1>0, <1>3 DEF TimeoutLook, TtOK
  <2>2. /\ r \in TtType /\ r.pc = "test" /\ r.slot = tt.slot
        /\ r.sta = ori[tt.slot].Wcid
    BY <1>0, <2>1, Constant DEF TtType
  <2> HIDE DEF r
  <2>3. TypeOK' /\ TtOK'
    BY <1>3, <2>1, <2>2 DEF TimeoutLook, TypeInv, TypeOK, TtOK
  <2> QED
    BY <1>0, <1>3, <2>3, StandStill, Same DEF TimeoutLook, TypeInv, HandsOK
<1>4. CASE TimeoutTest \/ TimeoutTries
  <2>1. PICK p \in {"tries", "again", "pick"} : TtAt(p)
    BY <1>4 DEF TimeoutTest, TimeoutTries
  <2>2. /\ tt' \in TtType /\ tt'.pc = p /\ tt'.slot = tt.slot
        /\ tt'.sta = tt.sta
    BY <1>0, <2>1, TtMoves DEF TtPcs
  <2>3. TypeOK'
    BY <1>4, <2>2 DEF TimeoutTest, TimeoutTries, TypeInv, TypeOK
  <2>4. p = "again" => ori[tt.slot].Token < MaxRetry
    <3>1. ~(ori[tt.slot].Token < MaxRetry) => tt'.pc \in {"tries", "pick"}
      <4>1. ~(ori[tt.slot].Token < MaxRetry) => TtAt("tries") \/ TtAt("pick")
        BY <1>4 DEF TimeoutTest, TimeoutTries
      <4> QED
        BY <1>0, <4>1, TtMoves DEF TtPcs
    <3> QED
      BY <2>2, <3>1
  <2>5. TtOK'
    BY <1>0, <1>4, <2>2, <2>4 DEF TimeoutTest, TimeoutTries, TtOK
  <2> QED
    BY <1>0, <1>4, <2>3, <2>5, StandStill, Same
    DEF TimeoutTest, TimeoutTries, TypeInv, HandsOK
<1>5. CASE TimeoutAgain
  <2> DEFINE n == ori[tt.slot].Token
             r == [tt EXCEPT !.pc = "count", !.n = n]
  <2>1. tt' = r /\ tt.slot \in Entries /\ n < MaxRetry
    BY <1>0, <1>5 DEF TimeoutAgain, TtOK
  <2>2. n \in 0 .. MaxRetry - 1
    <3>1. n \in 0 .. MaxRetry
      BY <1>0, <2>1 DEF OriType
    <3> QED
      BY <2>1, <3>1
  <2>3. r \in TtType /\ r.pc = "count" /\ r.slot = tt.slot /\ r.sta = tt.sta
    <3> HIDE DEF n
    <3> QED
      BY <1>0, <2>2 DEF TtType
  <2> HIDE DEF r
  <2>4. TypeOK' /\ TtOK'
    BY <1>0, <1>5, <2>1, <2>3 DEF TimeoutAgain, TypeInv, TypeOK, TtOK
  <2> QED
    BY <1>0, <1>5, <2>4, StandStill, Same DEF TimeoutAgain, TypeInv, HandsOK
<1>6. CASE TimeoutCount
  <2>1. PICK i \in Entries : i = tt.slot /\ tt.pc = "count"
    BY <1>0, <1>6 DEF TimeoutCount, TtOK
  <2>2. ori' = [ori EXCEPT ![i].Token = tt.n + 1] /\ tt.n + 1 \in 0 .. MaxRetry
    <3>1. tt.n \in 0 .. MaxRetry - 1
      BY <1>0 DEF TtType
    <3> QED
      BY <1>6, <2>1, <3>1 DEF TimeoutCount
  <2>3. /\ ori' \in [Entries -> OriType]
        /\ \A j \in Entries : /\ ori'[j].Wcid = ori[j].Wcid
                              /\ ori'[j].status = ori[j].status
    BY <1>0, <2>2, TokenWritten
  <2>4. /\ tt' \in TtType /\ tt'.pc = "set" /\ tt'.slot = tt.slot
        /\ tt'.sta = tt.sta
    BY <1>0, <1>6, TtMoves DEF TimeoutCount, TtPcs
  <2>5. TypeOK'
    BY <1>6, <2>3, <2>4 DEF TimeoutCount, TypeInv, TypeOK
  <2>6. TtOK'
    BY <1>0, <2>1, <2>3, <2>4 DEF TtOK
  <2>7. /\ \A c \in Callers : CallOK(c)' /\ \A j \in Entries : EntryOK(j)'
        /\ MlmeOK' /\ TabOK'
    BY <1>0, <1>6, <2>3
    DEF TimeoutCount, HandsOK, CallOK, EntryOK, MlmeOK, TabOK
  <2> QED
    BY <2>5, <2>6, <2>7 DEF TypeInv, HandsOK
<1>7. CASE TimeoutSet
  <2>1. PICK i \in Entries : i = tt.slot /\ ori[i].Wcid \in Stations
    BY <1>0, <1>7 DEF TimeoutSet, TtOK
  <2>2. timer' = [timer EXCEPT ![i] = SetTimer(timer[i])] /\ tt' = NoTimeout
    BY <1>7, <2>1 DEF TimeoutSet, Retry
  <2>3. timer' \in [Entries -> TimerType]
    BY <1>0, <2>2, TimerOps
  <2>4. TypeOK' /\ TtOK'
    BY <1>7, <2>2, <2>3, Idle DEF TimeoutSet, TypeInv, TypeOK, TtOK
  <2>5. EntryOK(i)' /\ \A j \in Entries : j # i => timer'[j] = timer[j]
    BY <1>0, <1>7, <2>1, <2>2 DEF TimeoutSet, EntryOK
  <2> QED
    BY <1>0, <1>7, <2>4, <2>5, StandStill, Same
    DEF TimeoutSet, TypeInv, HandsOK
<1>8. CASE TimeoutPick
  <2> DEFINE Idx == mac[tt.sta].arr
             r == [tt EXCEPT !.pc = "free", !.Idx = Idx]
  <2>1. tt' = r /\ tt.sta \in Stations
    BY <1>0, <1>8 DEF TimeoutPick, TtOK
  <2>2. Idx \in Idxs
    BY <1>0, <2>1 DEF MacType
  <2>3. r \in TtType /\ r.pc = "free" /\ r.slot = tt.slot /\ r.sta = tt.sta
    BY <1>0, <2>2 DEF TtType
  <2> HIDE DEF r
  <2>4. TypeOK' /\ TtOK'
    BY <1>0, <1>8, <2>1, <2>3 DEF TimeoutPick, TypeInv, TypeOK, TtOK
  <2> QED
    BY <1>0, <1>8, <2>4, StandStill, Same DEF TimeoutPick, TypeInv, HandsOK
<1>9. CASE TimeoutFree
  <2>1. CASE ba_free_ori_entry(tt.Idx, "tt") /\ UNCHANGED tt
    <3>1. TypeOK' /\ TabOK'
      BY <1>9, <2>1, LockTypes DEF TimeoutFree, TypeInv, TypeOK
    <3> QED
      BY <1>0, <1>9, <2>1, <3>1, StandStill, Same
      DEF TimeoutFree, TypeInv, HandsOK
  <2>2. CASE tt' = NoTimeout /\ UNCHANGED <<tab, hist>>
    <3>1. TypeOK' /\ TtOK'
      BY <1>9, <2>2, Idle DEF TimeoutFree, TypeInv, TypeOK, TtOK
    <3> QED
      BY <1>0, <1>9, <2>2, <3>1, StandStill, Same
      DEF TimeoutFree, TypeInv, HandsOK
  <2> QED
    BY <1>9, <2>1, <2>2 DEF TimeoutFree
<1> QED
  BY <1>1, <1>2, <1>3, <1>4, <1>5, <1>6, <1>7, <1>8, <1>9 DEF Timeout

\* Who asks for a session, and the messages the MLME thread takes.
LEMMA EnterTypes ==
  ASSUME TypeInv, NEW c \in Callers, NEW w \in Stations, Enter(c, w),
         mac' \in [Stations -> MacType],
         UNCHANGED <<ori, timer, num, tab, tt, mlme, hist>>
  PROVE  TypeInv'
<1>1. /\ call' \in [Callers -> CallType]
      /\ call'[c].pc = "look" /\ call'[c].sta = w
      /\ call'[c].Idx = 0 /\ ~call'[c].own
      /\ \A d \in Callers : d # c => call'[d] = call[d]
  BY CallEnters DEF TypeInv, TypeOK
<1>2. TypeOK'
  BY <1>1 DEF TypeInv, TypeOK
<1>3. CallOK(c)'
  BY <1>1 DEF CallOK
<1> QED
  BY <1>1, <1>2, <1>3, StandStill, Same DEF TypeInv, HandsOK

LEMMA BeginTypes ==
  ASSUME TypeInv, NEW w \in Stations, NEW p \in {"add", "tear"},
         NEW why \in {"peer", "auth", "delete", "insert"}, Begin(w, p, why),
         UNCHANGED <<mac, ori, timer, num, tab, call, tt, hist>>
  PROVE  TypeInv'
<1> DEFINE r == [NoMessage EXCEPT !.pc = p, !.sta = w, !.why = why]
<1>1. mlme' = r
  BY DEF Begin
<1>2. r \in MlmeType /\ r.sta = w /\ r.pc = p
  BY Constant DEF MlmeType, NoMessage
<1> HIDE DEF r
<1>3. TypeOK' /\ MlmeOK'
  BY <1>1, <1>2 DEF TypeInv, TypeOK, MlmeOK
<1> QED
  BY <1>3, StandStill, Same DEF TypeInv, HandsOK

LEMMA MessageTypes ==
  ASSUME TypeInv, NEW w \in Stations, Message(w)
  PROVE  TypeInv'
<1>1. CASE peer_addba_rsp_action(w)
  BY <1>1, BeginTypes DEF peer_addba_rsp_action
<1>2. CASE peer_delba_action(w)
  BY <1>2, BeginTypes DEF peer_delba_action
<1>3. CASE ap_peer_auth(w)
  BY <1>3, BeginTypes DEF ap_peer_auth
<1>4. CASE ap_assoc(w)
  <2>1. mac' \in [Stations -> MacType]
    BY <1>4, BitWritten DEF ap_assoc, TypeInv, TypeOK
  <2> QED
    BY <1>4, <2>1, EnterTypes DEF ap_assoc
<1>5. CASE MacTableDeleteEntry(w)
  BY <1>5, BeginTypes DEF MacTableDeleteEntry
<1>6. CASE MacTableInsertEntry(w)
  BY <1>6, BeginTypes DEF MacTableInsertEntry
<1> QED
  BY <1>1, <1>2, <1>3, <1>4, <1>5, <1>6 DEF Message

\* The steps inside the MLME thread's handlers.
LEMMA HandlerTypes ==
  ASSUME TypeInv, Handler
  PROVE  TypeInv'
<1>0. /\ mac \in [Stations -> MacType] /\ ori \in [Entries -> OriType]
      /\ timer \in [Entries -> TimerType] /\ num \in NumType
      /\ mlme \in MlmeType /\ hist \in [stale : BOOLEAN, below : BOOLEAN]
      /\ num.done \in 0 .. NumSpace - 1 /\ mlme.n \in 0 .. NumSpace - 1
      /\ MlmeOK /\ HandsOK
  BY DEF TypeInv, TypeOK, HandsOK, NumType, MlmeType
<1>1. \A p \in MlmePcs : MlmeAt(p) =>
        /\ mlme' \in MlmeType /\ mlme'.pc = p /\ mlme'.sta = mlme.sta
        /\ mlme'.Idx = mlme.Idx
  BY <1>0, MlmeMoves
<1>2. \A i \in Entries, p \in {"test", "release"} :
        mlme' = [mlme EXCEPT !.pc = p, !.Idx = i] /\ mlme.pc # "idle"
          => mlme' \in MlmeType /\ MlmeOK'
  <2> SUFFICES ASSUME NEW i \in Entries, NEW p \in {"test", "release"},
                      mlme' = [mlme EXCEPT !.pc = p, !.Idx = i],
                      mlme.pc # "idle"
               PROVE  mlme' \in MlmeType /\ MlmeOK'
    OBVIOUS
  <2> DEFINE r == [mlme EXCEPT !.pc = p, !.Idx = i]
  <2>1. r \in MlmeType /\ r.pc = p /\ r.Idx = i /\ r.sta = mlme.sta
    BY <1>0, Constant DEF MlmeType
  <2>2. mlme' = r /\ mlme.sta \in Stations
    BY <1>0 DEF MlmeOK
  <2> HIDE DEF r
  <2> QED
    BY <2>1, <2>2 DEF MlmeOK
<1>3. mlme.pc # "idle" => mlme.sta \in Stations /\ mac[mlme.sta].arr \in Idxs
  BY <1>0 DEF MlmeOK, MacType
<1>4. CASE AddLook
  <2>1. mlme' \in MlmeType /\ MlmeOK'
    BY <1>0, <1>2, <1>3, <1>4, GoesOnOK, Constant DEF AddLook
  <2>2. TypeOK'
    BY <1>4, <2>1 DEF AddLook, TypeInv, TypeOK
  <2> QED
    BY <1>0, <1>4, <2>1, <2>2, StandStill, Same DEF AddLook, TypeInv, HandsOK
<1>5. CASE AddTest
  <2>1. mlme' \in MlmeType /\ MlmeOK'
    <3>1. CASE Finish
      BY <1>0, <3>1, GoesOnOK
    <3>2. CASE MlmeAt("done")
      BY <1>0, <1>1, <1>5, <3>2 DEF AddTest, MlmeOK, MlmePcs
    <3> QED
      BY <1>5, <3>1, <3>2 DEF AddTest
  <2>2. TypeOK'
    BY <1>5, <2>1 DEF AddTest, TypeInv, TypeOK
  <2> QED
    BY <1>0, <1>5, <2>1, <2>2, StandStill, Same DEF AddTest, TypeInv, HandsOK
<1>6. CASE AddDone
  <2>1. PICK i \in Entries : i = mlme.Idx /\ mlme.pc = "done"
    BY <1>0, <1>6 DEF AddDone, MlmeOK
  <2>2. mlme' \in MlmeType /\ MlmeOK'
    BY <1>0, <1>1, <1>6 DEF AddDone, MlmeOK, MlmePcs
  <2>3. ori' = [ori EXCEPT ![i].status = "Done"]
    BY <1>6, <2>1 DEF AddDone
  <2>4. /\ ori' \in [Entries -> OriType] /\ ori'[i].status = "Done"
        /\ \A j \in Entries : /\ ori'[j].Wcid = ori[j].Wcid
                              /\ ori'[j].Token = ori[j].Token
                              /\ j # i => ori'[j].status = ori[j].status
    BY <1>0, <2>3, StatusWritten DEF Statuses
  <2>5. TypeOK'
    BY <1>0, <1>6, <2>2, <2>4 DEF AddDone, Stale, TypeInv, TypeOK
  <2>6. Keeps
    BY <2>4 DEF Keeps
  <2> QED
    BY <1>0, <1>6, <2>2, <2>4, <2>5, <2>6, StandStill
    DEF AddDone, TypeInv, HandsOK
<1>7. CASE AddCount
  <2> DEFINE r == [mlme EXCEPT !.pc = "counted", !.n = num.done]
  <2>1. mlme' = r /\ mlme.sta \in Stations /\ mlme.Idx \in Entries
    BY <1>0, <1>7 DEF AddCount, MlmeOK
  <2>2. /\ r \in MlmeType /\ r.pc = "counted" /\ r.Idx = mlme.Idx
        /\ r.sta = mlme.sta
    BY <1>0 DEF MlmeType
  <2> HIDE DEF r
  <2>3. TypeOK' /\ MlmeOK'
    BY <1>7, <2>1, <2>2 DEF AddCount, TypeInv, TypeOK, MlmeOK
  <2> QED
    BY <1>0, <1>7, <2>3, StandStill, Same DEF AddCount, TypeInv, HandsOK
<1>8. CASE AddCounted
  <2>1. mlme' \in MlmeType /\ MlmeOK'
    BY <1>0, <1>1, <1>8 DEF AddCounted, MlmeOK, MlmePcs
  <2>2. num' \in NumType
    <3>1. Plus(mlme.n) \in 0 .. NumSpace - 1
      BY <1>0, NumRange
    <3> QED
      BY <1>0, <1>8, <3>1 DEF AddCounted, NumType
  <2>3. TypeOK'
    BY <1>0, <1>8, <2>1, <2>2 DEF AddCounted, Stale, TypeInv, TypeOK
  <2> QED
    BY <1>0, <1>8, <2>1, <2>3, StandStill, Same
    DEF AddCounted, TypeInv, HandsOK
<1>9. CASE AddBit
  <2>1. mlme' \in MlmeType /\ MlmeOK'
    BY <1>0, <1>1, <1>9 DEF AddBit, MlmeOK, MlmePcs
  <2>2. mac' \in [Stations -> MacType]
    BY <1>0, <1>9, BitWritten DEF AddBit
  <2>3. TypeOK'
    BY <1>9, <2>1, <2>2 DEF AddBit, TypeInv, TypeOK
  <2> QED
    BY <1>0, <1>9, <2>1, <2>3, StandStill, Same DEF AddBit, TypeInv, HandsOK
<1>10. ASSUME NEW i \in Entries,
              timer' = [timer EXCEPT ![i] = CancelTimer(@)]
                \/ timer' = [timer EXCEPT ![i] = ReleaseTimer(@)],
              ori' = ori
       PROVE  /\ timer' \in [Entries -> TimerType]
              /\ \A j \in Entries : EntryOK(j)'
  <2>1. PICK t \in {CancelTimer(timer[i]), ReleaseTimer(timer[i])} :
          timer' = [timer EXCEPT ![i] = t]
    BY <1>10
  <2>2. timer[i] \in TimerType
    BY <1>0
  <2>3. t \in TimerType
    BY <2>2, TimerOps
  <2>4. t.Valid \/ t.armed \/ t.queued > 0
          => timer[i].Valid \/ timer[i].armed \/ timer[i].queued > 0
    BY <2>1, <2>2 DEF ReleaseTimer, CancelTimer, TimerType
  <2> QED
    BY <1>0, <1>10, <2>1, <2>3, <2>4 DEF EntryOK, HandsOK
<1>11. CASE AddCancel
  <2>1. mlme' \in MlmeType /\ MlmeOK'
    BY <1>0, <1>11, GoesOnOK DEF AddCancel
  <2>2. /\ timer' \in [Entries -> TimerType]
        /\ \A j \in Entries : EntryOK(j)'
    BY <1>0, <1>10, <1>11 DEF AddCancel, MlmeOK
  <2>3. TypeOK'
    BY <1>11, <2>1, <2>2 DEF AddCancel, TypeInv, TypeOK
  <2> QED
    BY <1>0, <1>11, <2>1, <2>2, <2>3, StandStill, Same
    DEF AddCancel, TypeInv, HandsOK
<1>12. CASE TearDown
  <2>1. mlme' \in MlmeType /\ MlmeOK'
    BY <1>0, <1>2, <1>3, <1>12, GoesOnOK, Constant DEF TearDown
  <2>2. TypeOK'
    BY <1>12, <2>1 DEF TearDown, TypeInv, TypeOK
  <2> QED
    BY <1>0, <1>12, <2>1, <2>2, StandStill, Same
    DEF TearDown, TypeInv, HandsOK
<1>13. CASE TearRelease
  <2>1. mlme' \in MlmeType /\ MlmeOK'
    BY <1>0, <1>1, <1>13 DEF TearRelease, MlmeOK, MlmePcs
  <2>2. /\ timer' \in [Entries -> TimerType]
        /\ \A j \in Entries : EntryOK(j)'
    BY <1>0, <1>10, <1>13 DEF TearRelease, MlmeOK
  <2>3. TypeOK'
    BY <1>13, <2>1, <2>2 DEF TearRelease, TypeInv, TypeOK
  <2> QED
    BY <1>0, <1>13, <2>1, <2>2, <2>3, StandStill, Same
    DEF TearRelease, TypeInv, HandsOK
<1>14. CASE TearFree
  <2>1. CASE ba_free_ori_entry(mlme.Idx, "mlme") /\ UNCHANGED mlme
    <3>1. TypeOK' /\ TabOK'
      BY <1>14, <2>1, LockTypes DEF TearFree, TypeInv, TypeOK
    <3> QED
      BY <1>0, <1>14, <2>1, <3>1, StandStill, Same
      DEF TearFree, TypeInv, HandsOK
  <2>2. CASE GoOn /\ UNCHANGED <<tab, hist>>
    <3>1. mlme' \in MlmeType /\ MlmeOK'
      BY <1>0, <2>2, GoesOnOK
    <3>2. TypeOK'
      BY <1>14, <2>2, <3>1 DEF TearFree, TypeInv, TypeOK
    <3> QED
      BY <1>0, <1>14, <2>2, <3>1, <3>2, StandStill, Same
      DEF TearFree, TypeInv, HandsOK
  <2> QED
    BY <1>14, <2>1, <2>2 DEF TearFree
<1>15. CASE EntryGone
  <2> DEFINE m == [mac[mlme.sta] EXCEPT !.used = FALSE]
  <2>1. mac' \in [Stations -> MacType]
    <3>1. mac[mlme.sta] \in MacType
      BY <1>0, <1>3, <1>15 DEF EntryGone
    <3>2. m \in MacType
      BY <3>1 DEF MacType
    <3>3. mac' = [mac EXCEPT ![mlme.sta] = m]
      BY <1>15 DEF EntryGone
    <3> HIDE DEF m
    <3> QED
      BY <1>0, <3>2, <3>3
  <2>2. mlme' \in MlmeType /\ MlmeOK'
    BY <1>0, <1>15, GoesOnOK DEF EntryGone
  <2>3. TypeOK'
    BY <1>15, <2>1, <2>2 DEF EntryGone, TypeInv, TypeOK
  <2> QED
    BY <1>0, <1>15, <2>2, <2>3, StandStill, Same
    DEF EntryGone, TypeInv, HandsOK
<1>16. CASE EntryReset
  <2> DEFINE m == [used |-> TRUE, arr |-> 0, TXBA |-> FALSE]
  <2>1. mac' \in [Stations -> MacType]
    <3>1. m \in MacType /\ mac' = [mac EXCEPT ![mlme.sta] = m]
      BY <1>16, Constant DEF EntryReset, MacType
    <3> HIDE DEF m
    <3> QED
      BY <1>0, <3>1
  <2>2. mlme' \in MlmeType /\ MlmeOK'
    BY <1>0, <1>16, GoesOnOK DEF EntryReset
  <2>3. TypeOK'
    BY <1>0, <1>16, <2>1, <2>2 DEF EntryReset, Stale, TypeInv, TypeOK
  <2> QED
    BY <1>0, <1>16, <2>2, <2>3, StandStill, Same
    DEF EntryReset, TypeInv, HandsOK
<1> QED
  BY <1>4, <1>5, <1>6, <1>7, <1>8, <1>9, <1>11, <1>12, <1>13, <1>14, <1>15,
     <1>16 DEF Handler

LEMMA InitTypes == Init => TypeInv
<1> SUFFICES ASSUME Init PROVE TypeInv
  OBVIOUS
<1>1. TypeOK
  <2>1. mac \in [Stations -> MacType]
    BY Constant DEF Init, MacType
  <2>2. ori \in [Entries -> OriType]
    BY Constant DEF Init, OriType, Statuses
  <2>3. timer \in [Entries -> TimerType] /\ num \in NumType
    BY Constant DEF Init, TimerType, NumType
  <2> QED
    BY <2>1, <2>2, <2>3, Idle DEF Init, TypeOK
<1>2. HandsOK
  <2>1. NoMessage.why = "peer"
    BY DEF NoMessage
  <2> QED
    BY <2>1, Idle DEF Init, HandsOK, CallOK, EntryOK, TtOK, MlmeOK, TabOK
<1> QED
  BY <1>1, <1>2 DEF TypeInv

LEMMA StepTypes == TypeInv /\ [Next]_vars => TypeInv'
<1> SUFFICES ASSUME TypeInv, [Next]_vars PROVE TypeInv'
  OBVIOUS
<1>1. CASE Free
  BY <1>1, FreeTypes
<1>2. CASE Timeout \/ \E i \in Entries : TimerFires(i)
  BY <1>2, TimeoutTypes
<1>3. CASE Handler
  BY <1>3, HandlerTypes
<1>4. ASSUME NEW c \in Callers, Setup(c)
      PROVE  TypeInv'
  BY <1>4, SetupTypes
<1>5. ASSUME NEW c \in Callers, NEW w \in Stations,
             ExtEventBaTriggerHandler(c, w)
      PROVE  TypeInv'
  BY <1>5, EnterTypes DEF ExtEventBaTriggerHandler, TypeInv, TypeOK
<1>6. ASSUME NEW w \in Stations, Message(w)
      PROVE  TypeInv'
  BY <1>6, MessageTypes
<1>7. CASE UNCHANGED vars
  BY <1>7 DEF vars, TypeInv, TypeOK, HandsOK, CallOK, EntryOK, TtOK, MlmeOK,
              TabOK
<1> QED
  BY <1>1, <1>2, <1>3, <1>4, <1>5, <1>6, <1>7 DEF Next

\* Every variable keeps its type, and no entry counts more ADDBA requests
\* than ORI_SESSION_MAX_RETRY, although its count is read and written without
\* a lock.
THEOREM OriTypes == Spec => []TypeOK
<1>1. TypeInv => TypeOK
  BY DEF TypeInv
<1> QED
  BY <1>1, InitTypes, StepTypes, PTL DEF Spec

-----------------------------------------------------------------------------
(***************************************************************************)
(* numAsOriginator never exceeds the number of entries taken, stale looks  *)
(* or not, until it is taken below zero.                                   *)
(***************************************************************************)
BelowOK ==
  ~hist.below =>
    /\ num.as <= Cardinality(Taken)
    /\ \A c \in Callers : call[c].pc = "take" =>
         num.as <= Cardinality(Taken \ {call[c].entry})

LEMMA TakenSets ==
  /\ Taken \in SUBSET Entries
  /\ \A S \in SUBSET Entries : \A R \in SUBSET S :
       Cardinality(R) <= Cardinality(S)
<1>1. ASSUME NEW S \in SUBSET Entries, NEW R \in SUBSET S
      PROVE  Cardinality(R) <= Cardinality(S)
  BY EntrySets, FS_Subset
<1> QED
  BY <1>1 DEF Taken

\* An entry may be taken without being counted (that is the revival of a
\* freed one), but not the other way round.
LEMMA BelowSteady ==
  ASSUME TypeInv, BelowOK, num'.as = num.as, hist'.below = hist.below,
         \A i \in Entries : ori[i].status # "NONE" => ori'[i].status # "NONE",
         \A c \in Callers : call'[c].pc = "take" =>
           call[c].pc = "take" /\ call'[c].entry = call[c].entry
  PROVE  BelowOK'
<1>1. Taken' \in SUBSET Entries /\ Taken \in SUBSET Taken'
  BY DEF Taken, FreeEntries
<1>2. \A R, S : R \in SUBSET S /\ S \in SUBSET Entries =>
        /\ Cardinality(R) <= Cardinality(S)
        /\ Cardinality(R) \in Nat /\ Cardinality(S) \in Nat
  BY TakenSets, EntrySets
<1>3. num.as \in Nat
  BY DEF TypeInv, TypeOK, NumType
<1>4. \A x : /\ Taken \ {x} \in SUBSET (Taken' \ {x})
             /\ Taken' \ {x} \in SUBSET Entries
  BY <1>1
<1>5. \A x : num.as <= Cardinality(Taken \ {x})
               => num.as <= Cardinality(Taken' \ {x})
  BY <1>2, <1>3, <1>4
<1>6. num.as <= Cardinality(Taken) => num.as <= Cardinality(Taken')
  BY <1>1, <1>2, <1>3
<1> QED
  BY <1>5, <1>6 DEF BelowOK

LEMMA BelowAlloc ==
  ASSUME TypeInv, BelowOK, NEW c \in Callers, ba_alloc_ori_entry(c)
  PROVE  BelowOK'
<1>0. /\ call \in [Callers -> CallType]
      /\ UNCHANGED <<mac, ori, timer, num, tab, tt, mlme, hist>>
  BY DEF TypeInv, TypeOK, ba_alloc_ori_entry
<1>1. CASE FreeEntries # {} /\ call' = [call EXCEPT ![c].pc = "take",
                                         ![c].Idx = Min(FreeEntries),
                                         ![c].entry = Min(FreeEntries)]
  <2>1. /\ call'[c].entry = Min(FreeEntries)
        /\ \A d \in Callers : d # c => call'[d] = call[d]
    BY <1>0, <1>1 DEF CallType
  <2>2. Taken \ {call'[c].entry} = Taken
    BY <1>1, <2>1, MinFree DEF Taken
  <2>3. Taken' = Taken /\ num' = num /\ hist' = hist
    BY <1>0 DEF Taken, FreeEntries
  <2> QED
    BY <2>1, <2>2, <2>3 DEF BelowOK
<1>2. CASE Return(c) \/ call' = [call EXCEPT ![c].pc = "test",
                                             ![c].entry = TableSize - 1]
  <2>1. /\ call'[c].pc # "take"
        /\ \A d \in Callers : d # c => call'[d] = call[d]
    BY <1>0, <1>2, Idle DEF Return, CallType
  <2> QED
    BY <1>0, <2>1, BelowSteady
<1> QED
  BY <1>1, <1>2 DEF ba_alloc_ori_entry

LEMMA BelowTake ==
  ASSUME TypeInv, BelowOK, NEW c \in Callers, Take(c)
  PROVE  BelowOK'
<1>0. /\ call \in [Callers -> CallType] /\ ori \in [Entries -> OriType]
      /\ num \in NumType /\ num.as \in 0 .. NumSpace - 1
      /\ TabOK /\ CallOK(c) /\ call[c].pc = "take" /\ hist' = hist
  BY DEF TypeInv, TypeOK, HandsOK, Take, NumType
<1>1. PICK i \in Entries : i = call[c].entry
  BY <1>0 DEF CallOK
<1>2. ori' = [ori EXCEPT ![i].status = "USED"]
  BY <1>1 DEF Take
<1>3. /\ ori'[i].status = "USED"
      /\ \A j \in Entries : j # i => ori'[j].status = ori[j].status
  BY <1>0, <1>2, StatusWritten DEF Statuses
<1> DEFINE S == Taken \ {i}
<1>4. Taken' = S \cup {i} /\ S \in SUBSET Entries /\ i \in Entries \ S
  BY <1>3 DEF Taken, FreeEntries
<1>5. /\ Cardinality(Taken') = Cardinality(S) + 1
      /\ Cardinality(S) \in Nat /\ Cardinality(S) + 1 < NumSpace
  <2> HIDE DEF S
  <2>1. /\ Cardinality(S \cup {i}) = Cardinality(S) + 1
        /\ Cardinality(S) \in 0 .. NumSpace - 1
        /\ Cardinality(S) + 1 < NumSpace
    BY <1>4, EntryAdded
  <2> QED
    BY <1>4, <2>1
<1>6. num'.as = Plus(num.as)
  BY <1>0 DEF Take, CountedAlloc, NumType
<1>7. num.as <= Cardinality(S) => num'.as <= Cardinality(Taken')
  BY <1>0, <1>5, <1>6, NumRange
<1>8. \A d \in Callers : call'[d].pc # "take"
  BY <1>0 DEF Take, TabOK, CallType
<1> HIDE DEF S
<1>9. ~hist.below => num.as <= Cardinality(S)
  BY <1>0, <1>1 DEF BelowOK, S
<1> QED
  BY <1>0, <1>7, <1>8, <1>9 DEF BelowOK

LEMMA BelowFree ==
  ASSUME TypeInv, BelowOK, FreeNone
  PROVE  BelowOK'
<1>0. /\ ori \in [Entries -> OriType] /\ num \in NumType /\ TabOK
      /\ num.as \in 0 .. NumSpace - 1 /\ tab.pc = "none"
      /\ hist \in [stale : BOOLEAN, below : BOOLEAN]
  BY DEF TypeInv, TypeOK, HandsOK, FreeNone, NumType
<1>1. PICK i \in Entries : i = tab.Idx /\ ori[i].status # "NONE"
  BY <1>0 DEF TabOK
<1>2. ori' = [ori EXCEPT ![i].status = "NONE"]
  BY <1>1 DEF FreeNone
<1>3. /\ ori'[i].status = "NONE"
      /\ \A j \in Entries : j # i => ori'[j].status = ori[j].status
  BY <1>0, <1>2, StatusWritten DEF Statuses
<1>4. Taken' = Taken \ {i} /\ Taken \in SUBSET Entries /\ i \in Taken
  BY <1>1, <1>3 DEF Taken, FreeEntries
<1>5. /\ Cardinality(Taken') = Cardinality(Taken) - 1
      /\ Cardinality(Taken) \in 1 .. NumSpace - 1
  BY <1>4, EntryRemoved
<1>6. num'.as = Minus(num.as) /\ hist'.below = (hist.below \/ num.as = 0)
  BY <1>0 DEF FreeNone, NumType
<1>7. ~hist'.below => num'.as = num.as - 1
  <2>1. num.as > 0 => Minus(num.as) = num.as - 1
    BY <1>0, NumRange
  <2>2. ~hist'.below => num.as # 0
    BY <1>6
  <2>3. num.as # 0 => num.as > 0
    BY <1>0
  <2> QED
    BY <1>6, <2>1, <2>2, <2>3
<1>8. \A d \in Callers : call'[d].pc # "take"
  BY <1>0 DEF FreeNone, TabOK
<1> QED
  BY <1>0, <1>5, <1>6, <1>7, <1>8 DEF BelowOK

LEMMA StepBelow == TypeInv /\ BelowOK /\ [Next]_vars => BelowOK'
<1> SUFFICES ASSUME TypeInv, BelowOK, [Next]_vars PROVE BelowOK'
  OBVIOUS
<1>0. /\ call \in [Callers -> CallType] /\ ori \in [Entries -> OriType]
      /\ num \in NumType /\ hist \in [stale : BOOLEAN, below : BOOLEAN]
      /\ TabOK /\ MlmeOK /\ \A c \in Callers : CallOK(c)
  BY DEF TypeInv, TypeOK, HandsOK
<1>1. CASE UNCHANGED <<ori, call>> /\ num'.as = num.as
           /\ hist'.below = hist.below
  BY <1>1, BelowSteady
<1>2. \A b \in BOOLEAN : Stale(b) => hist'.below = hist.below
  BY <1>0 DEF Stale
<1>3. CASE Free
  <2>1. CASE FreeUnmap \/ FreeLook \/ FreeBit
    BY <1>1, <2>1 DEF FreeUnmap, FreeLook, FreeBit
  <2>2. CASE FreeCounted
    <3>1. num'.as = num.as
      BY <1>0, <2>2 DEF FreeCounted, NumType
    <3> QED
      BY <1>1, <1>2, <2>2, <3>1 DEF FreeCounted
  <2>3. CASE FreeNone
    BY <2>3, BelowFree
  <2>4. CASE FreeToken
    <3>1. PICK i \in Entries : i = tab.Idx
      BY <1>0, <2>4 DEF FreeToken, TabOK
    <3>2. ori' = [ori EXCEPT ![i].Token = 0]
      BY <2>4, <3>1 DEF FreeToken
    <3>3. \A j \in Entries : ori'[j].status = ori[j].status
      BY <1>0, <3>2, TokenWritten, Constant
    <3> QED
      BY <2>4, <3>3, BelowSteady DEF FreeToken
  <2> QED
    BY <1>3, <2>1, <2>2, <2>3, <2>4 DEF Free
<1>4. CASE Timeout \/ \E i \in Entries : TimerFires(i)
  <2>1. CASE TimeoutCount
    <3>1. PICK i \in Entries : i = tt.slot
      BY <2>1 DEF TimeoutCount, TtOK, TypeInv, HandsOK
    <3>2. tt.n + 1 \in 0 .. MaxRetry
      BY DEF TypeInv, TypeOK, TtType
    <3>3. ori' = [ori EXCEPT ![i].Token = tt.n + 1]
      BY <2>1, <3>1 DEF TimeoutCount
    <3>4. \A j \in Entries : ori'[j].status = ori[j].status
      BY <1>0, <3>2, <3>3, TokenWritten
    <3> QED
      BY <2>1, <3>4, BelowSteady DEF TimeoutCount
  <2>2. CASE TimeoutFree
    <3>1. InHand(tt.Idx) \in BOOLEAN
      BY DEF InHand, Establishing
    <3> QED
      BY <1>1, <1>2, <2>2, <3>1 DEF TimeoutFree, ba_free_ori_entry
  <2>3. CASE \/ \E i \in Entries : RtmpTimerQHandle(i) \/ TimerFires(i)
             \/ TimeoutLook \/ TimeoutTest \/ TimeoutTries \/ TimeoutAgain
             \/ TimeoutSet \/ TimeoutPick
    BY <1>1, <2>3 DEF RtmpTimerQHandle, TimerFires, TimeoutLook, TimeoutTest,
       TimeoutTries, TimeoutAgain, TimeoutSet, TimeoutPick
  <2> QED
    BY <1>4, <2>1, <2>2, <2>3 DEF Timeout
<1>5. CASE Handler
  <2>1. CASE AddDone
    <3>1. PICK i \in Entries : i = mlme.Idx
      BY <1>0, <2>1 DEF AddDone, MlmeOK
    <3>2. ori' = [ori EXCEPT ![i].status = "Done"]
      BY <2>1, <3>1 DEF AddDone
    <3>3. \A j \in Entries : j # i => ori'[j].status = ori[j].status
      BY <1>0, <3>2, StatusWritten DEF Statuses
    <3>4. ori'[i].status = "Done"
      BY <1>0, <3>2, StatusWritten DEF Statuses
    <3>5. Awaited \in BOOLEAN
      BY DEF Awaited
    <3> QED
      BY <1>2, <2>1, <3>3, <3>4, <3>5, BelowSteady DEF AddDone
  <2>2. CASE AddCounted
    <3>1. num'.as = num.as
      BY <1>0, <2>2 DEF AddCounted, NumType
    <3> QED
      BY <1>1, <1>2, <2>2, <3>1 DEF AddCounted
  <2>3. CASE TearFree
    <3>1. InHand(mlme.Idx) \in BOOLEAN
      BY DEF InHand, Establishing
    <3> QED
      BY <1>1, <1>2, <2>3, <3>1 DEF TearFree, ba_free_ori_entry
  <2>4. CASE EntryReset
    BY <1>1, <1>2, <2>4 DEF EntryReset
  <2>5. CASE AddLook \/ AddTest \/ AddCount \/ AddBit \/ AddCancel
             \/ TearDown \/ TearRelease \/ EntryGone
    BY <1>1, <2>5 DEF AddLook, AddTest, AddCount, AddBit, AddCancel,
       TearDown, TearRelease, EntryGone
  <2> QED
    BY <1>5, <2>1, <2>2, <2>3, <2>4, <2>5 DEF Handler
<1>6. ASSUME NEW c \in Callers, Setup(c)
      PROVE  BelowOK'
  <2>1. ASSUME UNCHANGED <<ori, num>>, hist'.below = hist.below,
               call'[c].pc # "take",
               \A d \in Callers : d # c => call'[d] = call[d]
        PROVE  BelowOK'
    BY <2>1, BelowSteady
  <2>2. \A p \in CallPcs : CallAt(c, p) =>
          /\ call'[c].pc = p
          /\ \A d \in Callers : d # c => call'[d] = call[d]
    BY <1>0, CallMoves
  <2>3. Return(c) => /\ call'[c].pc = "idle"
                     /\ \A d \in Callers : d # c => call'[d] = call[d]
    BY <1>0, CallReturns
  <2>4. CASE ba_alloc_ori_entry(c)
    BY <2>4, BelowAlloc
  <2>5. CASE Take(c)
    BY <2>5, BelowTake
  <2>6. CASE SetupLook(c)
    BY <1>0, <2>1, <2>6 DEF SetupLook, CallType
  <2>7. CASE SetupTest(c) \/ SetupTimer(c)
    BY <2>1, <2>2, <2>3, <2>7 DEF SetupTest, SetupTimer, CallPcs
  <2>8. CASE SetupMap(c)
    <3>1. Rightful(c) \in BOOLEAN
      BY <1>0 DEF Rightful, CallType
    <3> QED
      BY <1>2, <2>1, <2>2, <2>8, <3>1 DEF SetupMap, CallPcs
  <2>9. CASE SetupArm(c)
    <3>1. mac[call[c].sta].TXBA \in BOOLEAN
      BY <1>0, <2>9 DEF SetupArm, CallOK, TypeInv, TypeOK, MacType
    <3>2. \E p \in {"cancel", "init"} : CallAt(c, p)
      BY <2>9 DEF SetupArm
    <3> QED
      BY <1>2, <2>1, <2>2, <2>9, <3>1, <3>2 DEF SetupArm, CallPcs
  <2>10. CASE SetupStatus(c) \/ SetupWcid(c) \/ SetupToken(c)
    <3>1. PICK i \in Entries : i = call[c].entry
      BY <1>0, <2>10 DEF SetupStatus, SetupWcid, SetupToken, CallOK
    <3>2. /\ ori' = [ori EXCEPT ![i].status = "WaitRes"]
             \/ ori' = [ori EXCEPT ![i].Wcid = call[c].sta]
             \/ ori' = [ori EXCEPT ![i].Token = 1]
          /\ call[c].sta \in Stations
      BY <1>0, <2>10, <3>1 DEF SetupStatus, SetupWcid, SetupToken, CallOK
    <3>3. \A j \in Entries : ori[j].status # "NONE" => ori'[j].status # "NONE"
      BY <1>0, <3>2, StatusWritten, WcidWritten, TokenWritten, Constant
      DEF Statuses
    <3>4. /\ call'[c].pc # "take"
          /\ \A d \in Callers : d # c => call'[d] = call[d]
      BY <2>2, <2>10 DEF SetupStatus, SetupWcid, SetupToken, CallPcs
    <3> QED
      BY <2>10, <3>3, <3>4, BelowSteady DEF SetupStatus, SetupWcid, SetupToken
  <2> QED
    BY <1>6, <2>4, <2>5, <2>6, <2>7, <2>8, <2>9, <2>10 DEF Setup
<1>7. ASSUME NEW c \in Callers, NEW w \in Stations, Enter(c, w),
             UNCHANGED <<ori, num, hist>>
      PROVE  BelowOK'
  BY <1>0, <1>7, CallEnters, BelowSteady
<1>8. ASSUME NEW w \in Stations, Message(w)
      PROVE  BelowOK'
  BY <1>1, <1>7, <1>8 DEF Message, peer_addba_rsp_action, peer_delba_action,
     ap_peer_auth, ap_assoc, MacTableDeleteEntry, MacTableInsertEntry
<1>9. CASE UNCHANGED vars
  BY <1>1, <1>9 DEF vars
<1> QED
  BY <1>3, <1>4, <1>5, <1>6, <1>7, <1>8, <1>9 DEF Next, ExtEventBaTriggerHandler

\* A session is refused for want of room only when every entry is taken, no
\* matter what the threads did to the table on stale looks, until
\* numAsOriginator has been taken below zero.
THEOREM OriRefusalMeansFull == Spec => []RefusalMeansFull
<1>1. Init => BelowOK
  <2> SUFFICES ASSUME Init PROVE BelowOK
    OBVIOUS
  <2>1. num.as = 0 /\ \A c \in Callers : call[c].pc # "take"
    BY DEF Init, NoCall
  <2>2. Cardinality(Taken) \in Nat
    BY EntrySets, TakenSets
  <2> QED
    BY <2>1, <2>2 DEF BelowOK
<1>2. TypeInv /\ BelowOK => RefusalMeansFull
  <2> SUFFICES ASSUME TypeInv, BelowOK, ~hist.below, TableFull,
                      NEW i \in Entries, i \notin Taken
               PROVE  FALSE
    BY DEF RefusalMeansFull, Taken
  <2>1. num.as \in Nat /\ num.as >= TableSize - 1
    BY DEF TypeInv, TypeOK, NumType, TableFull
  <2>2. num.as <= Cardinality(Taken)
    BY DEF BelowOK
  <2>3. /\ Cardinality(Taken \cup {i}) = Cardinality(Taken) + 1
        /\ Cardinality(Taken) \in Nat
    BY TakenSets, EntryAdded
  <2>4. Taken \cup {i} \in SUBSET Entries
    BY TakenSets
  <2>5. Cardinality(Taken \cup {i}) <= TableSize - 1
    BY <2>4, EntrySets
  <2> QED
    BY <2>1, <2>2, <2>3, <2>5
<1> QED
  BY <1>1, <1>2, InitTypes, StepTypes, StepBelow, PTL DEF Spec

-----------------------------------------------------------------------------
(***************************************************************************)
(* The bookkeeping as long as nobody has acted on a stale look: what the   *)
(* table, the mapping and the bitmap say of each other while threads are   *)
(* in the middle of their assignments.                                     *)
(***************************************************************************)

\* A thread that has allocated an entry has it to itself: nobody frees it,
\* and only its station is mapped to it.
OpenOK(c) ==
  /\ call[c].pc = "take" => ori[call[c].entry].status = "NONE"
  /\ call[c].own /\ call[c].pc \in {"test", "map", "status"}
       => ori[call[c].entry].status = "USED"
  /\ call[c].own /\ call[c].pc \in {"test", "map", "status", "wcid"}
       => tab.Idx # call[c].entry
  /\ Filling(c) =>
       /\ call[c].own
       /\ \A w \in Stations :
            mac[w].arr = call[c].entry <=> w = call[c].sta
  /\ call[c].pc = "wcid" => ori[call[c].entry].status \in Open

SoleOK ==
  \A i \in Entries, c, d \in Callers : Opening(c, i) /\ Opening(d, i) => c = d

\* An entry that is only allocated is in somebody's hand.
UsedOK ==
  \A i \in Entries : ori[i].status = "USED" => \E c \in Callers : Opening(c, i)

\* An entry that is being freed is that of its station, and is mapped by
\* nobody once it has been unmapped.
TabBook ==
  /\ tab.pc \notin {"idle", "token"} =>
       ori[tab.Idx].status \in Open /\ ori[tab.Idx].Wcid = tab.sta
  /\ tab.pc \in {"counted", "bit"} => ori[tab.Idx].status = "Done"
  /\ tab.pc = "unmap" => tab.sta \in Stations /\ mac[tab.sta].arr = tab.Idx
  /\ tab.pc \notin {"idle", "unmap"} =>
       \A w \in Stations : mac[w].arr # tab.Idx
  /\ tab.pc = "token" => ori[tab.Idx].status = "NONE"

\* Until the timer is cancelled nobody frees a session just established.
EstOK ==
  mlme.pc \in {"count", "counted", "bit", "cancel"} =>
    /\ ori[mlme.Idx].status = "Done" /\ mac[mlme.sta].arr = mlme.Idx
    /\ tab.Idx # mlme.Idx

FoundOK ==
  \A i \in Entries :
    \/ ori[i].status \notin Open
    \/ tab.Idx = i
    \/ \E c \in Callers : call[c].pc = "wcid" /\ call[c].entry = i
    \/ ori[i].Wcid \in Stations /\ mac[ori[i].Wcid].arr = i

MapOK ==
  \A w \in Stations :
    \/ mac[w].arr = 0
    \/ ori[mac[w].arr].status \in Open /\ ori[mac[w].arr].Wcid = w
    \/ \E c \in Callers : Filling(c) /\ call[c].sta = w

BitsOK ==
  \A w \in Stations : mac[w].TXBA =>
    \/ mac[w].arr # 0 /\ ori[mac[w].arr].status = "Done"
    \/ /\ tab.sta = w /\ tab.pc \in {"look", "counted", "bit"}
       /\ ori[tab.Idx].status = "Done"

Counted == {i \in WithStatus({"Done"}) : ~Uncounted(i)}
CountsOK ==
  num.as = Cardinality(Taken) /\ num.done = Cardinality(Counted)

Book ==
  /\ \A c \in Callers : OpenOK(c)
  /\ SoleOK /\ UsedOK /\ TabBook /\ EstOK /\ FoundOK /\ MapOK /\ BitsOK
  /\ CountsOK

\* What every lemma below needs of the types.
LEMMA Hands ==
  ASSUME TypeInv
  PROVE  /\ mac \in [Stations -> MacType] /\ ori \in [Entries -> OriType]
         /\ call \in [Callers -> CallType] /\ tab \in TabType
         /\ mlme \in MlmeType /\ num \in NumType
         /\ num.as \in 0 .. NumSpace - 1 /\ num.done \in 0 .. NumSpace - 1
         /\ hist \in [stale : BOOLEAN, below : BOOLEAN]
         /\ \A w \in Stations : /\ mac[w].TXBA \in BOOLEAN
                                /\ mac[w].arr \in Idxs
                                /\ mac[w].arr # 0 => mac[w].arr \in Entries
         /\ \A i \in Entries : ori[i].status \in Statuses
         /\ \A c \in Callers : /\ CallOK(c) /\ call[c].own \in BOOLEAN
                               /\ call[c].pc \in CallPcs
         /\ MlmeOK /\ TabOK
BY Constant DEF TypeInv, TypeOK, HandsOK, MacType, OriType, CallType, NumType,
                CallPcs

Out(r) ==
  /\ r.pc \notin {"take", "status", "wcid"}
  /\ ~(r.own /\ r.pc \in {"test", "map"})

\* Most steps do not touch what the bookkeeping is about.
LEMMA Steady ==
  ASSUME TypeInv, Book, num' = num, tab' = tab,
         \A w \in Stations : /\ mac'[w].arr = mac[w].arr
                             /\ mac'[w].TXBA => mac[w].TXBA,
         \A i \in Entries : /\ ori'[i].status = ori[i].status
                            /\ ori'[i].Wcid = ori[i].Wcid,
         \A c \in Callers :
           call'[c] = call[c] \/ (Out(call[c]) /\ Out(call'[c])),
         \/ mlme' = mlme
         \/ /\ mlme'.pc \notin {"count", "counted", "bit", "cancel"}
            /\ mlme.pc \notin {"count", "counted"}
  PROVE  Book'
<1>0. /\ \A c \in Callers : CallOK(c) /\ OpenOK(c)
      /\ MlmeOK /\ TabOK
      /\ \A w \in Stations : mac[w].arr # 0 => mac[w].arr \in Entries
  BY Hands DEF Book
<1>1. \A c \in Callers : OpenOK(c)'
  BY <1>0 DEF OpenOK, CallOK, Filling, Out
<1>2. \A c \in Callers, i \in Entries : Opening(c, i)' <=> Opening(c, i)
  BY DEF Opening, Out
<1>3. \A c \in Callers : /\ Filling(c)' <=> Filling(c)
                         /\ Filling(c) => call'[c] = call[c]
  BY DEF Filling, Out
<1>4. SoleOK' /\ UsedOK'
  BY <1>2 DEF Book, SoleOK, UsedOK
<1>5. TabBook'
  BY <1>0 DEF Book, TabBook, TabOK
<1>6. EstOK'
  BY <1>0 DEF Book, EstOK, MlmeOK
<1>7. FoundOK'
  BY <1>3 DEF Book, FoundOK, Filling
<1>8. MapOK'
  BY <1>0, <1>3 DEF Book, MapOK
<1>9. BitsOK'
  BY <1>0 DEF Book, BitsOK, TabOK
<1>10. CountsOK'
  <2>1. Taken' = Taken
    BY DEF Taken, FreeEntries
  <2>2. Counted' = Counted
    BY DEF Counted, WithStatus, Uncounted
  <2> QED
    BY <2>1, <2>2 DEF Book, CountsOK
<1> QED
  BY <1>1, <1>4, <1>5, <1>6, <1>7, <1>8, <1>9, <1>10 DEF Book

\* ba_free_ori_entry takes the lock, for an entry that is in nobody's hand.
LEMMA BookLock ==
  ASSUME TypeInv, Book, NEW i, NEW who \in {"tt", "mlme"},
         ba_free_ori_entry(i, who), ~hist'.stale,
         UNCHANGED <<mac, ori, num, call, mlme>>
  PROVE  Book'
<1>0. /\ i \in Entries /\ ori[i].status # "NONE" /\ ~InHand(i)
      /\ tab.pc = "idle" /\ tab.Idx = 0 /\ i # 0
      /\ \A c \in Callers : call[c].pc # "take"
  BY Hands, Constant DEF ba_free_ori_entry, Stale, LockFree, TabOK
<1>1. /\ tab'.pc = "unmap" /\ tab'.Idx = i /\ tab'.sta = ori[i].Wcid
  BY DEF ba_free_ori_entry, Unlocked
<1>2. \A c \in Callers : ~Opening(c, i)
  BY <1>0 DEF InHand
<1>3. ori[i].status \in Open
  BY <1>0, <1>2, Hands DEF Book, UsedOK, Statuses, Open
<1>4. \A c \in Callers : ~(Filling(c) /\ call[c].entry = i)
  BY <1>2 DEF Book, OpenOK, Filling, Opening
<1>5. ori[i].Wcid \in Stations /\ mac[ori[i].Wcid].arr = i
  BY <1>0, <1>3, <1>4 DEF Book, FoundOK, Filling
<1>6. \A c \in Callers : OpenOK(c)'
  BY <1>1, <1>2 DEF Book, OpenOK, Filling, Opening
<1>7. SoleOK' /\ UsedOK'
  BY DEF Book, SoleOK, UsedOK, Opening
<1>8. TabBook'
  BY <1>1, <1>3, <1>5 DEF TabBook
<1>9. EstOK'
  BY <1>0, <1>1 DEF Book, EstOK, InHand, Establishing
<1>10. FoundOK'
  <2>1. \A j \in Entries : tab.Idx # j
    BY <1>0, Constant
  <2> QED
    BY <2>1 DEF Book, FoundOK
<1>11. MapOK' /\ BitsOK'
  BY <1>0 DEF Book, MapOK, BitsOK, Filling
<1>12. CountsOK'
  <2>1. Taken' = Taken
    BY DEF Taken, FreeEntries
  <2>2. Counted' = Counted
    BY <1>0, <1>1 DEF Counted, WithStatus, Uncounted
  <2> QED
    BY <2>1, <2>2 DEF Book, CountsOK
<1> QED
  BY <1>6, <1>7, <1>8, <1>9, <1>10, <1>11, <1>12 DEF Book

\* While an entry is being freed, no caller has it in hand.
LEMMA NotInHand ==
  ASSUME TypeInv, Book, tab.pc # "idle"
  PROVE  /\ tab.Idx \in Entries /\ tab.Idx # 0
         /\ \A c \in Callers : ~Opening(c, tab.Idx) /\ call[c].pc # "take"
         /\ \A c \in Callers : Filling(c) => call[c].entry # tab.Idx
         /\ mlme.pc \in {"count", "counted", "bit", "cancel"}
              => mlme.Idx # tab.Idx
<1>1. tab.Idx \in Entries /\ tab.Idx # 0
      /\ \A c \in Callers : call[c].pc # "take"
  BY Hands, Constant DEF TabOK
<1>2. \A c \in Callers : ~Opening(c, tab.Idx)
  BY DEF Book, OpenOK, Opening
<1>3. \A c \in Callers : Filling(c) => call[c].entry # tab.Idx
  BY <1>2 DEF Book, OpenOK, Opening, Filling
<1> QED
  BY <1>1, <1>2, <1>3 DEF Book, EstOK

LEMMA BookUnmap ==
  ASSUME TypeInv, Book, FreeUnmap
  PROVE  Book'
<1> DEFINE w == tab.sta
           i == tab.Idx
<1>0. /\ tab.pc = "unmap" /\ i \in Entries /\ i # 0
      /\ ori[i].status \in Open /\ ori[i].Wcid = w
      /\ w \in Stations /\ mac[w].arr = i
  BY NotInHand DEF FreeUnmap, Book, TabBook
<1>1. /\ tab'.pc = "look" /\ tab'.Idx = i /\ tab'.sta = w
      /\ UNCHANGED <<ori, num, call, mlme>>
  BY Hands, TabMoves DEF FreeUnmap, TabPcs
<1>2. /\ mac'[w].arr = 0
      /\ \A v \in Stations : /\ mac'[v].TXBA = mac[v].TXBA
                             /\ v # w => mac'[v].arr = mac[v].arr
  BY <1>0, Hands, ArrWritten, Constant DEF FreeUnmap, Unmapped
<1>3. /\ \A c \in Callers : ~Opening(c, i) /\ call[c].pc # "take"
      /\ \A c \in Callers : Filling(c) => call[c].entry # i
      /\ mlme.pc \in {"count", "counted", "bit", "cancel"} => mlme.Idx # i
  BY <1>0, NotInHand
<1> HIDE DEF w, i
<1>4. \A c \in Callers : Filling(c) => call[c].sta # w
  BY <1>0, <1>3, Hands DEF Book, OpenOK
<1>5. \A v \in Stations : mac'[v].arr # i
  <2> SUFFICES ASSUME NEW v \in Stations, v # w, mac[v].arr = i
               PROVE  FALSE
    BY <1>0, <1>2
  <2>1. \E c \in Callers : Filling(c) /\ call[c].sta = v
    BY <1>0 DEF Book, MapOK
  <2> QED
    BY <1>3, <2>1 DEF Book, OpenOK
<1>6. \A c \in Callers : OpenOK(c)'
  <2> SUFFICES ASSUME NEW c \in Callers PROVE OpenOK(c)'
    OBVIOUS
  <2>1. OpenOK(c) /\ CallOK(c)
    BY Hands DEF Book
  <2>2. Filling(c) => call[c].entry \in Entries /\ call[c].entry # 0
                      /\ call[c].sta \in Stations
    BY <2>1, Constant DEF CallOK, Filling
  <2>3. Filling(c) => \A v \in Stations :
                        mac'[v].arr = call[c].entry <=> v = call[c].sta
    BY <1>2, <1>4, <2>1, <2>2 DEF OpenOK
  <2> QED
    BY <1>1, <2>1, <2>3 DEF OpenOK, Filling, i
<1>7. SoleOK' /\ UsedOK'
  BY <1>1 DEF Book, SoleOK, UsedOK, Opening
<1>8. TabBook'
  BY <1>0, <1>1, <1>5 DEF TabBook
<1>9. EstOK'
  BY <1>0, <1>1, <1>2, <1>3, Hands DEF Book, EstOK, MlmeOK
<1>10. FoundOK'
  <2> SUFFICES ASSUME NEW j \in Entries, ori[j].status \in Open, j # i,
                      ~ \E c \in Callers :
                          call[c].pc = "wcid" /\ call[c].entry = j
               PROVE  ori[j].Wcid \in Stations /\ mac'[ori[j].Wcid].arr = j
    BY <1>1 DEF FoundOK
  <2>1. ori[j].Wcid \in Stations /\ mac[ori[j].Wcid].arr = j
    BY DEF Book, FoundOK, i
  <2> QED
    BY <1>0, <1>2, <2>1
<1>11. MapOK'
  BY <1>0, <1>1, <1>2 DEF Book, MapOK, Filling
<1>12. BitsOK'
  <2>1. \A v \in Stations : mac[v].TXBA =>
          mac[v].arr # 0 /\ ori[mac[v].arr].status = "Done"
    BY <1>0 DEF Book, BitsOK
  <2> QED
    BY <1>0, <1>1, <1>2, <2>1 DEF BitsOK
<1>13. CountsOK'
  <2>1. Taken' = Taken
    BY <1>1 DEF Taken, FreeEntries
  <2>2. Counted' = Counted
    BY <1>0, <1>1 DEF Counted, WithStatus, Uncounted
  <2> QED
    BY <1>1, <2>1, <2>2 DEF Book, CountsOK
<1> QED
  BY <1>6, <1>7, <1>8, <1>9, <1>10, <1>11, <1>12, <1>13 DEF Book

LEMMA BookLook ==
  ASSUME TypeInv, Book, FreeLook
  PROVE  Book'
<1>0. /\ tab.pc = "look" /\ tab.Idx \in Entries
      /\ UNCHANGED <<mac, ori, num, call, mlme>>
  BY NotInHand DEF FreeLook
<1>1. /\ tab'.Idx = tab.Idx /\ tab'.sta = tab.sta
      /\ IF ori[tab.Idx].status = "Done" THEN tab'.pc = "counted"
                                         ELSE tab'.pc = "none"
  BY Hands DEF FreeLook, TabType
<1>2. \A c \in Callers : OpenOK(c)'
  BY <1>0, <1>1 DEF Book, OpenOK, Filling
<1>3. SoleOK' /\ UsedOK' /\ TabBook' /\ EstOK' /\ MapOK'
  BY <1>0, <1>1 DEF Book, SoleOK, UsedOK, TabBook, EstOK, MapOK, Opening,
                    Filling
<1>4. FoundOK' /\ BitsOK'
  BY <1>0, <1>1 DEF Book, FoundOK, BitsOK
<1>5. CountsOK'
  <2>1. Taken' = Taken
    BY <1>0 DEF Taken, FreeEntries
  <2>2. Counted' = Counted
    BY <1>0, <1>1 DEF Counted, WithStatus, Uncounted
  <2> QED
    BY <1>0, <2>1, <2>2 DEF Book, CountsOK
<1> QED
  BY <1>2, <1>3, <1>4, <1>5 DEF Book

\* The session's count is taken off, and nobody has changed it meanwhile.
LEMMA BookCounted ==
  ASSUME TypeInv, Book, FreeCounted, ~hist'.stale
  PROVE  Book'
<1>0. /\ tab.pc = "counted" /\ tab.Idx \in Entries
      /\ tab.n = num.done /\ num.done \in 0 .. NumSpace - 1
      /\ UNCHANGED <<mac, ori, call, mlme>>
  BY NotInHand, Hands DEF FreeCounted, Stale
<1>1. tab'.Idx = tab.Idx /\ tab'.sta = tab.sta /\ tab'.pc = "bit"
  BY Hands, TabMoves DEF FreeCounted, TabPcs
<1>2. \A c \in Callers : OpenOK(c)'
  BY <1>0, <1>1 DEF Book, OpenOK, Filling
<1>3. SoleOK' /\ UsedOK' /\ TabBook' /\ EstOK' /\ MapOK'
  BY <1>0, <1>1 DEF Book, SoleOK, UsedOK, TabBook, EstOK, MapOK, Opening,
                    Filling
<1>4. FoundOK' /\ BitsOK'
  BY <1>0, <1>1 DEF Book, FoundOK, BitsOK
<1>5. CountsOK'
  <2>1. Taken' = Taken
    BY <1>0 DEF Taken, FreeEntries
  <2>2. Counted \in SUBSET Entries /\ tab.Idx \in Counted
    BY <1>0, NotInHand DEF Counted, WithStatus, Uncounted, Book, TabBook
  <2>3. Counted' = Counted \ {tab.Idx}
    BY <1>0, <1>1 DEF Counted, WithStatus, Uncounted
  <2>4. /\ Cardinality(Counted \ {tab.Idx}) = Cardinality(Counted) - 1
        /\ Cardinality(Counted) \in 1 .. NumSpace - 1
    BY <2>2, EntryRemoved
  <2>5. num.done = Cardinality(Counted) /\ num.as = Cardinality(Taken)
    BY DEF Book, CountsOK
  <2>6. num'.done = Minus(num.done) /\ num'.as = num.as
    BY <1>0, Hands DEF FreeCounted, NumType
  <2>7. Minus(num.done) = num.done - 1
    BY <1>0, <2>4, <2>5, NumRange
  <2> QED
    BY <2>1, <2>3, <2>4, <2>5, <2>6, <2>7 DEF CountsOK
<1> QED
  BY <1>2, <1>3, <1>4, <1>5 DEF Book

LEMMA BookBit ==
  ASSUME TypeInv, Book, FreeBit
  PROVE  Book'
<1>0. /\ tab.pc = "bit" /\ tab.Idx \in Entries
      /\ UNCHANGED <<ori, num, call, mlme>>
  BY NotInHand, Hands DEF FreeBit
<1>1. tab'.Idx = tab.Idx /\ tab'.sta = tab.sta /\ tab'.pc = "none"
  BY Hands, TabMoves DEF FreeBit, TabPcs
<1>2. /\ tab.sta \in Stations => mac'[tab.sta].TXBA = FALSE
      /\ \A v \in Stations : /\ mac'[v].arr = mac[v].arr
                             /\ v # tab.sta => mac'[v].TXBA = mac[v].TXBA
  BY Hands, BitWritten DEF FreeBit, BitCleared
<1>3. \A c \in Callers : OpenOK(c)'
  BY <1>0, <1>1, <1>2 DEF Book, OpenOK, Filling
<1>4. SoleOK' /\ UsedOK' /\ TabBook' /\ MapOK'
  BY <1>0, <1>1, <1>2 DEF Book, SoleOK, UsedOK, TabBook, MapOK, Opening,
                          Filling
<1>5. EstOK'
  BY <1>0, <1>1, <1>2, Hands DEF Book, EstOK, MlmeOK
<1>6. FoundOK'
  BY <1>0, <1>1, <1>2 DEF Book, FoundOK
<1>7. BitsOK'
  BY <1>0, <1>1, <1>2 DEF Book, BitsOK
<1>8. CountsOK'
  <2>1. Taken' = Taken
    BY <1>0 DEF Taken, FreeEntries
  <2>2. Counted' = Counted
    BY <1>0, <1>1 DEF Counted, WithStatus, Uncounted
  <2> QED
    BY <1>0, <2>1, <2>2 DEF Book, CountsOK
<1> QED
  BY <1>3, <1>4, <1>5, <1>6, <1>7, <1>8 DEF Book

LEMMA BookNone ==
  ASSUME TypeInv, Book, FreeNone
  PROVE  Book'
<1> DEFINE i == tab.Idx
<1>0. /\ tab.pc = "none" /\ i \in Entries /\ i # 0
      /\ ori[i].status \in Open
      /\ \A w \in Stations : mac[w].arr # i
      /\ num.as \in 0 .. NumSpace - 1
      /\ UNCHANGED <<mac, call, mlme>>
  BY NotInHand, Hands DEF FreeNone, Book, TabBook
<1>1. tab'.Idx = i /\ tab'.sta = tab.sta /\ tab'.pc = "token"
  BY Hands, TabMoves DEF FreeNone, TabPcs
<1>2. /\ ori'[i].status = "NONE"
      /\ \A j \in Entries : /\ ori'[j].Wcid = ori[j].Wcid
                            /\ j # i => ori'[j].status = ori[j].status
  BY <1>0, Hands, StatusWritten DEF FreeNone, Statuses
<1>3. /\ \A c \in Callers : ~Opening(c, i) /\ call[c].pc # "take"
      /\ \A c \in Callers : Filling(c) => call[c].entry # i
      /\ mlme.pc \in {"count", "counted", "bit", "cancel"} => mlme.Idx # i
  BY <1>0, NotInHand
<1>4. \A w \in Stations : mac[w].arr # 0 => mac[w].arr \in Entries
  BY Hands
<1> HIDE DEF i
<1>5. \A c \in Callers : OpenOK(c)'
  BY <1>0, <1>1, <1>2, <1>3, Hands DEF Book, OpenOK, CallOK, Filling, Opening,
                                       i
<1>6. SoleOK' /\ UsedOK' /\ TabBook'
  BY <1>0, <1>1, <1>2 DEF Book, SoleOK, UsedOK, TabBook, Opening
<1>7. EstOK'
  BY <1>0, <1>1, <1>2, <1>3, Hands DEF Book, EstOK, MlmeOK
<1>8. FoundOK'
  BY <1>0, <1>1, <1>2 DEF Book, FoundOK, Open, i
<1>9. MapOK' /\ BitsOK'
  BY <1>0, <1>1, <1>2, <1>4 DEF Book, MapOK, BitsOK, Filling
<1>10. CountsOK'
  <2>1. Taken' = Taken \ {i} /\ Taken \in SUBSET Entries /\ i \in Taken
    BY <1>0, <1>2 DEF Taken, FreeEntries, Open
  <2>2. Counted' = Counted
    BY <1>0, <1>1, <1>2 DEF Counted, WithStatus, Uncounted, i
  <2>3. /\ Cardinality(Taken \ {i}) = Cardinality(Taken) - 1
        /\ Cardinality(Taken) \in 1 .. NumSpace - 1
    BY <2>1, EntryRemoved
  <2>4. num.done = Cardinality(Counted) /\ num.as = Cardinality(Taken)
    BY DEF Book, CountsOK
  <2>5. num'.as = Minus(num.as) /\ num'.done = num.done
    BY Hands DEF FreeNone, NumType
  <2>6. Minus(num.as) = num.as - 1
    BY <1>0, <2>3, <2>4, NumRange
  <2> QED
    BY <2>1, <2>2, <2>3, <2>4, <2>5, <2>6 DEF CountsOK
<1> QED
  BY <1>5, <1>6, <1>7, <1>8, <1>9, <1>10 DEF Book

LEMMA BookToken ==
  ASSUME TypeInv, Book, FreeToken
  PROVE  Book'
<1>0. /\ tab.pc = "token" /\ tab.Idx \in Entries /\ tab.Idx # 0
      /\ ori[tab.Idx].status = "NONE"
      /\ UNCHANGED <<mac, num, call>>
  BY NotInHand DEF FreeToken, Book, TabBook
<1>1. tab'.Idx = 0 /\ tab'.pc = "idle"
  BY Idle DEF FreeToken
<1>2. \A j \in Entries : /\ ori'[j].Wcid = ori[j].Wcid
                         /\ ori'[j].status = ori[j].status
  BY <1>0, Hands, TokenWritten, Constant DEF FreeToken
<1>3. \/ mlme' = mlme
      \/ mlme'.pc \notin {"count", "counted", "bit", "cancel"}
  BY Hands, GoesOn DEF FreeToken
<1>4. mlme' # mlme => mlme.pc \notin {"count", "counted"}
  BY DEF FreeToken
<1>5. \A c \in Callers : OpenOK(c)'
  BY <1>0, <1>1, <1>2, Hands, Constant DEF Book, OpenOK, CallOK, Filling
<1>6. SoleOK' /\ UsedOK' /\ TabBook'
  BY <1>0, <1>1, <1>2 DEF Book, SoleOK, UsedOK, TabBook, Opening
<1>7. EstOK'
  BY <1>0, <1>1, <1>2, <1>3, Hands, Constant DEF Book, EstOK, MlmeOK
<1>8. FoundOK'
  BY <1>0, <1>1, <1>2 DEF Book, FoundOK, Open
<1>9. MapOK' /\ BitsOK'
  BY <1>0, <1>1, <1>2, Hands DEF Book, MapOK, BitsOK, Filling
<1>10. CountsOK'
  <2>1. Taken' = Taken
    BY <1>2 DEF Taken, FreeEntries
  <2>2. Counted' = Counted
    BY <1>0, <1>1, <1>2, <1>3, <1>4 DEF Counted, WithStatus, Uncounted
  <2> QED
    BY <1>0, <2>1, <2>2 DEF Book, CountsOK
<1> QED
  BY <1>5, <1>6, <1>7, <1>8, <1>9, <1>10 DEF Book

\* A caller that goes on with an entry it holds, or chooses one, while all
\* else stands still.
LEMMA BookHold ==
  ASSUME TypeInv, Book, NEW c \in Callers,
         UNCHANGED <<mac, ori, num, tab, mlme>>,
         \A d \in Callers : d # c => call'[d] = call[d],
         OpenOK(c)', ~Filling(c), ~Filling(c)',
         \A i \in Entries : Opening(c, i)' <=> Opening(c, i)
  PROVE  Book'
<1>1. \A d \in Callers : OpenOK(d)'
  <2>1. ASSUME NEW d \in Callers, d # c
        PROVE  OpenOK(d)'
    BY <2>1 DEF Book, OpenOK, Filling
  <2> QED
    BY <2>1
<1>2. /\ \A d \in Callers, i \in Entries : Opening(d, i)' <=> Opening(d, i)
      /\ \A d \in Callers : Filling(d)' <=> Filling(d)
      /\ \A d \in Callers : Filling(d) => call'[d] = call[d]
  BY DEF Opening, Filling
<1>3. SoleOK' /\ UsedOK'
  BY <1>2 DEF Book, SoleOK, UsedOK
<1>4. TabBook' /\ EstOK' /\ BitsOK'
  BY DEF Book, TabBook, EstOK, BitsOK
<1>5. FoundOK' /\ MapOK'
  BY <1>2 DEF Book, FoundOK, MapOK, Filling
<1>6. CountsOK'
  <2>1. Taken' = Taken /\ Counted' = Counted
    BY DEF Taken, FreeEntries, Counted, WithStatus, Uncounted
  <2> QED
    BY <2>1 DEF Book, CountsOK
<1> QED
  BY <1>1, <1>3, <1>4, <1>5, <1>6 DEF Book

LEMMA BookAlloc ==
  ASSUME TypeInv, Book, NEW c \in Callers, ba_alloc_ori_entry(c)
  PROVE  Book'
<1>0. /\ call \in [Callers -> CallType] /\ call[c].pc = "alloc"
      /\ ~call[c].own
      /\ UNCHANGED <<mac, ori, timer, num, tab, tt, mlme, hist>>
  BY Hands DEF ba_alloc_ori_entry, CallOK
<1>1. CASE FreeEntries # {} /\ call' = [call EXCEPT ![c].pc = "take",
                                         ![c].Idx = Min(FreeEntries),
                                         ![c].entry = Min(FreeEntries)]
  <2>1. /\ call'[c].entry = Min(FreeEntries) /\ call'[c].pc = "take"
        /\ call'[c].own = call[c].own
        /\ \A d \in Callers : d # c => call'[d] = call[d]
    BY <1>0, <1>1 DEF CallType
  <2>2. ori[call'[c].entry].status = "NONE"
    BY <1>1, <2>1, MinFree DEF FreeEntries
  <2>3. OpenOK(c)'
    BY <1>0, <2>1, <2>2 DEF OpenOK, Filling
  <2> QED
    BY <1>0, <2>1, <2>3, BookHold DEF Filling, Opening
<1>2. CASE Return(c) \/ call' = [call EXCEPT ![c].pc = "test",
                                             ![c].entry = TableSize - 1]
  <2>1. /\ call'[c].pc \in {"idle", "test"} /\ ~call'[c].own
        /\ \A d \in Callers : d # c => call'[d] = call[d]
    BY <1>0, <1>2, Idle DEF Return, CallType
  <2>2. OpenOK(c)'
    BY <2>1 DEF OpenOK, Filling
  <2> QED
    BY <1>0, <2>1, <2>2, BookHold DEF Filling, Opening
<1> QED
  BY <1>1, <1>2 DEF ba_alloc_ori_entry

LEMMA BookTake ==
  ASSUME TypeInv, Book, NEW c \in Callers, Take(c)
  PROVE  Book'
<1>0. /\ call \in [Callers -> CallType] /\ call[c].pc = "take"
      /\ call[c].entry \in Entries /\ tab.pc = "idle" /\ tab.Idx = 0
      /\ ori[call[c].entry].status = "NONE"
      /\ num.as \in 0 .. NumSpace - 1
      /\ UNCHANGED <<mac, tab, mlme>>
  BY Hands DEF Take, CallOK, TabOK, Book, OpenOK
<1> DEFINE i == call[c].entry
<1>1. /\ call'[c].pc = "test" /\ call'[c].own /\ call'[c].entry = i
      /\ \A d \in Callers : d # c => call'[d] = call[d]
  BY <1>0 DEF Take, CallType
<1>2. /\ ori'[i].status = "USED"
      /\ \A j \in Entries : /\ ori'[j].Wcid = ori[j].Wcid
                            /\ j # i => ori'[j].status = ori[j].status
  BY <1>0, Hands, StatusWritten DEF Take, Statuses
<1>3. i \in Entries /\ i # 0 /\ ori[i].status = "NONE"
  BY <1>0, Constant
<1> HIDE DEF i
<1>4. \A d \in Callers : ~Opening(d, i) /\ ~(Filling(d) /\ call[d].entry = i)
  BY <1>3 DEF Book, OpenOK, Opening, Filling, Open
<1>5. \A d \in Callers : OpenOK(d)'
  <2>1. OpenOK(c)'
    BY <1>0, <1>1, <1>2, <1>3 DEF OpenOK, Filling
  <2>2. ASSUME NEW d \in Callers, d # c
        PROVE  OpenOK(d)'
    <3>1. call[d].pc # "take"
      BY <1>0, <2>2, Hands DEF TabOK
    <3> QED
      BY <1>0, <1>1, <1>2, <1>4, <2>2, <3>1, Hands
      DEF Book, OpenOK, CallOK, Filling, Opening
  <2> QED
    BY <2>1, <2>2
<1>6. \A d \in Callers, j \in Entries :
        /\ Opening(d, j)' <=> Opening(d, j) \/ (d = c /\ j = i)
        /\ d = c => ~Opening(d, j)
  BY <1>0, <1>1 DEF Opening
<1>7. \A d \in Callers : /\ Filling(d)' <=> Filling(d)
                         /\ Filling(d) => call'[d] = call[d]
  BY <1>0, <1>1 DEF Filling
<1>8. SoleOK'
  BY <1>4, <1>6 DEF Book, SoleOK
<1>9. UsedOK'
  BY <1>2, <1>6 DEF Book, UsedOK
<1>10. TabBook' /\ EstOK'
  BY <1>0, <1>2, <1>3, Hands DEF Book, TabBook, EstOK, MlmeOK
<1>11. FoundOK'
  BY <1>0, <1>2, <1>7 DEF Book, FoundOK, Filling, Open
<1>12. MapOK' /\ BitsOK'
  BY <1>0, <1>2, <1>3, <1>7, Hands DEF Book, MapOK, BitsOK, Open
<1>13. CountsOK'
  <2>1. Taken' = Taken \cup {i} /\ Taken \in SUBSET Entries
        /\ i \in Entries \ Taken
    BY <1>2, <1>3 DEF Taken, FreeEntries
  <2>2. Counted' = Counted
    BY <1>0, <1>2, <1>3 DEF Counted, WithStatus, Uncounted
  <2>3. /\ Cardinality(Taken \cup {i}) = Cardinality(Taken) + 1
        /\ Cardinality(Taken) + 1 < NumSpace
    BY <2>1, EntryAdded
  <2>4. num.done = Cardinality(Counted) /\ num.as = Cardinality(Taken)
    BY DEF Book, CountsOK
  <2>5. num'.as = Plus(num.as) /\ num'.done = num.done
    BY Hands DEF Take, CountedAlloc, NumType
  <2>6. Plus(num.as) = num.as + 1
    BY <1>0, <2>3, <2>4, NumRange
  <2> QED
    BY <2>1, <2>2, <2>3, <2>4, <2>5, <2>6 DEF CountsOK
<1> QED
  BY <1>5, <1>8, <1>9, <1>10, <1>11, <1>12, <1>13 DEF Book

LEMMA BookTest ==
  ASSUME TypeInv, Book, NEW c \in Callers, SetupTest(c)
  PROVE  Book'
<1>0. /\ call[c].pc = "test" /\ UNCHANGED <<mac, ori, num, tab, mlme>>
      /\ call[c].own => ori[call[c].entry].status = "USED"
  BY DEF SetupTest, Book, OpenOK
<1>1. CASE CallAt(c, "map")
  <2>1. /\ call'[c].pc = "map" /\ call'[c].own = call[c].own
        /\ call'[c].entry = call[c].entry
        /\ \A d \in Callers : d # c => call'[d] = call[d]
    BY <1>1, Hands, CallMoves DEF CallPcs
  <2>2. OpenOK(c)'
    BY <1>0, <2>1 DEF Book, OpenOK, Filling
  <2> QED
    BY <1>0, <2>1, <2>2, BookHold DEF Filling, Opening
<1>2. CASE Return(c) /\ ori[call[c].entry].status \in Open
  <2>1. /\ call'[c].pc = "idle" /\ ~call'[c].own
        /\ \A d \in Callers : d # c => call'[d] = call[d]
    BY <1>2, Hands, CallReturns
  <2>2. OpenOK(c)' /\ ~call[c].own
    BY <1>0, <1>2, <2>1 DEF OpenOK, Filling, Open
  <2> QED
    BY <1>0, <2>1, <2>2, BookHold DEF Filling, Opening
<1> QED
  BY <1>1, <1>2 DEF SetupTest

\* The station is mapped to the entry: rightly, if the step is not stale.
LEMMA BookMap ==
  ASSUME TypeInv, Book, NEW c \in Callers, SetupMap(c), ~hist'.stale
  PROVE  Book'
<1> DEFINE i == call[c].entry
           w == call[c].sta
<1>0. /\ call[c].pc = "map" /\ call[c].own /\ ori[i].status = "USED"
      /\ mac[w].arr = 0 /\ i \in Entries /\ i # 0 /\ w \in Stations
      /\ call[c].Idx = i /\ tab.Idx # i /\ Opening(c, i)
      /\ UNCHANGED <<ori, num, tab, mlme>>
  BY Hands, Constant DEF SetupMap, Stale, Rightful, CallOK, Book, OpenOK,
                         Opening
<1>1. /\ call'[c].pc = "status" /\ call'[c].own /\ call'[c].entry = i
      /\ call'[c].sta = w
      /\ \A d \in Callers : d # c => call'[d] = call[d]
  BY <1>0, Hands, CallMoves DEF SetupMap, CallPcs
<1>2. /\ mac'[w].arr = i
      /\ \A v \in Stations : /\ mac'[v].TXBA = mac[v].TXBA
                             /\ v # w => mac'[v].arr = mac[v].arr
  <2>1. mac' = [mac EXCEPT ![w].arr = i] /\ i \in Idxs
    BY <1>0, Constant DEF SetupMap
  <2> QED
    BY <1>0, <2>1, Hands, ArrWritten
<1> HIDE DEF i, w
<1>3. \A d \in Callers : d # c => ~Opening(d, i)
  BY <1>0 DEF Book, SoleOK
<1>4. \A d \in Callers : Filling(d) => /\ d # c /\ call[d].entry # i
                                       /\ call[d].sta # w
  <2>1. \A d \in Callers : Filling(d) => d # c /\ call[d].entry # i
    BY <1>0, <1>3 DEF Book, OpenOK, Filling, Opening, i
  <2>2. ASSUME NEW d \in Callers, Filling(d), call[d].sta = w
        PROVE  FALSE
    <3>1. call[d].entry \in Entries /\ mac[w].arr = call[d].entry
      BY <1>0, <2>2, Hands DEF Book, OpenOK, CallOK, Filling
    <3> QED
      BY <1>0, <3>1, Constant
  <2> QED
    BY <2>1, <2>2
<1>5. \A v \in Stations : mac[v].arr # i
  <2> SUFFICES ASSUME NEW v \in Stations, mac[v].arr = i
               PROVE  FALSE
    OBVIOUS
  <2>1. PICK d \in Callers : Filling(d) /\ call[d].sta = v
    BY <1>0 DEF Book, MapOK, Open
  <2>2. call[d].entry = i
    BY <2>1 DEF Book, OpenOK
  <2> QED
    BY <1>4, <2>1, <2>2
<1>6. \A d \in Callers : OpenOK(d)'
  <2>1. OpenOK(c)'
    BY <1>0, <1>1, <1>2, <1>5 DEF OpenOK, Filling
  <2>2. ASSUME NEW d \in Callers, d # c
        PROVE  OpenOK(d)'
    BY <1>0, <1>1, <1>2, <1>4, <2>2 DEF Book, OpenOK, Filling
  <2> QED
    BY <2>1, <2>2
<1>7. \A d \in Callers, j \in Entries : Opening(d, j)' <=> Opening(d, j)
  BY <1>0, <1>1 DEF Opening, i
<1>8. SoleOK' /\ UsedOK'
  <2>1. SoleOK'
    BY <1>7 DEF Book, SoleOK
  <2>2. \A j \in Entries : ori'[j].status = ori[j].status
    BY <1>0
  <2>3. UsedOK'
    BY <1>7, <2>2 DEF Book, UsedOK
  <2> QED
    BY <2>1, <2>3
<1>9. TabBook'
  BY <1>0, <1>2, NotInHand DEF Book, TabBook
<1>10. EstOK'
  <2>1. mlme.pc \in {"count", "counted", "bit", "cancel"} => mlme.sta # w
    BY <1>0, Hands, Constant DEF Book, EstOK, MlmeOK
  <2> QED
    BY <1>0, <1>2, <2>1, Hands DEF Book, EstOK, MlmeOK
<1>11. FoundOK'
  <2> SUFFICES ASSUME NEW j \in Entries, ori[j].status \in Open,
                      tab.Idx # j,
                      ~ \E d \in Callers :
                          call'[d].pc = "wcid" /\ call'[d].entry = j
               PROVE  ori[j].Wcid \in Stations /\ mac'[ori[j].Wcid].arr = j
    BY <1>0 DEF FoundOK
  <2>1. ~ \E d \in Callers : call[d].pc = "wcid" /\ call[d].entry = j
    BY <1>0, <1>1
  <2>2. ori[j].Wcid \in Stations /\ mac[ori[j].Wcid].arr = j
    BY <2>1 DEF Book, FoundOK
  <2> QED
    BY <1>0, <1>2, <2>2, Constant
<1>12. MapOK'
  <2>1. Filling(c)' /\ call'[c].sta = w
    BY <1>1 DEF Filling
  <2>2. \A d \in Callers : Filling(d) => Filling(d)' /\ call'[d] = call[d]
    BY <1>1, <1>4 DEF Filling
  <2> QED
    BY <1>0, <1>2, <2>1, <2>2 DEF Book, MapOK
<1>13. BitsOK'
  BY <1>0, <1>2 DEF Book, BitsOK
<1>14. CountsOK'
  <2>1. Taken' = Taken /\ Counted' = Counted
    BY <1>0 DEF Taken, FreeEntries, Counted, WithStatus, Uncounted
  <2> QED
    BY <1>0, <2>1 DEF Book, CountsOK
<1> QED
  BY <1>6, <1>8, <1>9, <1>10, <1>11, <1>12, <1>13, <1>14 DEF Book

\* The entry waits for the answer before it has its station.
LEMMA BookStatus ==
  ASSUME TypeInv, Book, NEW c \in Callers, SetupStatus(c)
  PROVE  Book'
<1> DEFINE e == call[c].entry
           w == call[c].sta
<1>0. /\ call[c].pc = "status" /\ call[c].own /\ e \in Entries /\ e # 0
      /\ ori[e].status = "USED" /\ tab.Idx # e /\ Opening(c, e)
      /\ \A v \in Stations : mac[v].arr = e <=> v = w
      /\ UNCHANGED <<mac, num, tab, mlme>>
  BY Hands, Constant DEF SetupStatus, CallOK, Book, OpenOK, Opening, Filling
<1>1. /\ call'[c].pc = "wcid" /\ call'[c].own /\ call'[c].entry = e
      /\ call'[c].sta = w
      /\ \A d \in Callers : d # c => call'[d] = call[d]
  BY <1>0, Hands, CallMoves DEF SetupStatus, CallPcs
<1>2. /\ ori'[e].status = "WaitRes"
      /\ \A j \in Entries : /\ ori'[j].Wcid = ori[j].Wcid
                            /\ j # e => ori'[j].status = ori[j].status
  BY <1>0, Hands, StatusWritten DEF SetupStatus, Statuses
<1> HIDE DEF e, w
<1>3. \A d \in Callers : d # c => ~Opening(d, e)
  BY <1>0 DEF Book, SoleOK
<1>4. \A d \in Callers, j \in Entries : Opening(d, j)' <=> Opening(d, j)
  BY <1>0, <1>1 DEF Opening, e
<1>5. \A d \in Callers : /\ Filling(d)' <=> Filling(d)
                         /\ call'[d].entry = call[d].entry
                         /\ call'[d].sta = call[d].sta
  BY <1>0, <1>1 DEF Filling, e, w
<1>6. \A d \in Callers : OpenOK(d)'
  <2>1. OpenOK(c)'
    BY <1>0, <1>1, <1>2 DEF OpenOK, Filling, Open
  <2>2. ASSUME NEW d \in Callers, d # c
        PROVE  OpenOK(d)'
    BY <1>0, <1>1, <1>2, <1>3, <2>2, Hands
    DEF Book, OpenOK, CallOK, Filling, Opening, Open
  <2> QED
    BY <2>1, <2>2
<1>7. SoleOK' /\ UsedOK'
  <2>1. SoleOK'
    BY <1>4 DEF Book, SoleOK
  <2>2. UsedOK'
    BY <1>2, <1>4 DEF Book, UsedOK
  <2> QED
    BY <2>1, <2>2
<1>8. TabBook' /\ EstOK'
  BY <1>0, <1>2, Hands DEF Book, TabBook, EstOK, MlmeOK, TabOK
<1>9. FoundOK'
  <2> SUFFICES ASSUME NEW j \in Entries, ori'[j].status \in Open,
                      tab.Idx # j,
                      ~ \E d \in Callers :
                          call'[d].pc = "wcid" /\ call'[d].entry = j
               PROVE  ori[j].Wcid \in Stations /\ mac[ori[j].Wcid].arr = j
    BY <1>0, <1>2 DEF FoundOK
  <2>1. j # e /\ ~ \E d \in Callers : call[d].pc = "wcid" /\ call[d].entry = j
    BY <1>0, <1>1
  <2> QED
    BY <1>2, <2>1 DEF Book, FoundOK
<1>10. MapOK' /\ BitsOK'
  BY <1>0, <1>2, <1>5, Hands DEF Book, MapOK, BitsOK, Open, TabOK
<1>11. CountsOK'
  <2>1. Taken' = Taken
    BY <1>0, <1>2 DEF Taken, FreeEntries
  <2>2. Counted' = Counted
    BY <1>0, <1>2 DEF Counted, WithStatus, Uncounted
  <2> QED
    BY <1>0, <2>1, <2>2 DEF Book, CountsOK
<1> QED
  BY <1>6, <1>7, <1>8, <1>9, <1>10, <1>11 DEF Book

\* The entry has its station, and is in nobody's hand any more.
LEMMA BookWcid ==
  ASSUME TypeInv, Book, NEW c \in Callers, SetupWcid(c)
  PROVE  Book'
<1> DEFINE e == call[c].entry
           w == call[c].sta
<1>0. /\ call[c].pc = "wcid" /\ e \in Entries /\ w \in Stations
      /\ ori[e].status \in Open /\ tab.Idx # e
      /\ \A v \in Stations : mac[v].arr = e <=> v = w
      /\ UNCHANGED <<mac, num, tab, mlme>>
  BY Hands DEF SetupWcid, CallOK, Book, OpenOK, Filling
<1>1. /\ call'[c].pc = "token"
      /\ \A d \in Callers : d # c => call'[d] = call[d]
  BY <1>0, Hands, CallMoves DEF SetupWcid, CallPcs
<1>2. /\ ori'[e].Wcid = w
      /\ \A j \in Entries : /\ ori'[j].status = ori[j].status
                            /\ j # e => ori'[j].Wcid = ori[j].Wcid
  BY <1>0, Hands, WcidWritten DEF SetupWcid
<1> HIDE DEF e, w
<1>3. \A d \in Callers, j \in Entries :
        Opening(d, j)' <=> Opening(d, j) /\ d # c
  BY <1>1 DEF Opening
<1>4. \A d \in Callers :
        Filling(d) /\ d # c => Filling(d)' /\ call'[d] = call[d]
  BY <1>1 DEF Filling
<1>5. \A d \in Callers : OpenOK(d)'
  <2>1. OpenOK(c)'
    BY <1>1 DEF OpenOK, Filling
  <2>2. ASSUME NEW d \in Callers, d # c
        PROVE  OpenOK(d)'
    BY <1>0, <1>1, <1>2, <2>2, Hands DEF Book, OpenOK, CallOK, Filling
  <2> QED
    BY <2>1, <2>2
<1>6. SoleOK'
  BY <1>3 DEF Book, SoleOK
<1>7. UsedOK'
  <2>1. \A j \in Entries : ori[j].status = "USED" => ~Opening(c, j)
    BY <1>0 DEF Opening, e, Open
  <2> QED
    BY <1>2, <1>3, <2>1 DEF Book, UsedOK
<1>8. TabBook' /\ EstOK'
  BY <1>0, <1>2, Hands DEF Book, TabBook, EstOK, MlmeOK, TabOK
<1>9. FoundOK'
  <2> SUFFICES ASSUME NEW j \in Entries, ori[j].status \in Open,
                      tab.Idx # j, j # e,
                      ~ \E d \in Callers :
                          call'[d].pc = "wcid" /\ call'[d].entry = j
               PROVE  ori[j].Wcid \in Stations /\ mac[ori[j].Wcid].arr = j
    BY <1>0, <1>2 DEF FoundOK
  <2>1. ~ \E d \in Callers : call[d].pc = "wcid" /\ call[d].entry = j
    BY <1>0, <1>1 DEF e
  <2> QED
    BY <2>1 DEF Book, FoundOK
<1>10. MapOK'
  <2> SUFFICES ASSUME NEW v \in Stations, mac[v].arr # 0
               PROVE  \/ /\ ori'[mac[v].arr].status \in Open
                         /\ ori'[mac[v].arr].Wcid = v
                      \/ \E d \in Callers : Filling(d)' /\ call'[d].sta = v
    BY <1>0 DEF MapOK
  <2>0. mac[v].arr \in Entries
    BY Hands
  <2>1. CASE v = w
    BY <1>0, <1>2, <2>1
  <2>2. CASE v # w /\ \E d \in Callers : Filling(d) /\ call[d].sta = v
    BY <1>4, <2>2 DEF w
  <2>3. CASE v # w /\ ori[mac[v].arr].status \in Open
                   /\ ori[mac[v].arr].Wcid = v
    BY <1>0, <1>2, <2>0, <2>3
  <2> QED
    BY <2>1, <2>2, <2>3 DEF Book, MapOK
<1>11. BitsOK'
  BY <1>0, <1>2, Hands DEF Book, BitsOK, TabOK
<1>12. CountsOK'
  <2>1. Taken' = Taken
    BY <1>2 DEF Taken, FreeEntries
  <2>2. Counted' = Counted
    BY <1>0, <1>2 DEF Counted, WithStatus, Uncounted
  <2> QED
    BY <1>0, <2>1, <2>2 DEF Book, CountsOK
<1> QED
  BY <1>5, <1>6, <1>7, <1>8, <1>9, <1>10, <1>11, <1>12 DEF Book

\* The peer has accepted: rightly, if the step is not stale.
LEMMA BookDone ==
  ASSUME TypeInv, Book, AddDone, ~hist'.stale
  PROVE  Book'
<1> DEFINE e == mlme.Idx
           w == mlme.sta
<1>0. /\ mlme.pc = "done" /\ e \in Entries /\ e # 0 /\ w \in Stations
      /\ ori[e].status = "WaitRes" /\ mac[w].arr = e /\ tab.Idx # e
      /\ UNCHANGED <<mac, num, tab, call>>
  BY Hands, Constant DEF AddDone, Stale, Awaited, MlmeOK
<1>1. mlme'.pc = "count" /\ mlme'.Idx = e /\ mlme'.sta = w
  BY Hands, MlmeMoves DEF AddDone, MlmePcs
<1>2. /\ ori'[e].status = "Done"
      /\ \A j \in Entries : /\ ori'[j].Wcid = ori[j].Wcid
                            /\ j # e => ori'[j].status = ori[j].status
  BY <1>0, Hands, StatusWritten DEF AddDone, Statuses
<1> HIDE DEF e, w
<1>3. \A c \in Callers : OpenOK(c)'
  BY <1>0, <1>2, Hands DEF Book, OpenOK, CallOK, Filling, Open
<1>4. SoleOK' /\ UsedOK'
  BY <1>0, <1>2 DEF Book, SoleOK, UsedOK, Opening
<1>5. TabBook' /\ EstOK'
  BY <1>0, <1>1, <1>2, Hands DEF Book, TabBook, EstOK, TabOK
<1>6. FoundOK'
  BY <1>0, <1>2 DEF Book, FoundOK, Open
<1>7. MapOK' /\ BitsOK'
  BY <1>0, <1>2, Hands DEF Book, MapOK, BitsOK, Filling, Open, TabOK
<1>8. CountsOK'
  <2>1. Taken' = Taken
    BY <1>0, <1>2 DEF Taken, FreeEntries
  <2>2. Counted' = Counted
    BY <1>0, <1>1, <1>2 DEF Counted, WithStatus, Uncounted, e
  <2> QED
    BY <1>0, <2>1, <2>2 DEF Book, CountsOK
<1> QED
  BY <1>3, <1>4, <1>5, <1>6, <1>7, <1>8 DEF Book

\* A session just established, while its handler goes on.
LEMMA BookEst ==
  ASSUME TypeInv, Book, UNCHANGED <<ori, tab, call>>,
         mlme.pc \in {"count", "counted", "bit"},
         mlme'.pc \in {"counted", "bit", "cancel"},
         mlme'.Idx = mlme.Idx, mlme'.sta = mlme.sta,
         \A w \in Stations : /\ mac'[w].arr = mac[w].arr
                             /\ w # mlme.sta => mac'[w].TXBA = mac[w].TXBA
  PROVE  /\ \A c \in Callers : OpenOK(c)'
         /\ SoleOK' /\ UsedOK' /\ TabBook' /\ EstOK' /\ FoundOK' /\ MapOK'
         /\ BitsOK' /\ Taken' = Taken
<1>1. \A c \in Callers : OpenOK(c)'
  BY DEF Book, OpenOK, Filling
<1>2. SoleOK' /\ UsedOK'
  BY DEF Book, SoleOK, UsedOK, Opening
<1>3. TabBook'
  BY DEF Book, TabBook
<1>4. EstOK'
  BY Hands DEF Book, EstOK, MlmeOK
<1>5. FoundOK'
  BY DEF Book, FoundOK
<1>6. MapOK'
  BY DEF Book, MapOK, Filling
<1>7. BitsOK'
  BY Hands, Constant DEF Book, BitsOK, EstOK, MlmeOK
<1>8. Taken' = Taken
  BY DEF Taken, FreeEntries
<1> QED
  BY <1>1, <1>2, <1>3, <1>4, <1>5, <1>6, <1>7, <1>8

LEMMA BookCount ==
  ASSUME TypeInv, Book, AddCount
  PROVE  Book'
<1>0. /\ mlme.pc = "count" /\ UNCHANGED <<mac, ori, num, tab, call>>
  BY DEF AddCount
<1>1. mlme'.pc = "counted" /\ mlme'.Idx = mlme.Idx /\ mlme'.sta = mlme.sta
  BY Hands DEF AddCount, MlmeType
<1>2. Counted' = Counted
  BY <1>0, <1>1 DEF Counted, WithStatus, Uncounted
<1> QED
  BY <1>0, <1>1, <1>2, BookEst DEF Book, CountsOK

\* The session is counted, and nobody has changed the count meanwhile.
LEMMA BookAddCounted ==
  ASSUME TypeInv, Book, AddCounted, ~hist'.stale
  PROVE  Book'
<1> DEFINE e == mlme.Idx
<1>0. /\ mlme.pc = "counted" /\ e \in Entries
      /\ mlme.n = num.done /\ num.done \in 0 .. NumSpace - 1
      /\ ori[e].status = "Done" /\ tab.Idx # e
      /\ UNCHANGED <<mac, ori, tab, call>>
  BY Hands DEF AddCounted, Stale, MlmeOK, Book, EstOK
<1>1. mlme'.pc = "bit" /\ mlme'.Idx = e /\ mlme'.sta = mlme.sta
  BY Hands, MlmeMoves DEF AddCounted, MlmePcs
<1>2. Counted \in SUBSET Entries /\ e \in Entries \ Counted
  BY <1>0 DEF Counted, WithStatus, Uncounted
<1>3. Counted' = Counted \cup {e}
  BY <1>0, <1>1 DEF Counted, WithStatus, Uncounted
<1>4. /\ Cardinality(Counted \cup {e}) = Cardinality(Counted) + 1
      /\ Cardinality(Counted) + 1 < NumSpace
  BY <1>2, EntryAdded
<1>5. num.done = Cardinality(Counted) /\ num.as = Cardinality(Taken)
  BY DEF Book, CountsOK
<1>6. num'.done = Plus(num.done) /\ num'.as = num.as
  BY <1>0, Hands DEF AddCounted, NumType
<1>7. Plus(num.done) = num.done + 1
  BY <1>0, <1>4, <1>5, NumRange
<1>8. /\ \A c \in Callers : OpenOK(c)'
      /\ SoleOK' /\ UsedOK' /\ TabBook' /\ EstOK' /\ FoundOK' /\ MapOK'
      /\ BitsOK' /\ Taken' = Taken
  BY <1>0, <1>1, BookEst
<1> QED
  BY <1>3, <1>4, <1>5, <1>6, <1>7, <1>8 DEF Book, CountsOK

LEMMA BookAddBit ==
  ASSUME TypeInv, Book, AddBit
  PROVE  Book'
<1>0. /\ mlme.pc = "bit" /\ UNCHANGED <<ori, num, tab, call>>
  BY DEF AddBit
<1>1. mlme'.pc = "cancel" /\ mlme'.Idx = mlme.Idx /\ mlme'.sta = mlme.sta
  BY Hands, MlmeMoves DEF AddBit, MlmePcs
<1>2. \A w \in Stations : /\ mac'[w].arr = mac[w].arr
                          /\ w # mlme.sta => mac'[w].TXBA = mac[w].TXBA
  BY Hands, BitWritten DEF AddBit
<1>3. Counted' = Counted
  BY <1>0, <1>1 DEF Counted, WithStatus, Uncounted
<1> QED
  BY <1>0, <1>1, <1>2, <1>3, BookEst DEF Book, CountsOK

\* Nothing undoes a stale step.
LEMMA StaleStays ==
  ASSUME TypeInv, [Next]_vars, ~hist'.stale
  PROVE  ~hist.stale
<1> SUFFICES ASSUME hist.stale PROVE hist'.stale
  OBVIOUS
<1>1. hist' = hist => hist'.stale
  OBVIOUS
<1>2. \A b : Stale(b) => hist'.stale
  BY Hands DEF Stale
<1>3. CASE Free
  BY <1>1, <1>2, <1>3, Hands DEF Free, FreeUnmap, FreeLook, FreeCounted,
     FreeBit, FreeNone, FreeToken
<1>4. CASE Timeout \/ \E i \in Entries : TimerFires(i)
  <2>1. CASE TimeoutFree
    BY <1>1, <1>2, <2>1 DEF TimeoutFree, ba_free_ori_entry
  <2>2. ASSUME NEW i \in Entries, RtmpTimerQHandle(i) \/ TimerFires(i)
        PROVE  hist'.stale
    BY <1>1, <2>2 DEF RtmpTimerQHandle, TimerFires
  <2>3. CASE TimeoutLook \/ TimeoutTest \/ TimeoutTries \/ TimeoutAgain
             \/ TimeoutCount \/ TimeoutSet \/ TimeoutPick
    BY <1>1, <2>3 DEF TimeoutLook, TimeoutTest, TimeoutTries, TimeoutAgain,
       TimeoutCount, TimeoutSet, TimeoutPick
  <2> QED
    BY <1>4, <2>1, <2>2, <2>3 DEF Timeout
<1>5. CASE Handler
  BY <1>1, <1>2, <1>5 DEF Handler, AddLook, AddTest, AddDone, AddCount,
     AddCounted, AddBit, AddCancel, TearDown, TearRelease, TearFree,
     ba_free_ori_entry, EntryGone, EntryReset
<1>6. ASSUME NEW c \in Callers, Setup(c)
      PROVE  hist'.stale
  BY <1>1, <1>2, <1>6 DEF Setup, SetupLook, ba_alloc_ori_entry, Take,
     SetupTest, SetupMap, SetupStatus, SetupWcid, SetupToken, SetupArm,
     SetupTimer
<1>7. CASE \/ \E c \in Callers, w \in Stations : ExtEventBaTriggerHandler(c, w)
           \/ \E w \in Stations : Message(w)
  BY <1>1, <1>7 DEF ExtEventBaTriggerHandler, Message, peer_addba_rsp_action,
     peer_delba_action, ap_peer_auth, ap_assoc, MacTableDeleteEntry,
     MacTableInsertEntry
<1>8. CASE UNCHANGED vars
  BY <1>1, <1>8 DEF vars
<1> QED
  BY <1>3, <1>4, <1>5, <1>6, <1>7, <1>8 DEF Next

LEMMA TimeoutBook ==
  ASSUME TypeInv, Book, Timeout, ~hist'.stale
  PROVE  Book'
<1>1. CASE TimeoutCount
  <2>1. PICK i \in Entries : i = tt.slot
    BY <1>1 DEF TimeoutCount, TtOK, TypeInv, HandsOK
  <2>2. tt.n + 1 \in 0 .. MaxRetry
    BY DEF TypeInv, TypeOK, TtType
  <2>3. ori' = [ori EXCEPT ![i].Token = tt.n + 1]
    BY <1>1, <2>1 DEF TimeoutCount
  <2>4. \A j \in Entries : /\ ori'[j].status = ori[j].status
                           /\ ori'[j].Wcid = ori[j].Wcid
    BY <2>2, <2>3, Hands, TokenWritten
  <2> QED
    BY <1>1, <2>4, Steady DEF TimeoutCount
<1>2. CASE TimeoutFree
  <2>1. CASE ba_free_ori_entry(tt.Idx, "tt")
    BY <1>2, <2>1, BookLock DEF TimeoutFree
  <2>2. CASE UNCHANGED tab
    BY <1>2, <2>2, Steady DEF TimeoutFree
  <2> QED
    BY <1>2, <2>1, <2>2 DEF TimeoutFree
<1>3. ASSUME NEW i \in Entries, RtmpTimerQHandle(i)
      PROVE  Book'
  BY <1>3, Steady DEF RtmpTimerQHandle
<1>4. CASE TimeoutLook \/ TimeoutTest \/ TimeoutTries \/ TimeoutAgain
           \/ TimeoutSet \/ TimeoutPick
  <2>1. UNCHANGED <<mac, ori, num, tab, call, mlme>>
    BY <1>4 DEF TimeoutLook, TimeoutTest, TimeoutTries, TimeoutAgain,
       TimeoutSet, TimeoutPick
  <2> QED
    BY <2>1, Steady
<1> QED
  BY <1>1, <1>2, <1>3, <1>4 DEF Timeout

LEMMA HandlerBook ==
  ASSUME TypeInv, Book, Handler, ~hist'.stale
  PROVE  Book'
<1>0. /\ \A p \in MlmePcs : MlmeAt(p) => mlme'.pc = p
      /\ GoOn \/ Finish =>
           mlme'.pc \notin {"count", "counted", "bit", "cancel"}
  BY Hands, MlmeMoves, GoesOn
<1>1. CASE AddDone
  BY <1>1, BookDone
<1>2. CASE AddCount
  BY <1>2, BookCount
<1>3. CASE AddCounted
  BY <1>3, BookAddCounted
<1>4. CASE AddBit
  BY <1>4, BookAddBit
<1>5. CASE AddLook \/ AddTest \/ AddCancel
  <2>1. mlme'.pc \notin {"count", "counted", "bit", "cancel"}
    BY <1>0, <1>5, Hands DEF AddLook, AddTest, AddCancel, MlmePcs, MlmeType
  <2> QED
    BY <1>5, <2>1, Steady DEF AddLook, AddTest, AddCancel
<1>6. CASE TearDown
  <2>1. mlme'.pc \notin {"count", "counted", "bit", "cancel"}
    BY <1>0, <1>6, Hands DEF TearDown, MlmeType
  <2> QED
    BY <1>6, <2>1, Steady DEF TearDown
<1>7. CASE TearRelease
  <2>1. mlme'.pc = "free"
    BY <1>0, <1>7 DEF TearRelease, MlmePcs
  <2> QED
    BY <1>7, <2>1, Steady DEF TearRelease
<1>8. CASE TearFree
  <2>1. CASE ba_free_ori_entry(mlme.Idx, "mlme") /\ UNCHANGED mlme
    BY <1>8, <2>1, BookLock DEF TearFree
  <2>2. CASE GoOn /\ UNCHANGED tab
    <3>1. mlme'.pc \notin {"count", "counted", "bit", "cancel"}
      BY <1>0, <2>2
    <3> QED
      BY <1>8, <2>2, <3>1, Steady DEF TearFree
  <2> QED
    BY <1>8, <2>1, <2>2 DEF TearFree
<1>9. CASE EntryGone
  <2>1. \A w \in Stations : /\ mac'[w].arr = mac[w].arr
                            /\ mac'[w].TXBA = mac[w].TXBA
    BY <1>9, Hands DEF EntryGone, MacType
  <2>2. mlme'.pc \notin {"count", "counted", "bit", "cancel"}
    BY <1>0, <1>9 DEF EntryGone
  <2> QED
    BY <1>9, <2>1, <2>2, Steady DEF EntryGone
<1>10. CASE EntryReset
  <2>1. mac[mlme.sta].arr = 0
    BY <1>10, Hands DEF EntryReset, Stale
  <2>2. \A w \in Stations : /\ mac'[w].arr = mac[w].arr
                            /\ mac'[w].TXBA => mac[w].TXBA
    BY <1>10, <2>1, Hands DEF EntryReset
  <2>3. mlme'.pc \notin {"count", "counted", "bit", "cancel"}
    BY <1>0, <1>10 DEF EntryReset
  <2> QED
    BY <1>10, <2>2, <2>3, Steady DEF EntryReset
<1> QED
  BY <1>1, <1>2, <1>3, <1>4, <1>5, <1>6, <1>7, <1>8, <1>9, <1>10 DEF Handler

LEMMA SetupBook ==
  ASSUME TypeInv, Book, NEW c \in Callers, Setup(c), ~hist'.stale
  PROVE  Book'
<1>0. /\ call \in [Callers -> CallType]
      /\ CallOK(c)
  BY Hands
<1>1. CASE ba_alloc_ori_entry(c)
  BY <1>1, BookAlloc
<1>2. CASE Take(c)
  BY <1>2, BookTake
<1>3. CASE SetupTest(c)
  BY <1>3, BookTest
<1>4. CASE SetupMap(c)
  BY <1>4, BookMap
<1>5. CASE SetupStatus(c)
  BY <1>5, BookStatus
<1>6. CASE SetupWcid(c)
  BY <1>6, BookWcid
<1>7. ASSUME UNCHANGED <<num, tab, mac, mlme>>, Out(call[c]), Out(call'[c]),
             \A d \in Callers : d # c => call'[d] = call[d],
             \A i \in Entries : /\ ori'[i].status = ori[i].status
                                /\ ori'[i].Wcid = ori[i].Wcid
      PROVE  Book'
  BY <1>7, Steady
<1>8. /\ \A p \in CallPcs : CallAt(c, p) =>
           /\ call'[c].pc = p /\ call'[c].own = call[c].own
           /\ \A d \in Callers : d # c => call'[d] = call[d]
      /\ Return(c) => /\ call'[c].pc = "idle"
                      /\ \A d \in Callers : d # c => call'[d] = call[d]
  BY <1>0, CallMoves, CallReturns
<1>9. CASE SetupLook(c)
  <2>1. /\ call'[c].pc \in {"alloc", "test"} /\ ~call'[c].own
        /\ \A d \in Callers : d # c => call'[d] = call[d]
    BY <1>0, <1>9 DEF SetupLook, CallType, CallOK
  <2> QED
    BY <1>7, <1>9, <2>1 DEF SetupLook, Out
<1>10. CASE SetupToken(c)
  <2>1. PICK i \in Entries : i = call[c].entry
    BY <1>0, <1>10 DEF SetupToken, CallOK
  <2>2. ori' = [ori EXCEPT ![i].Token = 1]
    BY <1>10, <2>1 DEF SetupToken
  <2>3. \A j \in Entries : /\ ori'[j].status = ori[j].status
                           /\ ori'[j].Wcid = ori[j].Wcid
    BY <2>2, Hands, TokenWritten, Constant
  <2> QED
    BY <1>7, <1>8, <1>10, <2>3 DEF SetupToken, Out, CallPcs
<1>11. CASE SetupArm(c)
  <2>1. \E p \in {"cancel", "init"} : CallAt(c, p)
    BY <1>11 DEF SetupArm
  <2> QED
    BY <1>7, <1>8, <1>11, <2>1 DEF SetupArm, Out, CallPcs
<1>12. CASE SetupTimer(c)
  BY <1>7, <1>8, <1>12 DEF SetupTimer, Out, CallPcs
<1> QED
  BY <1>1, <1>2, <1>3, <1>4, <1>5, <1>6, <1>9, <1>10, <1>11, <1>12 DEF Setup

LEMMA StepBook ==
  TypeInv /\ (~hist.stale => Book) /\ [Next]_vars => (~hist'.stale => Book')
<1> SUFFICES ASSUME TypeInv, ~hist.stale => Book, [Next]_vars, ~hist'.stale
             PROVE  Book'
  OBVIOUS
<1>0. Book
  BY StaleStays
<1>1. CASE Free
  BY <1>0, <1>1, BookUnmap, BookLook, BookCounted, BookBit, BookNone, BookToken
  DEF Free
<1>2. CASE Timeout
  BY <1>0, <1>2, TimeoutBook
<1>3. CASE Handler
  BY <1>0, <1>3, HandlerBook
<1>4. CASE \E c \in Callers : Setup(c)
  BY <1>0, <1>4, SetupBook
<1>5. CASE (\E i \in Entries : TimerFires(i)) \/ UNCHANGED vars
  BY <1>0, <1>5, Steady DEF TimerFires, vars
<1>6. ASSUME NEW c \in Callers, NEW w \in Stations, Enter(c, w),
             call[c].pc = "idle", UNCHANGED <<ori, num, tab, mlme>>,
             \A v \in Stations : /\ mac'[v].arr = mac[v].arr
                                 /\ mac'[v].TXBA => mac[v].TXBA
      PROVE  Book'
  <2>1. /\ call'[c].pc = "look"
        /\ \A d \in Callers : d # c => call'[d] = call[d]
    BY <1>6, Hands, CallEnters
  <2>2. Out(call[c]) /\ Out(call'[c])
    BY <1>6, <2>1 DEF Out
  <2> QED
    BY <1>0, <1>6, <2>1, <2>2, Steady
<1>7. CASE \E c \in Callers, w \in Stations : ExtEventBaTriggerHandler(c, w)
  BY <1>6, <1>7 DEF ExtEventBaTriggerHandler
<1>8. ASSUME NEW w \in Stations, ap_assoc(w)
      PROVE  Book'
  <2>1. \A v \in Stations : /\ mac'[v].arr = mac[v].arr
                            /\ mac'[v].TXBA => mac[v].TXBA
    BY <1>8, Hands, BitWritten DEF ap_assoc
  <2> QED
    BY <1>6, <1>8, <2>1 DEF ap_assoc, MlmeFree
<1>9. ASSUME NEW w \in Stations, NEW p \in {"add", "tear"},
             NEW why \in {"peer", "auth", "delete", "insert"},
             Begin(w, p, why), UNCHANGED <<mac, ori, num, tab, call>>
      PROVE  Book'
  <2>1. mlme.pc = "idle" /\ mlme'.pc = p
    BY <1>9 DEF Begin, MlmeFree, NoMessage
  <2> QED
    BY <1>0, <1>9, <2>1, Steady
<1>10. ASSUME NEW w \in Stations, Message(w)
       PROVE  Book'
  BY <1>8, <1>9, <1>10 DEF Message, peer_addba_rsp_action, peer_delba_action,
     ap_peer_auth, MacTableDeleteEntry, MacTableInsertEntry
<1> QED
  BY <1>1, <1>2, <1>3, <1>4, <1>5, <1>7, <1>10 DEF Next

LEMMA InitBook == Init => Book
<1> SUFFICES ASSUME Init PROVE Book
  OBVIOUS
<1>1. /\ \A c \in Callers : call[c].pc = "idle" /\ ~call[c].own
      /\ \A i \in Entries : ori[i].status = "NONE"
      /\ \A w \in Stations : mac[w].arr = 0 /\ mac[w].TXBA = FALSE
      /\ tab.pc = "idle" /\ mlme.pc = "idle" /\ num.as = 0 /\ num.done = 0
  BY DEF Init, NoCall, Unlocked, NoMessage
<1>2. (\A c \in Callers : OpenOK(c)) /\ SoleOK /\ UsedOK
  BY <1>1 DEF OpenOK, Filling, SoleOK, UsedOK, Opening
<1>3. TabBook /\ EstOK /\ FoundOK /\ MapOK /\ BitsOK
  BY <1>1 DEF TabBook, EstOK, FoundOK, MapOK, BitsOK, Open
<1>4. Taken = {} /\ Counted = {}
  BY <1>1 DEF Taken, FreeEntries, Counted, WithStatus
<1> QED
  BY <1>1, <1>2, <1>3, <1>4, FS_EmptySet DEF Book, CountsOK

LEMMA BookAlways == Spec => [](TypeInv /\ (~hist.stale => Book))
<1>1. Init => TypeInv /\ (~hist.stale => Book)
  BY InitTypes, InitBook
<1>2. TypeInv /\ (~hist.stale => Book) /\ [Next]_vars
        => (TypeInv /\ (~hist.stale => Book))'
  BY StepTypes, StepBook
<1> QED
  BY <1>1, <1>2, PTL DEF Spec

\* As long as nobody acted on a stale look, numAsOriginator is the number of
\* entries taken and numDoneOriginator that of the sessions established: no
\* step of a set-up, a refusal, a timeout or a tear-down counts twice or
\* forgets to count.
THEOREM OriCountersExact == Spec => []CountersExact
<1>1. (~hist.stale => Book) => CountersExact
  BY DEF Book, CountsOK, Counted, CountersExact
<1> QED
  BY <1>1, BookAlways, PTL

\* As long as nobody acted on a stale look, an open session is found through
\* its station's mapping and through no other, also while another station's
\* session is set up, timed out or torn down.
THEOREM OriSessionReachable == Spec => []SessionReachable
<1>1. Book => SessionReachable
  <2>1. ASSUME Book, NEW i \in WithStatus(Open)
        PROVE  \/ tab.Idx = i
               \/ \E c \in Callers : Filling(c) /\ call[c].entry = i
               \/ mac[ori[i].Wcid].arr = i
    BY <2>1 DEF Book, FoundOK, WithStatus, Filling
  <2>2. ASSUME Book, NEW w \in Stations, mac[w].arr # 0
        PROVE  \/ ori[mac[w].arr].status \in Open /\ ori[mac[w].arr].Wcid = w
               \/ \E c \in Callers : Filling(c) /\ call[c].sta = w
    BY <2>2 DEF Book, MapOK
  <2> QED
    BY <2>1, <2>2 DEF SessionReachable
<1>2. (~hist.stale => Book) => SessionReachable
  BY <1>1 DEF SessionReachable
<1> QED
  BY <1>2, BookAlways, PTL

\* As long as nobody acted on a stale look, frames are marked for aggregation
\* only towards a station with an established session, or one that is just
\* being freed.
THEOREM OriBitmapBacked == Spec => []BitmapBacked
<1>1. (~hist.stale => Book) => BitmapBacked
  BY DEF Book, BitsOK, BitmapBacked
<1> QED
  BY <1>1, BookAlways, PTL
=============================================================================
