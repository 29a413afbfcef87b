-------------------------- MODULE MlmeQueue_proofs --------------------------
(***************************************************************************)
(* The ring of the MLME queue is consistent for every capacity, every set  *)
(* of messages, threads and interfaces: the counters, the Occupied bits    *)
(* and the elements held outside the lock always agree.  And it implements *)
(* the bounded first-in first-out mailbox of MlmeMailbox.                  *)
(***************************************************************************)
EXTENDS MlmeQueue, SequenceTheorems, TLAPS

\* The driver's life: a destroyed queue belongs to a closed driver, whose
\* MLME thread is gone.
LifeInv ==
  /\ Alive <=> ctl.pc # "closed"
  /\ ctl.pc = "closed" => thr.pc = "dead"

\* The inductive invariant of the ring.
RingInv == TypeOK /\ LifeInv /\ RingConsistent

USE CapAssumption, MsgAssumption, BoundAssumption

\* Popping the head of a non-empty ring keeps the counters consistent and
\* takes exactly the head's slot out of the ring.
LEMMA PopFacts ==
  ASSUME TypeOK, Alive, CountersAgree, ~QueueEmpty, queue' = Popped
  PROVE  /\ queue' \in QueueType
         /\ queue.Head \in Slots
         /\ Alive' /\ CountersAgree'
         /\ InRing(queue.Head)
         /\ \A i \in Slots : InRing(i)' <=> InRing(i) /\ i # queue.Head
<1> DEFINE q == queue
           r == queue'
<1>1. /\ q \in [Num : Nat, Head : Slots, Tail : Nat, MaxLen : {0, Cap}]
      /\ q.MaxLen = Cap
      /\ q.Tail \in 0 .. Cap - 1 /\ q.Head \in 0 .. Cap - 1
      /\ q.Head # q.Tail
      /\ q.Num \in Nat \ {0}
  BY DEF TypeOK, QueueType, Alive, CountersAgree, QueueEmpty, Slots
<1>2. /\ r.Num = q.Num - 1 /\ r.Tail = q.Tail /\ r.MaxLen = Cap
      /\ r.Head = IF q.Head + 1 = Cap THEN 0 ELSE q.Head + 1
      /\ r = [Num |-> r.Num, Head |-> r.Head, Tail |-> r.Tail,
              MaxLen |-> r.MaxLen]
  BY <1>1 DEF Popped, Ring, Wrap, QueueType
<1>3. r.Head \in 0 .. Cap - 1 /\ r.Num \in Nat
  BY <1>1, <1>2
<1>4. r \in [Num : Nat, Head : Slots, Tail : Nat, MaxLen : {0, Cap}]
  BY <1>1, <1>2, <1>3 DEF Slots
<1>5. \/ q.Head < q.Tail /\ q.Num = q.Tail - q.Head
      \/ q.Tail < q.Head /\ q.Num = Cap - q.Head + q.Tail
  BY <1>1 DEF CountersAgree, Alive
<1>6. Alive' /\ CountersAgree'
  BY <1>1, <1>2, <1>3, <1>5 DEF CountersAgree, Alive, Slots
<1>7. InRing(queue.Head)
  BY <1>1, <1>5 DEF InRing
<1>8. \A i \in Slots : InRing(i)' <=> InRing(i) /\ i # queue.Head
  BY <1>1, <1>2, <1>3, <1>5 DEF InRing, Slots
<1> QED
  BY <1>1, <1>4, <1>6, <1>7, <1>8 DEF Slots, QueueType

\* Pushing at a free tail keeps the counters consistent and puts exactly
\* the tail's slot into the ring.
LEMMA PushFacts ==
  ASSUME TypeOK, Alive, CountersAgree, queue.Tail \in Slots,
         ~InRing(queue.Tail), queue' = Pushed
  PROVE  /\ queue' \in QueueType
         /\ Alive' /\ CountersAgree'
         /\ \A i \in Slots : InRing(i)' <=> InRing(i) \/ i = queue.Tail
<1> DEFINE q == queue
           r == queue'
<1>1. /\ q \in [Num : Nat, Head : Slots, Tail : Nat, MaxLen : {0, Cap}]
      /\ q.MaxLen = Cap
      /\ q.Tail \in 0 .. Cap - 1 /\ q.Head \in 0 .. Cap - 1
      /\ q.Num \in Nat
  BY DEF TypeOK, QueueType, Alive, Slots
<1>2. /\ r.Num = q.Num + 1 /\ r.Head = q.Head /\ r.MaxLen = Cap
      /\ r.Tail = IF q.Tail + 1 = Cap THEN 0 ELSE q.Tail + 1
      /\ r = [Num |-> r.Num, Head |-> r.Head, Tail |-> r.Tail,
              MaxLen |-> r.MaxLen]
  BY <1>1 DEF Pushed, Ring, Wrap, QueueType
<1>3. r.Tail \in 0 .. Cap - 1 /\ r.Num \in Nat
  BY <1>1, <1>2
<1>4. r \in [Num : Nat, Head : Slots, Tail : Nat, MaxLen : {0, Cap}]
  BY <1>1, <1>2, <1>3 DEF Slots
<1>5. \/ q.Head < q.Tail /\ q.Num = q.Tail - q.Head
      \/ q.Tail < q.Head /\ q.Num = Cap - q.Head + q.Tail
      \/ q.Head = q.Tail /\ q.Num = 0
  BY <1>1 DEF CountersAgree, Alive, InRing
<1>6. Alive' /\ CountersAgree'
  BY <1>1, <1>2, <1>3, <1>5 DEF CountersAgree, Alive, Slots
<1>7. \A i \in Slots : InRing(i)' <=> InRing(i) \/ i = queue.Tail
  BY <1>1, <1>2, <1>3, <1>5 DEF InRing, Slots
<1> QED
  BY <1>4, <1>6, <1>7 DEF QueueType

\* The same two operations keep the type of the counters even when the
\* counters disagree or the queue is destroyed.
LEMMA PoppedType ==
  ASSUME queue \in QueueType, Alive, ~QueueEmpty
  PROVE  Popped \in QueueType
<1>1. queue.Num - 1 \in Nat
  BY DEF QueueType, QueueEmpty
<1>2. Wrap(queue.Head) \in Slots
  BY DEF QueueType, Slots, Wrap, Alive
<1> QED
  BY <1>1, <1>2 DEF QueueType, Popped, Ring

LEMMA PushedType ==
  ASSUME queue \in QueueType
  PROVE  Pushed \in QueueType
<1>1. Wrap(queue.Tail) \in Nat
  BY DEF QueueType, Wrap
<1> QED
  BY <1>1 DEF QueueType, Pushed, Ring

LEMMA FreeElemType ==
  ASSUME Entry \in [Slots -> ElemType], NEW i \in Slots
  PROVE  FreeElem(i) \in [Slots -> ElemType]
  BY DEF FreeElem, ElemType

\* Every step keeps the types, and ties the queue's life to the driver's.
LEMMA TypeStep ==
  ASSUME TypeOK, LifeInv, [Next]_vars
  PROVE  TypeOK' /\ LifeInv'
<1>0. /\ queue \in QueueType
      /\ Entry \in [Slots -> ElemType]
      /\ snd \in [Senders -> SndType]
      /\ \A s \in Senders : snd[s].pc = "commit" => snd[s].msg \in Msgs
      /\ thr \in [pc : ThrPcs, slot : Slots]
      /\ ctl \in CtlType
      /\ fate \in [Msgs -> Fates]
      /\ count \in [closes : 0 .. MaxCloses, reopens : 0 .. MaxReopens]
      /\ Alive <=> ctl.pc # "closed"
      /\ ctl.pc = "closed" => thr.pc = "dead"
  BY DEF TypeOK, LifeInv
<1>1. ASSUME NEW s \in Senders, NEW m \in Msgs, SendCheck(s, m)
      PROVE  TypeOK' /\ LifeInv'
  <2>1. snd' \in [Senders -> SndType]
    BY <1>0, <1>1 DEF SendCheck, SndType
  <2>2. \A t \in Senders : snd'[t].pc = "commit" => snd'[t].msg \in Msgs
    BY <1>0, <1>1 DEF SendCheck, SndType
  <2>3. fate' \in [Msgs -> Fates]
    BY <1>0, <1>1 DEF SendCheck, Fates
  <2>4. wake' \in BOOLEAN
    BY <1>0, <1>1 DEF SendCheck, Kick, TypeOK
  <2>5. LifeInv'
    BY <1>0, <1>1 DEF SendCheck, LifeInv, Alive
  <2> QED
    BY <1>1, <2>1, <2>2, <2>3, <2>4, <2>5 DEF SendCheck, TypeOK
<1>2. ASSUME NEW s \in Senders, SendCommit(s)
      PROVE  TypeOK' /\ LifeInv'
  <2>1. queue' \in QueueType
    BY <1>0, <1>2, PushedType DEF SendCommit
  <2>2. Entry' \in [Slots -> ElemType]
    <3>1. ~TailBusy => Written(snd[s].msg) \in ElemType
      BY <1>0, <1>2 DEF SendCommit, TailBusy, Written, ElemType, SndType
    <3> QED
      BY <1>0, <1>2, <3>1 DEF SendCommit
  <2>3. fate' \in [Msgs -> Fates]
    BY <1>0, <1>2 DEF SendCommit, Fates
  <2>4. snd' \in [Senders -> SndType]
    BY <1>0, <1>2 DEF SendCommit, SndType
  <2>5. \A t \in Senders : snd'[t].pc = "commit" => snd'[t].msg \in Msgs
    BY <1>0, <1>2 DEF SendCommit, SndType
  <2>6. LifeInv'
    BY <1>0, <1>2 DEF SendCommit, LifeInv, Alive, Pushed, Ring
  <2> QED
    BY <1>2, <2>1, <2>2, <2>3, <2>4, <2>5, <2>6 DEF SendCommit, TypeOK
<1>3. ASSUME NEW s \in Senders, SendKick(s)
      PROVE  TypeOK' /\ LifeInv'
  <2>1. snd' \in [Senders -> SndType]
    BY <1>0, <1>3 DEF SendKick, SndType
  <2>2. \A t \in Senders : snd'[t].pc = "commit" => snd'[t].msg \in Msgs
    BY <1>0, <1>3 DEF SendKick, SndType
  <2>3. wake' \in BOOLEAN
    BY <1>0, <1>3 DEF SendKick, Kick, TypeOK
  <2>4. LifeInv'
    BY <1>0, <1>3 DEF SendKick, LifeInv, Alive
  <2> QED
    BY <1>3, <2>1, <2>2, <2>3, <2>4 DEF SendKick, TypeOK
<1>4. CASE PeriodicKick
  <2>1. wake' \in BOOLEAN
    BY <1>0, <1>4 DEF PeriodicKick, Kick, TypeOK
  <2>2. LifeInv'
    BY <1>0, <1>4 DEF PeriodicKick, LifeInv, Alive
  <2> QED
    BY <1>4, <2>1, <2>2 DEF PeriodicKick, TypeOK
<1>5. CASE ThreadWake
  <2>1. thr' \in [pc : ThrPcs, slot : Slots]
    BY <1>0, <1>5 DEF ThreadWake, GoTo, ThrPcs
  <2>2. LifeInv'
    BY <1>0, <1>5 DEF ThreadWake, GoTo, ThreadVars, LifeInv, Alive
  <2> QED
    BY <1>5, <2>1, <2>2 DEF ThreadWake, TypeOK, ThreadVars
<1>6. CASE ThreadClearWake
  <2>1. thr' \in [pc : ThrPcs, slot : Slots]
    BY <1>0, <1>6 DEF ThreadClearWake, GoTo, ThrPcs
  <2>2. flags' \in [halt : BOOLEAN, startUp : BOOLEAN, stop : BOOLEAN]
    BY <1>0, <1>6 DEF ThreadClearWake, TypeOK
  <2>3. LifeInv'
    BY <1>0, <1>6 DEF ThreadClearWake, GoTo, LifeInv, Alive
  <2> QED
    BY <1>6, <2>1, <2>2, <2>3 DEF ThreadClearWake, TypeOK
<1>7. CASE ThreadGate
  <2>1. thr' \in [pc : ThrPcs, slot : Slots]
    BY <1>0, <1>7 DEF ThreadGate, GoTo, ThrPcs
  <2>2. LifeInv'
    BY <1>0, <1>7 DEF ThreadGate, GoTo, ThreadVars, LifeInv, Alive
  <2> QED
    BY <1>7, <2>1, <2>2 DEF ThreadGate, TypeOK, ThreadVars
<1>8. CASE HandlerEnter
  <2>1. thr' \in [pc : ThrPcs, slot : Slots]
    BY <1>0, <1>8 DEF HandlerEnter, GoTo, ThrPcs
  <2>2. LifeInv'
    BY <1>0, <1>8 DEF HandlerEnter, GoTo, LifeInv, Alive
  <2> QED
    BY <1>8, <2>1, <2>2 DEF HandlerEnter, TypeOK
<1>9. CASE HandlerLoop
  <2>1. thr' \in [pc : ThrPcs, slot : Slots]
    BY <1>0, <1>9 DEF HandlerLoop, GoTo, ThrPcs
  <2>2. LifeInv'
    BY <1>0, <1>9 DEF HandlerLoop, GoTo, ThreadVars, LifeInv, Alive
  <2> QED
    BY <1>9, <2>1, <2>2 DEF HandlerLoop, TypeOK, ThreadVars
<1>10. CASE MlmeDequeue
  <2>1. queue' \in QueueType
    BY <1>0, <1>10, PoppedType DEF MlmeDequeue, ThrPcs
  <2>2. thr' \in [pc : ThrPcs, slot : Slots]
    BY <1>0, <1>10 DEF MlmeDequeue, GoTo, ThrPcs, QueueType
  <2>3. LifeInv'
    BY <1>0, <1>10 DEF MlmeDequeue, GoTo, LifeInv, Alive, Popped, Ring
  <2> QED
    BY <1>10, <2>1, <2>2, <2>3 DEF MlmeDequeue, TypeOK
<1>11. CASE HandlerProcess
  <2>1. Entry' \in [Slots -> ElemType]
    BY <1>0, <1>11, FreeElemType DEF HandlerProcess
  <2>2. fate' \in [Msgs -> Fates]
    BY <1>0, <1>11 DEF HandlerProcess, Fates
  <2>3. thr' \in [pc : ThrPcs, slot : Slots]
    BY <1>0, <1>11 DEF HandlerProcess, GoTo, ThrPcs
  <2>4. LifeInv'
    BY <1>0, <1>11 DEF HandlerProcess, GoTo, LifeInv, Alive
  <2> QED
    BY <1>11, <2>1, <2>2, <2>3, <2>4 DEF HandlerProcess, TypeOK
<1>12. CASE HandlerExit
  <2>1. thr' \in [pc : ThrPcs, slot : Slots]
    BY <1>0, <1>12 DEF HandlerExit, GoTo, ThrPcs
  <2>2. LifeInv'
    BY <1>0, <1>12 DEF HandlerExit, GoTo, LifeInv, Alive
  <2> QED
    BY <1>12, <2>1, <2>2 DEF HandlerExit, TypeOK
<1>13. ASSUME NEW w \in Wdevs, CloseStart(w)
      PROVE  TypeOK' /\ LifeInv'
  <2>1. count' \in [closes : 0 .. MaxCloses, reopens : 0 .. MaxReopens]
    BY <1>0, <1>13 DEF CloseStart
  <2>2. ifUp' \in [Wdevs -> BOOLEAN]
    BY <1>0, <1>13 DEF CloseStart, TypeOK
  <2>3. ctl' \in CtlType
    BY <1>0, <1>13 DEF CloseStart, Ctl, CtlType, CtlPcs
  <2>4. LifeInv'
    BY <1>0, <1>13 DEF CloseStart, Ctl, LifeInv, Alive
  <2> QED
    BY <1>13, <2>1, <2>2, <2>3, <2>4 DEF CloseStart, TypeOK
<1>14. ASSUME NEW w \in Wdevs, OpenAgain(w)
      PROVE  TypeOK' /\ LifeInv'
  <2>1. ifUp' \in [Wdevs -> BOOLEAN]
    BY <1>0, <1>14 DEF OpenAgain, TypeOK
  <2>2. LifeInv'
    BY <1>0, <1>14 DEF OpenAgain, LifeInv, Alive
  <2> QED
    BY <1>14, <2>1, <2>2 DEF OpenAgain, TypeOK
<1>15. CASE ClearSuspend
  <2>1. ctl' \in CtlType
    BY <1>0, <1>15 DEF ClearSuspend, CtlTo, CtlType, CtlPcs
  <2>2. LifeInv'
    BY <1>0, <1>15 DEF ClearSuspend, CtlTo, CtlType, LifeInv, Alive
  <2> QED
    BY <1>15, <2>1, <2>2 DEF ClearSuspend, TypeOK
<1>16. CASE ClearPoll
  <2>1. ctl' \in CtlType
    BY <1>0, <1>16 DEF ClearPoll, CtlTo, CtlType, CtlPcs
  <2>2. LifeInv'
    BY <1>0, <1>16 DEF ClearPoll, CtlTo, CtlType, LifeInv, Alive
  <2> QED
    BY <1>16, <2>1, <2>2 DEF ClearPoll, TypeOK
<1>17. CASE ClearLock
  <2>1. ctl' \in CtlType
    BY <1>0, <1>17 DEF ClearLock, CtlTo, CtlType, CtlPcs
  <2>2. LifeInv'
    BY <1>0, <1>17 DEF ClearLock, CtlTo, CtlType, LifeInv, Alive
  <2> QED
    BY <1>17, <2>1, <2>2 DEF ClearLock, TypeOK
<1>18. CASE ClearLift
  <2>1. queue' \in QueueType
    BY <1>0, <1>18, PoppedType DEF ClearLift
  <2>2. ctl' \in CtlType
    BY <1>0, <1>18 DEF ClearLift, CtlTo, Ctl, CtlType, CtlPcs, QueueType
  <2>3. LifeInv'
    BY <1>0, <1>18 DEF ClearLift, CtlTo, CtlType, Ctl, Popped, Ring, LifeInv, Alive
  <2> QED
    BY <1>18, <2>1, <2>2, <2>3 DEF ClearLift, TypeOK
<1>19. CASE ClearSort
  <2>1. queue' \in QueueType
    BY <1>0, <1>19, PushedType DEF ClearSort
  <2>2. Entry' \in [Slots -> ElemType]
    BY <1>0, <1>19 DEF ClearSort, TailBusy, CtlType
  <2>3. fate' \in [Msgs -> Fates]
    BY <1>0, <1>19 DEF ClearSort, Fates
  <2>4. ctl' \in CtlType
    BY <1>0, <1>19 DEF ClearSort, CtlTo, CtlType, CtlPcs
  <2>5. LifeInv'
    BY <1>0, <1>19 DEF ClearSort, CtlTo, CtlType, Pushed, Ring, LifeInv, Alive
  <2> QED
    BY <1>19, <2>1, <2>2, <2>3, <2>4, <2>5 DEF ClearSort, TypeOK
<1>20. CASE ClearFree
  <2>1. Entry' \in [Slots -> ElemType]
    BY <1>0, <1>20, FreeElemType DEF ClearFree, CtlType
  <2>2. ctl' \in CtlType
    BY <1>0, <1>20 DEF ClearFree, CtlTo, CtlType, CtlPcs
  <2>3. LifeInv'
    BY <1>0, <1>20 DEF ClearFree, CtlTo, CtlType, LifeInv, Alive
  <2> QED
    BY <1>20, <2>1, <2>2, <2>3 DEF ClearFree, TypeOK
<1>21. CASE ClearUnlock
  <2>1. ctl' \in CtlType
    BY <1>0, <1>21 DEF ClearUnlock, CtlTo, CtlType, CtlPcs
  <2>2. LifeInv'
    BY <1>0, <1>21 DEF ClearUnlock, CtlTo, CtlType, LifeInv, Alive
  <2> QED
    BY <1>21, <2>1, <2>2 DEF ClearUnlock, TypeOK
<1>22. CASE ClearResume
  <2>1. ctl' \in CtlType
    BY <1>0, <1>22 DEF ClearResume, CtlTo, CtlType, CtlPcs
  <2>2. LifeInv'
    BY <1>0, <1>22 DEF ClearResume, CtlTo, CtlType, LifeInv, Alive
  <2> QED
    BY <1>22, <2>1, <2>2 DEF ClearResume, TypeOK
<1>23. CASE StartUp
  <2>1. flags' \in [halt : BOOLEAN, startUp : BOOLEAN, stop : BOOLEAN]
    BY <1>0, <1>23 DEF StartUp, TypeOK
  <2>2. LifeInv'
    BY <1>0, <1>23 DEF StartUp, LifeInv, Alive
  <2> QED
    BY <1>23, <2>1, <2>2 DEF StartUp, TypeOK
<1>24. CASE DriverClose
  <2>1. count' \in [closes : 0 .. MaxCloses, reopens : 0 .. MaxReopens]
    BY <1>0, <1>24 DEF DriverClose
  <2>2. flags' \in [halt : BOOLEAN, startUp : BOOLEAN, stop : BOOLEAN]
    BY <1>0, <1>24 DEF DriverClose, TypeOK
  <2>3. ctl' \in CtlType
    BY <1>0, <1>24 DEF DriverClose, CtlTo, CtlType, CtlPcs
  <2>4. LifeInv'
    BY <1>0, <1>24 DEF DriverClose, CtlTo, CtlType, LifeInv, Alive
  <2> QED
    BY <1>24, <2>1, <2>2, <2>3, <2>4 DEF DriverClose, TypeOK
<1>25. CASE TaskKill
  <2>1. flags' \in [halt : BOOLEAN, startUp : BOOLEAN, stop : BOOLEAN]
    BY <1>0, <1>25 DEF TaskKill, TypeOK
  <2>2. ctl' \in CtlType
    BY <1>0, <1>25 DEF TaskKill, CtlTo, CtlType, CtlPcs
  <2>3. LifeInv'
    BY <1>0, <1>25 DEF TaskKill, CtlTo, CtlType, LifeInv, Alive
  <2> QED
    BY <1>25, <2>1, <2>2, <2>3 DEF TaskKill, TypeOK
<1>26. CASE QueueDestroy
  <2>1. queue' \in QueueType
    BY <1>0, <1>26 DEF QueueDestroy, QueueType, Slots
  <2>2. fate' \in [Msgs -> Fates]
    BY <1>0, <1>26 DEF QueueDestroy, Fates
  <2>3. ctl' \in CtlType
    BY <1>0, <1>26 DEF QueueDestroy, CtlTo, CtlType, CtlPcs
  <2>4. LifeInv'
    BY <1>0, <1>26 DEF QueueDestroy, ThreadGone, CtlTo, CtlType, LifeInv, Alive
  <2> QED
    BY <1>26, <2>1, <2>2, <2>3, <2>4 DEF QueueDestroy, TypeOK
<1>27. CASE DriverOpen
  <2>1. queue' \in QueueType
    BY <1>0, <1>27 DEF DriverOpen, EmptyQueue, QueueType, Slots
  <2>2. Entry' \in [Slots -> ElemType]
    BY <1>0, <1>27 DEF DriverOpen, ElemType
  <2>3. flags' \in [halt : BOOLEAN, startUp : BOOLEAN, stop : BOOLEAN]
    BY <1>0, <1>27 DEF DriverOpen
  <2>4. thr' \in [pc : ThrPcs, slot : Slots]
    BY <1>0, <1>27 DEF DriverOpen, GoTo, ThrPcs
  <2>5. ctl' \in CtlType
    BY <1>0, <1>27 DEF DriverOpen, CtlTo, CtlType, CtlPcs
  <2>6. LifeInv'
    BY <1>0, <1>27 DEF DriverOpen, EmptyQueue, CtlTo, GoTo, CtlType, LifeInv, Alive
  <2> QED
    BY <1>27, <2>1, <2>2, <2>3, <2>4, <2>5, <2>6 DEF DriverOpen, TypeOK
<1>28. CASE UNCHANGED vars
  BY <1>28 DEF vars, TypeOK, LifeInv, Alive
<1>29. CASE ClearCount
  <2>1. ctl' \in CtlType
    BY <1>0, <1>29 DEF ClearCount, Ctl, CtlType, CtlPcs, QueueType
  <2>2. LifeInv'
    BY <1>0, <1>29 DEF ClearCount, Ctl, LifeInv, Alive
  <2> QED
    BY <1>29, <2>1, <2>2 DEF ClearCount, TypeOK
<1> QED
  BY <1>1, <1>2, <1>3, <1>4, <1>5, <1>6, <1>7, <1>8, <1>9, <1>10, <1>11,
     <1>12, <1>13, <1>14, <1>15, <1>16, <1>17, <1>18, <1>19, <1>20, <1>21,
     <1>22, <1>23, <1>24, <1>25, <1>26, <1>27, <1>28, <1>29 DEF Next

\* A step that leaves the counters, the Occupied bits and the elements in
\* hand alone keeps the ring consistent.
LEMMA SameRing ==
  ASSUME RingConsistent, UNCHANGED queue,
         \A i \in Slots : Entry'[i].Occupied = Entry[i].Occupied,
         \A i \in Slots : HandlerHolds(i)' = HandlerHolds(i),
         \A i \in Slots : SweepHolds(i)' = SweepHolds(i)
  PROVE  RingConsistent'
<1>1. CountersAgree'
  BY DEF RingConsistent, CountersAgree, Alive
<1>2. \A i \in Slots : InRing(i)' = InRing(i)
  BY DEF InRing
<1>3. OccupiedExact'
  BY <1>2 DEF RingConsistent, OccupiedExact, Alive
<1>4. HandsApart'
  BY <1>2 DEF RingConsistent, HandsApart, Alive
<1> QED
  BY <1>1, <1>3, <1>4 DEF RingConsistent

\* A push at a slot the double check found free.
LEMMA PushStep ==
  ASSUME TypeOK, RingConsistent, ~TailBusy, queue' = Pushed,
         \A i \in Slots :
           /\ Entry'[i].Occupied <=> Entry[i].Occupied \/ i = queue.Tail
           /\ HandlerHolds(i)' <=> HandlerHolds(i)
           /\ SweepHolds(i)' <=> SweepHolds(i)
  PROVE  RingConsistent'
<1>1. CASE ~Alive
  <2>1. ~Alive'
    BY <1>1 DEF Alive, Pushed, Ring
  <2> QED
    BY <2>1 DEF RingConsistent, CountersAgree, OccupiedExact, HandsApart
<1>2. CASE Alive
  <2>1. /\ queue.Tail \in Slots /\ ~InRing(queue.Tail)
        /\ ~HandlerHolds(queue.Tail) /\ ~SweepHolds(queue.Tail)
    BY <1>2 DEF TailBusy, RingConsistent, OccupiedExact
  <2>2. /\ Alive' /\ CountersAgree'
        /\ \A i \in Slots : InRing(i)' <=> InRing(i) \/ i = queue.Tail
    BY <1>2, <2>1, PushFacts DEF RingConsistent
  <2>3. OccupiedExact'
    BY <1>2, <2>1, <2>2 DEF RingConsistent, OccupiedExact
  <2>4. HandsApart'
    BY <1>2, <2>1, <2>2 DEF RingConsistent, HandsApart
  <2> QED
    BY <2>2, <2>3, <2>4 DEF RingConsistent
<1> QED
  BY <1>1, <1>2

\* Every step keeps the ring consistent.  Steps that touch neither the ring
\* nor an element in hand are left to SameRing.
LEMMA RingStep ==
  ASSUME RingInv, [Next]_vars
  PROVE  RingConsistent'
<1>0. /\ TypeOK /\ LifeInv /\ RingConsistent
      /\ queue \in QueueType
      /\ Entry \in [Slots -> ElemType]
      /\ thr \in [pc : ThrPcs, slot : Slots]
      /\ ctl \in CtlType
      /\ Alive <=> ctl.pc # "closed"
      /\ ctl.pc = "closed" => thr.pc = "dead"
  BY DEF RingInv, TypeOK, LifeInv
<1> USE <1>0
<1>1. ASSUME NEW s \in Senders, NEW m \in Msgs, SendCheck(s, m)
      PROVE  RingConsistent'
  <2>1. /\ UNCHANGED queue
        /\ \A i \in Slots : Entry'[i].Occupied = Entry[i].Occupied
        /\ \A i \in Slots : HandlerHolds(i)' = HandlerHolds(i)
        /\ \A i \in Slots : SweepHolds(i)' = SweepHolds(i)
    BY <1>1 DEF SendCheck, HandlerHolds, SweepHolds
  <2> QED
    BY <2>1, SameRing
<1>2. ASSUME NEW s \in Senders, SendCommit(s)
      PROVE  RingConsistent'
  <2>1. CASE TailBusy
    <3>1. /\ UNCHANGED queue
          /\ \A i \in Slots : Entry'[i].Occupied = Entry[i].Occupied
          /\ \A i \in Slots : HandlerHolds(i)' = HandlerHolds(i)
          /\ \A i \in Slots : SweepHolds(i)' = SweepHolds(i)
      BY <1>2, <2>1 DEF SendCommit, HandlerHolds, SweepHolds
    <3> QED
      BY <3>1, SameRing
  <2>2. CASE ~TailBusy
    <3>1. /\ queue' = Pushed
          /\ Entry' = [Entry EXCEPT ![queue.Tail] = Written(snd[s].msg)]
          /\ queue.Tail \in Slots /\ UNCHANGED <<thr, ctl>>
      BY <1>2, <2>2 DEF SendCommit, TailBusy
    <3>2. \A i \in Slots :
            /\ Entry'[i].Occupied <=> Entry[i].Occupied \/ i = queue.Tail
            /\ HandlerHolds(i)' <=> HandlerHolds(i)
            /\ SweepHolds(i)' <=> SweepHolds(i)
      BY <3>1, <2>2 DEF Written, TailBusy, ElemType, HandlerHolds, SweepHolds
    <3> QED
      BY <2>2, <3>1, <3>2, PushStep
  <2> QED
    BY <2>1, <2>2
<1>3. ASSUME NEW s \in Senders, SendKick(s)
      PROVE  RingConsistent'
  <2>1. /\ UNCHANGED queue
        /\ \A i \in Slots : Entry'[i].Occupied = Entry[i].Occupied
        /\ \A i \in Slots : HandlerHolds(i)' = HandlerHolds(i)
        /\ \A i \in Slots : SweepHolds(i)' = SweepHolds(i)
    BY <1>3 DEF SendKick, HandlerHolds, SweepHolds
  <2> QED
    BY <2>1, SameRing
<1>4. CASE PeriodicKick
  <2>1. /\ UNCHANGED queue
        /\ \A i \in Slots : Entry'[i].Occupied = Entry[i].Occupied
        /\ \A i \in Slots : HandlerHolds(i)' = HandlerHolds(i)
        /\ \A i \in Slots : SweepHolds(i)' = SweepHolds(i)
    BY <1>4 DEF PeriodicKick, HandlerHolds, SweepHolds
  <2> QED
    BY <2>1, SameRing
<1>5. CASE ThreadWake
  <2>1. /\ UNCHANGED queue
        /\ \A i \in Slots : Entry'[i].Occupied = Entry[i].Occupied
        /\ \A i \in Slots : HandlerHolds(i)' = HandlerHolds(i)
        /\ \A i \in Slots : SweepHolds(i)' = SweepHolds(i)
    BY <1>5 DEF ThreadWake, GoTo, ThreadVars, HandlerHolds, SweepHolds
  <2> QED
    BY <2>1, SameRing
<1>6. CASE ThreadClearWake
  <2>1. /\ UNCHANGED queue
        /\ \A i \in Slots : Entry'[i].Occupied = Entry[i].Occupied
        /\ \A i \in Slots : HandlerHolds(i)' = HandlerHolds(i)
        /\ \A i \in Slots : SweepHolds(i)' = SweepHolds(i)
    BY <1>6 DEF ThreadClearWake, GoTo, HandlerHolds, SweepHolds
  <2> QED
    BY <2>1, SameRing
<1>7. CASE ThreadGate
  <2>1. /\ UNCHANGED queue
        /\ \A i \in Slots : Entry'[i].Occupied = Entry[i].Occupied
        /\ \A i \in Slots : HandlerHolds(i)' = HandlerHolds(i)
        /\ \A i \in Slots : SweepHolds(i)' = SweepHolds(i)
    BY <1>7 DEF ThreadGate, GoTo, ThreadVars, HandlerHolds, SweepHolds
  <2> QED
    BY <2>1, SameRing
<1>8. CASE HandlerEnter
  <2>1. /\ UNCHANGED queue
        /\ \A i \in Slots : Entry'[i].Occupied = Entry[i].Occupied
        /\ \A i \in Slots : HandlerHolds(i)' = HandlerHolds(i)
        /\ \A i \in Slots : SweepHolds(i)' = SweepHolds(i)
    BY <1>8 DEF HandlerEnter, GoTo, HandlerHolds, SweepHolds
  <2> QED
    BY <2>1, SameRing
<1>9. CASE HandlerLoop
  <2>1. /\ UNCHANGED queue
        /\ \A i \in Slots : Entry'[i].Occupied = Entry[i].Occupied
        /\ \A i \in Slots : HandlerHolds(i)' = HandlerHolds(i)
        /\ \A i \in Slots : SweepHolds(i)' = SweepHolds(i)
    BY <1>9 DEF HandlerLoop, GoTo, ThreadVars, HandlerHolds, SweepHolds
  <2> QED
    BY <2>1, SameRing
<1>10. CASE MlmeDequeue
  <2>1. CASE GoTo("loop") /\ UNCHANGED queue
    <3>1. /\ UNCHANGED queue
          /\ \A i \in Slots : Entry'[i].Occupied = Entry[i].Occupied
          /\ \A i \in Slots : HandlerHolds(i)' = HandlerHolds(i)
          /\ \A i \in Slots : SweepHolds(i)' = SweepHolds(i)
      BY <1>10, <2>1 DEF MlmeDequeue, GoTo, HandlerHolds, SweepHolds
    <3> QED
      BY <3>1, SameRing
  <2>2. CASE /\ ~QueueEmpty /\ queue' = Popped
             /\ thr' = [pc |-> "process", slot |-> queue.Head]
    <3>1. Alive /\ Alive' /\ UNCHANGED Entry
      BY <1>10, <2>2 DEF MlmeDequeue, GoTo, Alive, Popped, Ring
    <3>2. /\ queue.Head \in Slots /\ CountersAgree' /\ InRing(queue.Head)
          /\ \A i \in Slots : InRing(i)' <=> InRing(i) /\ i # queue.Head
      BY <2>2, <3>1, PopFacts DEF RingConsistent
    <3>3. \A i \in Slots : /\ ~HandlerHolds(i)
                          /\ HandlerHolds(i)' = (i = queue.Head)
                          /\ SweepHolds(i)' = SweepHolds(i)
      BY <1>10, <2>2 DEF MlmeDequeue, GoTo, HandlerHolds, SweepHolds
    <3>4. OccupiedExact'
      BY <3>1, <3>2, <3>3 DEF RingConsistent, OccupiedExact
    <3>5. HandsApart'
      BY <3>1, <3>2, <3>3 DEF RingConsistent, HandsApart
    <3> QED
      BY <3>2, <3>4, <3>5 DEF RingConsistent
  <2> QED
    BY <1>10, <2>1, <2>2 DEF MlmeDequeue
<1>11. CASE HandlerProcess
  <2>1. /\ queue' = queue /\ thr.slot \in Slots /\ HandlerHolds(thr.slot)
        /\ \A i \in Slots : /\ HandlerHolds(i) <=> i = thr.slot
                            /\ ~HandlerHolds(i)'
                            /\ SweepHolds(i)' <=> SweepHolds(i)
    BY <1>11 DEF HandlerProcess, GoTo, HandlerHolds, SweepHolds, CtlType
  <2>2. \A i \in Slots :
          Entry'[i].Occupied <=> Entry[i].Occupied /\ i # thr.slot
    BY <1>11, <2>1 DEF HandlerProcess, GoTo, FreeElem, ElemType
  <2> QED
    BY <2>1, <2>2 DEF RingConsistent, CountersAgree, OccupiedExact, HandsApart,
                      Alive, InRing
<1>12. CASE HandlerExit
  <2>1. /\ UNCHANGED queue
        /\ \A i \in Slots : Entry'[i].Occupied = Entry[i].Occupied
        /\ \A i \in Slots : HandlerHolds(i)' = HandlerHolds(i)
        /\ \A i \in Slots : SweepHolds(i)' = SweepHolds(i)
    BY <1>12 DEF HandlerExit, GoTo, HandlerHolds, SweepHolds
  <2> QED
    BY <2>1, SameRing
<1>13. ASSUME NEW w \in Wdevs, CloseStart(w)
      PROVE  RingConsistent'
  <2>1. /\ UNCHANGED queue
        /\ \A i \in Slots : Entry'[i].Occupied = Entry[i].Occupied
        /\ \A i \in Slots : HandlerHolds(i)' = HandlerHolds(i)
        /\ \A i \in Slots : SweepHolds(i)' = SweepHolds(i)
    BY <1>13 DEF CloseStart, Ctl, HandlerHolds, SweepHolds
  <2> QED
    BY <2>1, SameRing
<1>14. ASSUME NEW w \in Wdevs, OpenAgain(w)
      PROVE  RingConsistent'
  <2>1. /\ UNCHANGED queue
        /\ \A i \in Slots : Entry'[i].Occupied = Entry[i].Occupied
        /\ \A i \in Slots : HandlerHolds(i)' = HandlerHolds(i)
        /\ \A i \in Slots : SweepHolds(i)' = SweepHolds(i)
    BY <1>14 DEF OpenAgain, HandlerHolds, SweepHolds
  <2> QED
    BY <2>1, SameRing
<1>15. CASE ClearSuspend
  <2>1. /\ UNCHANGED queue
        /\ \A i \in Slots : Entry'[i].Occupied = Entry[i].Occupied
        /\ \A i \in Slots : HandlerHolds(i)' = HandlerHolds(i)
        /\ \A i \in Slots : SweepHolds(i)' = SweepHolds(i)
    BY <1>15 DEF ClearSuspend, CtlTo, CtlType, HandlerHolds, SweepHolds
  <2> QED
    BY <2>1, SameRing
<1>16. CASE ClearPoll
  <2>1. /\ UNCHANGED queue
        /\ \A i \in Slots : Entry'[i].Occupied = Entry[i].Occupied
        /\ \A i \in Slots : HandlerHolds(i)' = HandlerHolds(i)
        /\ \A i \in Slots : SweepHolds(i)' = SweepHolds(i)
    BY <1>16 DEF ClearPoll, CtlTo, CtlType, HandlerHolds, SweepHolds
  <2> QED
    BY <2>1, SameRing
<1>17. CASE ClearLock
  <2>1. /\ UNCHANGED queue
        /\ \A i \in Slots : Entry'[i].Occupied = Entry[i].Occupied
        /\ \A i \in Slots : HandlerHolds(i)' = HandlerHolds(i)
        /\ \A i \in Slots : SweepHolds(i)' = SweepHolds(i)
    BY <1>17 DEF ClearLock, CtlTo, CtlType, HandlerHolds, SweepHolds
  <2> QED
    BY <2>1, SameRing
<1>18. CASE ClearLift
  <2>1. CASE CtlTo("unlock") /\ UNCHANGED queue
    <3>1. /\ UNCHANGED queue
          /\ \A i \in Slots : Entry'[i].Occupied = Entry[i].Occupied
          /\ \A i \in Slots : HandlerHolds(i)' = HandlerHolds(i)
          /\ \A i \in Slots : SweepHolds(i)' = SweepHolds(i)
      BY <1>18, <2>1 DEF ClearLift, CtlTo, Ctl, CtlType, HandlerHolds, SweepHolds
    <3> QED
      BY <3>1, SameRing
  <2>2. CASE /\ ~QueueEmpty /\ queue' = Popped
             /\ Ctl("sort", ctl.wdev, ctl.left - 1, queue.Head)
    <3>1. Alive /\ Alive' /\ UNCHANGED Entry
      BY <1>18, <2>2 DEF ClearLift, CtlTo, Ctl, CtlType, Alive, Popped, Ring
    <3>2. /\ queue.Head \in Slots /\ CountersAgree' /\ InRing(queue.Head)
          /\ \A i \in Slots : InRing(i)' <=> InRing(i) /\ i # queue.Head
      BY <2>2, <3>1, PopFacts DEF RingConsistent
    <3>3. \A i \in Slots : /\ ~SweepHolds(i)
                          /\ SweepHolds(i)' = (i = queue.Head)
                          /\ HandlerHolds(i)' = HandlerHolds(i)
      BY <1>18, <2>2 DEF ClearLift, CtlTo, Ctl, CtlType, HandlerHolds, SweepHolds
    <3>4. OccupiedExact'
      BY <3>1, <3>2, <3>3 DEF RingConsistent, OccupiedExact
    <3>5. HandsApart'
      BY <3>1, <3>2, <3>3 DEF RingConsistent, HandsApart
    <3> QED
      BY <3>2, <3>4, <3>5 DEF RingConsistent
  <2> QED
    BY <1>18, <2>1, <2>2 DEF ClearLift
<1>19. CASE ClearSort
  <2>0. /\ \A i \in Slots : HandlerHolds(i)' = HandlerHolds(i)
        /\ \A i \in Slots : SweepHolds(i)' = SweepHolds(i)
    BY <1>19 DEF ClearSort, CtlTo, CtlType, HandlerHolds, SweepHolds
  <2>1. CASE UNCHANGED <<queue, Entry>>
    BY <2>0, <2>1, SameRing
  <2>2. CASE /\ Keeps(Entry[ctl.slot]) /\ ~TailBusy
             /\ Entry' = [Entry EXCEPT ![queue.Tail] = Entry[ctl.slot]]
             /\ queue' = Pushed
    <3>1. SweepHolds(ctl.slot) /\ ctl.slot \in Slots /\ Alive
      BY <1>19 DEF ClearSort, SweepHolds, CtlType
    <3>2. Entry[ctl.slot].Occupied /\ queue.Tail \in Slots
      BY <2>2, <3>1 DEF RingConsistent, OccupiedExact, TailBusy
    <3>3. \A i \in Slots :
            Entry'[i].Occupied <=> Entry[i].Occupied \/ i = queue.Tail
      BY <2>2, <3>1, <3>2 DEF ElemType
    <3> QED
      BY <2>0, <2>2, <3>3, PushStep
  <2> QED
    BY <1>19, <2>1, <2>2 DEF ClearSort
<1>20. CASE ClearFree
  <2>1. /\ queue' = queue /\ ctl.slot \in Slots /\ SweepHolds(ctl.slot)
        /\ \A i \in Slots : /\ SweepHolds(i) <=> i = ctl.slot
                            /\ ~SweepHolds(i)'
                            /\ HandlerHolds(i)' <=> HandlerHolds(i)
    BY <1>20 DEF ClearFree, CtlTo, HandlerHolds, SweepHolds, CtlType
  <2>2. \A i \in Slots :
          Entry'[i].Occupied <=> Entry[i].Occupied /\ i # ctl.slot
    BY <1>20, <2>1 DEF ClearFree, CtlTo, FreeElem, ElemType
  <2> QED
    BY <2>1, <2>2 DEF RingConsistent, CountersAgree, OccupiedExact, HandsApart,
                      Alive, InRing
<1>21. CASE ClearUnlock
  <2>1. /\ UNCHANGED queue
        /\ \A i \in Slots : Entry'[i].Occupied = Entry[i].Occupied
        /\ \A i \in Slots : HandlerHolds(i)' = HandlerHolds(i)
        /\ \A i \in Slots : SweepHolds(i)' = SweepHolds(i)
    BY <1>21 DEF ClearUnlock, CtlTo, CtlType, HandlerHolds, SweepHolds
  <2> QED
    BY <2>1, SameRing
<1>22. CASE ClearResume
  <2>1. /\ UNCHANGED queue
        /\ \A i \in Slots : Entry'[i].Occupied = Entry[i].Occupied
        /\ \A i \in Slots : HandlerHolds(i)' = HandlerHolds(i)
        /\ \A i \in Slots : SweepHolds(i)' = SweepHolds(i)
    BY <1>22 DEF ClearResume, CtlTo, CtlType, HandlerHolds, SweepHolds
  <2> QED
    BY <2>1, SameRing
<1>23. CASE StartUp
  <2>1. /\ UNCHANGED queue
        /\ \A i \in Slots : Entry'[i].Occupied = Entry[i].Occupied
        /\ \A i \in Slots : HandlerHolds(i)' = HandlerHolds(i)
        /\ \A i \in Slots : SweepHolds(i)' = SweepHolds(i)
    BY <1>23 DEF StartUp, HandlerHolds, SweepHolds
  <2> QED
    BY <2>1, SameRing
<1>24. CASE DriverClose
  <2>1. /\ UNCHANGED queue
        /\ \A i \in Slots : Entry'[i].Occupied = Entry[i].Occupied
        /\ \A i \in Slots : HandlerHolds(i)' = HandlerHolds(i)
        /\ \A i \in Slots : SweepHolds(i)' = SweepHolds(i)
    BY <1>24 DEF DriverClose, CtlTo, CtlType, HandlerHolds, SweepHolds
  <2> QED
    BY <2>1, SameRing
<1>25. CASE TaskKill
  <2>1. /\ UNCHANGED queue
        /\ \A i \in Slots : Entry'[i].Occupied = Entry[i].Occupied
        /\ \A i \in Slots : HandlerHolds(i)' = HandlerHolds(i)
        /\ \A i \in Slots : SweepHolds(i)' = SweepHolds(i)
    BY <1>25 DEF TaskKill, CtlTo, CtlType, HandlerHolds, SweepHolds
  <2> QED
    BY <2>1, SameRing
<1>26. CASE QueueDestroy
  <2>1. ~Alive'
    BY <1>26 DEF QueueDestroy, Alive
  <2> QED
    BY <2>1 DEF RingConsistent, CountersAgree, OccupiedExact, HandsApart
<1>27. CASE DriverOpen
  <2>1. /\ queue' = EmptyQueue /\ 0 \in Slots
        /\ \A i \in Slots : /\ ~Entry'[i].Occupied
                            /\ ~HandlerHolds(i)' /\ ~SweepHolds(i)'
    BY <1>27 DEF DriverOpen, GoTo, CtlTo, CtlType, HandlerHolds, SweepHolds, Slots
  <2>2. \A i \in Slots : ~InRing(i)'
    BY <2>1 DEF InRing, EmptyQueue
  <2> QED
    BY <2>1, <2>2 DEF RingConsistent, CountersAgree, OccupiedExact, HandsApart,
                      EmptyQueue
<1>28. CASE UNCHANGED vars
  BY <1>28, SameRing DEF vars, HandlerHolds, SweepHolds
<1>29. CASE ClearCount
  <2>1. /\ UNCHANGED queue
        /\ \A i \in Slots : Entry'[i].Occupied = Entry[i].Occupied
        /\ \A i \in Slots : HandlerHolds(i)' = HandlerHolds(i)
        /\ \A i \in Slots : SweepHolds(i)' = SweepHolds(i)
    BY <1>29 DEF ClearCount, Ctl, HandlerHolds, SweepHolds
  <2> QED
    BY <2>1, SameRing
<1> QED
  BY <1>1, <1>2, <1>3, <1>4, <1>5, <1>6, <1>7, <1>8, <1>9, <1>10, <1>11,
     <1>12, <1>13, <1>14, <1>15, <1>16, <1>17, <1>18, <1>19, <1>20, <1>21,
     <1>22, <1>23, <1>24, <1>25, <1>26, <1>27, <1>28, <1>29 DEF Next

\* The state MlmeInit builds.
LEMMA TypeInit == Init => TypeOK /\ LifeInv
<1> SUFFICES ASSUME Init PROVE TypeOK /\ LifeInv
  OBVIOUS
<1>1. queue \in QueueType /\ Alive
  BY DEF Init, EmptyQueue, QueueType, Slots, Alive
<1>2. Entry \in [Slots -> ElemType]
  BY DEF Init, EmptyElem, ElemType
<1>3. /\ snd \in [Senders -> SndType]
      /\ \A s \in Senders : snd[s].pc # "commit"
  BY DEF Init, SndType
<1>4. thr \in [pc : ThrPcs, slot : Slots] /\ ctl \in CtlType /\ ctl.pc = "open"
  BY DEF Init, ThrPcs, CtlType, CtlPcs, Slots
<1>5. fate \in [Msgs -> Fates]
  BY DEF Init, Fates
<1>6. count \in [closes : 0 .. MaxCloses, reopens : 0 .. MaxReopens]
  BY DEF Init
<1> QED
  BY <1>1, <1>2, <1>3, <1>4, <1>5, <1>6 DEF Init, TypeOK, LifeInv

\* MLME queue: whatever the threads do, every variable keeps its type, and
\* the counters stay within the ring (MlmeEnqueue*, MlmeDequeue).
THEOREM TypeCorrect == Spec => []TypeOK
<1>1. Init => TypeOK /\ LifeInv
  BY TypeInit
<1>2. TypeOK /\ LifeInv /\ [Next]_vars => TypeOK' /\ LifeInv'
  BY TypeStep
<1> QED
  BY <1>1, <1>2, PTL DEF Spec

LEMMA RingInit == Init => RingInv
<1>1. Init => TypeOK /\ LifeInv
  BY TypeInit
<1>2. Init => RingConsistent
  BY DEF Init, RingConsistent, CountersAgree, OccupiedExact, HandsApart,
         EmptyQueue, EmptyElem, InRing, HandlerHolds, SweepHolds, Slots
<1> QED
  BY <1>1, <1>2 DEF RingInv

\* MLME queue: Num, Head and Tail, the Occupied bits that the double check
\* of the enqueue functions reads, and the elements that MlmeHandler and
\* mlme_bss_clear hold outside the lock agree in every reachable state, for
\* every ring size and any number of threads, interfaces and messages.
THEOREM RingAlwaysConsistent == Spec => []RingConsistent
<1>1. Init => RingInv
  BY RingInit
<1>2. RingInv /\ [Next]_vars => RingInv'
  BY TypeStep, RingStep DEF RingInv
<1>3. RingInv => RingConsistent
  BY DEF RingInv
<1> QED
  BY <1>1, <1>2, <1>3, PTL DEF Spec

-----------------------------------------------------------------------------
(***************************************************************************)
(* No accepted message is lost or doubled.                                 *)
(***************************************************************************)

\* A message on its way into the queue belongs to one thread.
SendInv ==
  /\ \A s \in Senders : snd[s].pc = "commit" => fate[snd[s].msg] = "sending"
  /\ \A s, t \in Senders :
       /\ snd[s].pc = "commit" /\ snd[t].pc = "commit"
       /\ snd[s].msg = snd[t].msg
       => s = t

\* A destroyed queue owes nobody anything.
NothingPendingWhenClosed ==
  ~Alive => \A m \in Msgs : fate[m] # "pending"

\* Elements in place hold messages.
PlacesHoldMsgs ==
  Alive => \A i \in Slots : InPlace(i) => Entry[i].msg \in Msgs

PlaceInv == /\ SendInv /\ NothingPendingWhenClosed
            /\ PlacesHoldMsgs /\ PendingInOnePlace

\* An element in place is Occupied.
LEMMA PlaceOccupied ==
  ASSUME RingInv, Alive, NEW i \in Slots, InPlace(i)
  PROVE  Entry[i].Occupied
  BY DEF RingInv, RingConsistent, OccupiedExact, InPlace, SortHolds, SweepHolds

\* A step that moves no message and changes no pending message's fate.
LEMMA SamePlaces ==
  ASSUME PlacesHoldMsgs, PendingInOnePlace, NothingPendingWhenClosed,
         Alive' = Alive,
         \A i \in Slots : InPlace(i)' = InPlace(i),
         \A i \in Slots : InPlace(i) => Entry'[i].msg = Entry[i].msg,
         \A m \in Msgs : (fate'[m] = "pending") = (fate[m] = "pending")
  PROVE  NothingPendingWhenClosed' /\ PlacesHoldMsgs' /\ PendingInOnePlace'
<1>1. NothingPendingWhenClosed'
  BY DEF NothingPendingWhenClosed
<1>2. PlacesHoldMsgs'
  BY DEF PlacesHoldMsgs
<1>3. PendingInOnePlace'
  <2> SUFFICES ASSUME Alive'
               PROVE  /\ \A i \in Slots : InPlace(i)' => fate'[Entry'[i].msg] = "pending"
                      /\ \A i, j \in Slots :
                           InPlace(i)' /\ InPlace(j)' /\ Entry'[i].msg = Entry'[j].msg => i = j
                      /\ \A m \in Msgs : fate'[m] = "pending"
                           => \E i \in Slots : InPlace(i)' /\ Entry'[i].msg = m
    BY DEF PendingInOnePlace
  <2>1. \A i \in Slots : InPlace(i)' => fate'[Entry'[i].msg] = "pending"
    BY DEF PendingInOnePlace, PlacesHoldMsgs
  <2>2. \A i, j \in Slots :
          InPlace(i)' /\ InPlace(j)' /\ Entry'[i].msg = Entry'[j].msg => i = j
    BY DEF PendingInOnePlace
  <2>3. \A m \in Msgs : fate'[m] = "pending"
          => \E i \in Slots : InPlace(i)' /\ Entry'[i].msg = m
    BY DEF PendingInOnePlace
  <2> QED
    BY <2>1, <2>2, <2>3
<1> QED
  BY <1>1, <1>2, <1>3

\* A step that brings message m, which was nowhere, into the free slot k.
LEMMA PlaceAdded ==
  ASSUME PlacesHoldMsgs, PendingInOnePlace, Alive, Alive',
         NEW k \in Slots, NEW m \in Msgs, ~InPlace(k),
         \A i \in Slots : InPlace(i)' = (InPlace(i) \/ i = k),
         \A i \in Slots : InPlace(i) => Entry'[i].msg = Entry[i].msg,
         Entry'[k].msg = m,
         fate[m] # "pending",
         fate'[m] = "pending",
         \A n \in Msgs : n # m => fate'[n] = fate[n]
  PROVE  NothingPendingWhenClosed' /\ PlacesHoldMsgs' /\ PendingInOnePlace'
<1>1. \A i \in Slots : InPlace(i) => /\ Entry[i].msg \in Msgs
                                     /\ Entry[i].msg # m
                                     /\ fate[Entry[i].msg] = "pending"
  BY DEF PlacesHoldMsgs, PendingInOnePlace
<1>2. PlacesHoldMsgs'
  BY <1>1 DEF PlacesHoldMsgs
<1>3. \A i \in Slots : InPlace(i)' => fate'[Entry'[i].msg] = "pending"
  BY <1>1
<1>4. \A i, j \in Slots :
        InPlace(i)' /\ InPlace(j)' /\ Entry'[i].msg = Entry'[j].msg => i = j
  BY <1>1 DEF PendingInOnePlace
<1>5. \A n \in Msgs : fate'[n] = "pending"
        => \E i \in Slots : InPlace(i)' /\ Entry'[i].msg = n
  BY <1>1 DEF PendingInOnePlace
<1> QED
  BY <1>2, <1>3, <1>4, <1>5 DEF PendingInOnePlace, NothingPendingWhenClosed

\* A step that finishes with the message in slot k.
LEMMA PlaceRemoved ==
  ASSUME PlacesHoldMsgs, PendingInOnePlace, Alive, Alive',
         NEW k \in Slots, InPlace(k),
         \A i \in Slots : InPlace(i)' = (InPlace(i) /\ i # k),
         \A i \in Slots : InPlace(i) => Entry'[i].msg = Entry[i].msg,
         fate'[Entry[k].msg] # "pending",
         \A n \in Msgs : n # Entry[k].msg => fate'[n] = fate[n]
  PROVE  NothingPendingWhenClosed' /\ PlacesHoldMsgs' /\ PendingInOnePlace'
<1>1. \A i \in Slots : InPlace(i)' => /\ Entry[i].msg \in Msgs
                                      /\ Entry[i].msg # Entry[k].msg
                                      /\ fate[Entry[i].msg] = "pending"
  BY DEF PlacesHoldMsgs, PendingInOnePlace
<1>2. PlacesHoldMsgs'
  BY <1>1 DEF PlacesHoldMsgs
<1>3. \A i \in Slots : InPlace(i)' => fate'[Entry'[i].msg] = "pending"
  BY <1>1
<1>4. \A i, j \in Slots :
        InPlace(i)' /\ InPlace(j)' /\ Entry'[i].msg = Entry'[j].msg => i = j
  BY DEF PendingInOnePlace
<1>5. \A n \in Msgs : fate'[n] = "pending"
        => \E i \in Slots : InPlace(i)' /\ Entry'[i].msg = n
  BY DEF PendingInOnePlace
<1> QED
  BY <1>2, <1>3, <1>4, <1>5 DEF PendingInOnePlace, NothingPendingWhenClosed

\* A step that copies the message of slot k to the free slot j and leaves k.
LEMMA PlaceMoved ==
  ASSUME PlacesHoldMsgs, PendingInOnePlace, Alive, Alive',
         NEW k \in Slots, NEW j \in Slots, InPlace(k), ~InPlace(j),
         \A i \in Slots : InPlace(i)' = ((InPlace(i) /\ i # k) \/ i = j),
         \A i \in Slots : InPlace(i) => Entry'[i].msg = Entry[i].msg,
         Entry'[j].msg = Entry[k].msg,
         fate' = fate
  PROVE  NothingPendingWhenClosed' /\ PlacesHoldMsgs' /\ PendingInOnePlace'
<1>1. \A i \in Slots : InPlace(i) => /\ Entry[i].msg \in Msgs
                                     /\ fate[Entry[i].msg] = "pending"
  BY DEF PlacesHoldMsgs, PendingInOnePlace
<1>2. PlacesHoldMsgs'
  BY <1>1 DEF PlacesHoldMsgs
<1>3. \A i \in Slots : InPlace(i)' => fate'[Entry'[i].msg] = "pending"
  BY <1>1
<1>4. \A i, l \in Slots :
        InPlace(i)' /\ InPlace(l)' /\ Entry'[i].msg = Entry'[l].msg => i = l
  BY <1>1 DEF PendingInOnePlace
<1>5. \A n \in Msgs : fate'[n] = "pending"
        => \E i \in Slots : InPlace(i)' /\ Entry'[i].msg = n
  BY <1>1 DEF PendingInOnePlace
<1> QED
  BY <1>2, <1>3, <1>4, <1>5 DEF PendingInOnePlace, NothingPendingWhenClosed

\* A step that touches neither the ring, nor a hand, nor a fate.
LEMMA StillPlaces ==
  ASSUME PlaceInv, UNCHANGED <<queue, Entry, fate>>,
         \A i \in Slots : HandlerHolds(i)' = HandlerHolds(i),
         \A i \in Slots : SortHolds(i)' = SortHolds(i)
  PROVE  NothingPendingWhenClosed' /\ PlacesHoldMsgs' /\ PendingInOnePlace'
<1>1. \A i \in Slots : InPlace(i)' = InPlace(i)
  BY DEF InPlace, InRing
<1>2. Alive' = Alive
  BY DEF Alive
<1> QED
  BY <1>1, <1>2, SamePlaces DEF PlaceInv

\* A thread's claim on its message survives what others do to messages
\* that are not on their way.
LEMMA SameSend ==
  ASSUME SendInv, UNCHANGED snd,
         \A m \in Msgs : fate[m] = "sending" => fate'[m] = "sending",
         TypeOK
  PROVE  SendInv'
<1>1. \A s \in Senders : snd[s].pc = "commit" => snd[s].msg \in Msgs
  BY DEF TypeOK
<1> QED
  BY <1>1 DEF SendInv

\* Every step keeps accepted messages in exactly one place.
LEMMA PlaceStep ==
  ASSUME RingInv, RingInv', PlaceInv, [Next]_vars
  PROVE  PlaceInv'
<1>0. /\ queue \in QueueType
      /\ Entry \in [Slots -> ElemType]
      /\ snd \in [Senders -> SndType]
      /\ \A s \in Senders : snd[s].pc = "commit" => snd[s].msg \in Msgs
      /\ thr \in [pc : ThrPcs, slot : Slots]
      /\ ctl \in CtlType
      /\ fate \in [Msgs -> Fates]
      /\ Alive <=> ctl.pc # "closed"
      /\ ctl.pc = "closed" => thr.pc = "dead"
      /\ TypeOK
      /\ SendInv /\ NothingPendingWhenClosed
      /\ PlacesHoldMsgs /\ PendingInOnePlace
  BY DEF RingInv, TypeOK, LifeInv, PlaceInv
<1>1. ASSUME NEW s \in Senders, NEW m \in Msgs, SendCheck(s, m)
      PROVE  PlaceInv'
  <2>1. /\ fate[m] = "unsent" /\ fate'[m] \in {"sending", "refused"}
        /\ \A n \in Msgs : n # m => fate'[n] = fate[n]
        /\ UNCHANGED <<queue, Entry, thr, ctl>>
    BY <1>0, <1>1 DEF SendCheck
  <2>2. SendInv'
    BY <1>0, <1>1 DEF SendCheck, SendInv, SndType
  <2>3. /\ Alive' = Alive
        /\ \A i \in Slots : InPlace(i)' = InPlace(i)
    BY <2>1 DEF Alive, InPlace, InRing, HandlerHolds, SortHolds
  <2>4. \A n \in Msgs : (fate'[n] = "pending") = (fate[n] = "pending")
    BY <2>1
  <2> QED
    BY <1>0, <2>1, <2>2, <2>3, <2>4, SamePlaces DEF PlaceInv
<1>2. ASSUME NEW s \in Senders, SendCommit(s)
      PROVE  PlaceInv'
  <2> DEFINE m == snd[s].msg
             k == queue.Tail
  <2>1. m \in Msgs /\ fate[m] = "sending" /\ UNCHANGED <<thr, ctl>>
    BY <1>0, <1>2 DEF SendCommit, SendInv
  <2>2. SendInv'
    <3>1. /\ \A n \in Msgs : n # m => fate'[n] = fate[n]
          /\ \A t \in Senders : t # s => snd'[t] = snd[t]
          /\ snd'[s].pc # "commit"
      BY <1>0, <1>2 DEF SendCommit, SndType
    <3>2. snd[s].pc = "commit"
      BY <1>2 DEF SendCommit
    <3>3. \A t \in Senders : t # s /\ snd[t].pc = "commit" => snd[t].msg # m
      BY <1>0, <3>2 DEF SendInv
    <3> QED
      BY <1>0, <3>1, <3>3 DEF SendInv
  <2>3. CASE UNCHANGED <<queue, Entry>> /\ fate' = [fate EXCEPT ![m] = "refused"]
    <3>1. /\ Alive' = Alive
          /\ \A i \in Slots : InPlace(i)' = InPlace(i)
      BY <2>1, <2>3 DEF Alive, InPlace, InRing, HandlerHolds, SortHolds
    <3>2. \A n \in Msgs : (fate'[n] = "pending") = (fate[n] = "pending")
      BY <1>0, <2>1, <2>3
    <3> QED
      BY <1>0, <2>2, <2>3, <3>1, <3>2, SamePlaces DEF PlaceInv
  <2>4. CASE /\ ~TailBusy
             /\ Entry' = [Entry EXCEPT ![k] = Written(m)]
             /\ queue' = Pushed
             /\ fate' = [fate EXCEPT ![m] =
                           IF queue.MaxLen = 0 THEN "lost" ELSE "pending"]
    <3>1. k \in Slots /\ ~Entry[k].Occupied
      BY <2>4 DEF TailBusy
    <3>2. CASE Alive
      <4>1. ~InPlace(k) /\ ~InRing(k)
        BY <3>1, <3>2, PlaceOccupied DEF InPlace
      <4>2. Alive' /\ \A i \in Slots : InRing(i)' <=> InRing(i) \/ i = k
        BY <1>0, <2>4, <3>1, <3>2, <4>1, PushFacts DEF RingInv, RingConsistent
      <4>3. \A i \in Slots : InPlace(i)' = (InPlace(i) \/ i = k)
        BY <2>1, <4>2 DEF InPlace, HandlerHolds, SortHolds
      <4>4. /\ Entry'[k].msg = m
            /\ \A i \in Slots : InPlace(i) => Entry'[i].msg = Entry[i].msg
        BY <1>0, <2>4, <3>1, <4>1 DEF Written
      <4>5. /\ fate[m] # "pending" /\ fate'[m] = "pending"
            /\ \A n \in Msgs : n # m => fate'[n] = fate[n]
        BY <1>0, <2>1, <2>4, <3>2, CapAssumption DEF Alive
      <4> QED
        BY <1>0, <2>1, <2>2, <3>1, <3>2, <4>1, <4>2, <4>3, <4>4, <4>5,
           PlaceAdded DEF PlaceInv
    <3>3. CASE ~Alive
      <4>1. queue.MaxLen = 0 /\ ~Alive'
        BY <1>0, <2>4, <3>3 DEF Alive, QueueType, Pushed, Ring
      <4>2. \A n \in Msgs : fate'[n] # "pending"
        BY <1>0, <2>1, <2>4, <3>3, <4>1 DEF NothingPendingWhenClosed
      <4> QED
        BY <2>2, <4>1, <4>2 DEF PlaceInv, NothingPendingWhenClosed,
           PlacesHoldMsgs, PendingInOnePlace
    <3> QED
      BY <3>2, <3>3
  <2> QED
    BY <1>2, <2>3, <2>4 DEF SendCommit
<1>3. ASSUME NEW s \in Senders, SendKick(s)
      PROVE  PlaceInv'
  <2>1. /\ UNCHANGED <<queue, Entry, fate>>
        /\ \A i \in Slots : HandlerHolds(i)' = HandlerHolds(i)
        /\ \A i \in Slots : SortHolds(i)' = SortHolds(i)
    BY <1>0, <1>3 DEF SendKick, HandlerHolds, SortHolds
  <2>2. SendInv'
    BY <1>0, <1>3 DEF SendKick, SendInv, SndType
  <2> QED
    BY <2>1, <2>2, StillPlaces DEF PlaceInv
<1>4. CASE PeriodicKick
  <2>1. /\ UNCHANGED <<queue, Entry, fate>>
        /\ \A i \in Slots : HandlerHolds(i)' = HandlerHolds(i)
        /\ \A i \in Slots : SortHolds(i)' = SortHolds(i)
    BY <1>0, <1>4 DEF PeriodicKick, HandlerHolds, SortHolds
  <2>2. SendInv'
    BY <1>0, <2>1, <1>4, SameSend DEF PeriodicKick
  <2> QED
    BY <2>1, <2>2, StillPlaces DEF PlaceInv
<1>5. CASE ThreadWake
  <2>1. /\ UNCHANGED <<queue, Entry, fate>>
        /\ \A i \in Slots : HandlerHolds(i)' = HandlerHolds(i)
        /\ \A i \in Slots : SortHolds(i)' = SortHolds(i)
    BY <1>0, <1>5 DEF ThreadWake, GoTo, ThreadVars, HandlerHolds, SortHolds
  <2>2. SendInv'
    BY <1>0, <2>1, <1>5, SameSend DEF ThreadWake, GoTo, ThreadVars
  <2> QED
    BY <2>1, <2>2, StillPlaces DEF PlaceInv
<1>6. CASE ThreadClearWake
  <2>1. /\ UNCHANGED <<queue, Entry, fate>>
        /\ \A i \in Slots : HandlerHolds(i)' = HandlerHolds(i)
        /\ \A i \in Slots : SortHolds(i)' = SortHolds(i)
    BY <1>0, <1>6 DEF ThreadClearWake, GoTo, HandlerHolds, SortHolds
  <2>2. SendInv'
    BY <1>0, <2>1, <1>6, SameSend DEF ThreadClearWake, GoTo
  <2> QED
    BY <2>1, <2>2, StillPlaces DEF PlaceInv
<1>7. CASE ThreadGate
  <2>1. /\ UNCHANGED <<queue, Entry, fate>>
        /\ \A i \in Slots : HandlerHolds(i)' = HandlerHolds(i)
        /\ \A i \in Slots : SortHolds(i)' = SortHolds(i)
    BY <1>0, <1>7 DEF ThreadGate, GoTo, ThreadVars, HandlerHolds, SortHolds
  <2>2. SendInv'
    BY <1>0, <2>1, <1>7, SameSend DEF ThreadGate, GoTo, ThreadVars
  <2> QED
    BY <2>1, <2>2, StillPlaces DEF PlaceInv
<1>8. CASE HandlerEnter
  <2>1. /\ UNCHANGED <<queue, Entry, fate>>
        /\ \A i \in Slots : HandlerHolds(i)' = HandlerHolds(i)
        /\ \A i \in Slots : SortHolds(i)' = SortHolds(i)
    BY <1>0, <1>8 DEF HandlerEnter, GoTo, HandlerHolds, SortHolds
  <2>2. SendInv'
    BY <1>0, <2>1, <1>8, SameSend DEF HandlerEnter, GoTo
  <2> QED
    BY <2>1, <2>2, StillPlaces DEF PlaceInv
<1>9. CASE HandlerLoop
  <2>1. /\ UNCHANGED <<queue, Entry, fate>>
        /\ \A i \in Slots : HandlerHolds(i)' = HandlerHolds(i)
        /\ \A i \in Slots : SortHolds(i)' = SortHolds(i)
    BY <1>0, <1>9 DEF HandlerLoop, GoTo, ThreadVars, HandlerHolds, SortHolds
  <2>2. SendInv'
    BY <1>0, <2>1, <1>9, SameSend DEF HandlerLoop, GoTo, ThreadVars
  <2> QED
    BY <2>1, <2>2, StillPlaces DEF PlaceInv
<1>10. CASE MlmeDequeue
  <2>1. CASE GoTo("loop") /\ UNCHANGED queue
    <3>1. /\ UNCHANGED <<queue, Entry, fate>>
          /\ \A i \in Slots : HandlerHolds(i)' = HandlerHolds(i)
          /\ \A i \in Slots : SortHolds(i)' = SortHolds(i)
      BY <1>0, <1>10, <2>1 DEF MlmeDequeue, GoTo, HandlerHolds, SortHolds
    <3>2. SendInv'
      BY <1>0, <1>10, SameSend DEF MlmeDequeue
    <3> QED
      BY <3>1, <3>2, StillPlaces DEF PlaceInv
  <2>2. CASE /\ ~QueueEmpty /\ queue' = Popped
             /\ thr' = [pc |-> "process", slot |-> queue.Head]
    <3>1. Alive /\ Alive' /\ UNCHANGED <<Entry, fate, snd>>
      BY <1>0, <1>10, <2>2 DEF MlmeDequeue, GoTo, ThrPcs, Alive, Popped, Ring
    <3>2. /\ queue.Head \in Slots /\ InRing(queue.Head)
          /\ \A i \in Slots : InRing(i)' <=> InRing(i) /\ i # queue.Head
      BY <1>0, <2>2, <3>1, PopFacts DEF RingInv, RingConsistent
    <3>3. \A i \in Slots : /\ ~HandlerHolds(i)
                          /\ HandlerHolds(i)' = (i = queue.Head)
                          /\ SortHolds(i)' = SortHolds(i)
      BY <1>0, <1>10, <2>2 DEF MlmeDequeue, GoTo, ThrPcs, HandlerHolds, SortHolds
    <3>4. \A i \in Slots : InPlace(i)' = InPlace(i)
      BY <3>2, <3>3 DEF InPlace
    <3>5. SendInv'
      BY <1>0, <3>1, SameSend
    <3> QED
      BY <1>0, <3>1, <3>4, <3>5, SamePlaces DEF PlaceInv
  <2> QED
    BY <1>10, <2>1, <2>2 DEF MlmeDequeue
<1>11. CASE HandlerProcess
  <2> DEFINE k == thr.slot
  <2>1. /\ k \in Slots /\ HandlerHolds(k) /\ Alive /\ Alive'
        /\ UNCHANGED <<queue, snd, ctl>>
    BY <1>0, <1>11 DEF HandlerProcess, HandlerHolds, Alive, ThrPcs
  <2>2. InPlace(k) /\ Entry[k].msg \in Msgs /\ fate[Entry[k].msg] = "pending"
    BY <1>0, <2>1 DEF InPlace, PlacesHoldMsgs, PendingInOnePlace
  <2>3. \A i \in Slots : InPlace(i)' = (InPlace(i) /\ i # k)
    <3>1. ~InRing(k) /\ ~SortHolds(k)
      BY <2>1 DEF RingInv, RingConsistent, HandsApart, SortHolds, SweepHolds
    <3>2. \A i \in Slots : /\ InRing(i)' = InRing(i)
                          /\ SortHolds(i)' = SortHolds(i)
      BY <2>1 DEF InRing, SortHolds
    <3>3. \A i \in Slots : ~HandlerHolds(i)' /\ (HandlerHolds(i) <=> i = k)
      BY <1>0, <1>11 DEF HandlerProcess, GoTo, HandlerHolds
    <3> QED
      BY <3>1, <3>2, <3>3 DEF InPlace
  <2>4. \A i \in Slots : Entry'[i].msg = Entry[i].msg
    BY <1>0, <1>11 DEF HandlerProcess, FreeElem, ElemType
  <2>5. /\ fate'[Entry[k].msg] # "pending"
        /\ \A n \in Msgs : n # Entry[k].msg => fate'[n] = fate[n]
    BY <1>0, <2>2, <1>11 DEF HandlerProcess
  <2>6. SendInv'
    BY <1>0, <2>1, <2>2, <2>5, SameSend
  <2> QED
    BY <1>0, <2>1, <2>2, <2>3, <2>4, <2>5, <2>6, PlaceRemoved DEF PlaceInv
<1>12. CASE HandlerExit
  <2>1. /\ UNCHANGED <<queue, Entry, fate>>
        /\ \A i \in Slots : HandlerHolds(i)' = HandlerHolds(i)
        /\ \A i \in Slots : SortHolds(i)' = SortHolds(i)
    BY <1>0, <1>12 DEF HandlerExit, GoTo, HandlerHolds, SortHolds
  <2>2. SendInv'
    BY <1>0, <2>1, <1>12, SameSend DEF HandlerExit, GoTo
  <2> QED
    BY <2>1, <2>2, StillPlaces DEF PlaceInv
<1>13. ASSUME NEW w \in Wdevs, CloseStart(w)
      PROVE  PlaceInv'
  <2>1. /\ UNCHANGED <<queue, Entry, fate>>
        /\ \A i \in Slots : HandlerHolds(i)' = HandlerHolds(i)
        /\ \A i \in Slots : SortHolds(i)' = SortHolds(i)
    BY <1>0, <1>13 DEF CloseStart, Ctl, HandlerHolds, SortHolds
  <2>2. SendInv'
    BY <1>0, <2>1, <1>13, SameSend DEF CloseStart, Ctl
  <2> QED
    BY <2>1, <2>2, StillPlaces DEF PlaceInv
<1>14. ASSUME NEW w \in Wdevs, OpenAgain(w)
      PROVE  PlaceInv'
  <2>1. /\ UNCHANGED <<queue, Entry, fate>>
        /\ \A i \in Slots : HandlerHolds(i)' = HandlerHolds(i)
        /\ \A i \in Slots : SortHolds(i)' = SortHolds(i)
    BY <1>0, <1>14 DEF OpenAgain, HandlerHolds, SortHolds
  <2>2. SendInv'
    BY <1>0, <2>1, <1>14, SameSend DEF OpenAgain
  <2> QED
    BY <2>1, <2>2, StillPlaces DEF PlaceInv
<1>15. CASE ClearSuspend
  <2>1. /\ UNCHANGED <<queue, Entry, fate>>
        /\ \A i \in Slots : HandlerHolds(i)' = HandlerHolds(i)
        /\ \A i \in Slots : SortHolds(i)' = SortHolds(i)
    BY <1>0, <1>15 DEF ClearSuspend, CtlTo, CtlType, HandlerHolds, SortHolds
  <2>2. SendInv'
    BY <1>0, <2>1, <1>15, SameSend DEF ClearSuspend, CtlTo, CtlType
  <2> QED
    BY <2>1, <2>2, StillPlaces DEF PlaceInv
<1>16. CASE ClearPoll
  <2>1. /\ UNCHANGED <<queue, Entry, fate>>
        /\ \A i \in Slots : HandlerHolds(i)' = HandlerHolds(i)
        /\ \A i \in Slots : SortHolds(i)' = SortHolds(i)
    BY <1>0, <1>16 DEF ClearPoll, CtlTo, CtlType, HandlerHolds, SortHolds
  <2>2. SendInv'
    BY <1>0, <2>1, <1>16, SameSend DEF ClearPoll, CtlTo, CtlType
  <2> QED
    BY <2>1, <2>2, StillPlaces DEF PlaceInv
<1>17. CASE ClearLock
  <2>1. /\ UNCHANGED <<queue, Entry, fate>>
        /\ \A i \in Slots : HandlerHolds(i)' = HandlerHolds(i)
        /\ \A i \in Slots : SortHolds(i)' = SortHolds(i)
    BY <1>0, <1>17 DEF ClearLock, CtlTo, CtlType, HandlerHolds, SortHolds
  <2>2. SendInv'
    BY <1>0, <2>1, <1>17, SameSend DEF ClearLock
  <2> QED
    BY <2>1, <2>2, StillPlaces DEF PlaceInv
<1>18. CASE ClearLift
  <2>1. CASE CtlTo("unlock") /\ UNCHANGED queue
    <3>1. /\ UNCHANGED <<queue, Entry, fate>>
          /\ \A i \in Slots : HandlerHolds(i)' = HandlerHolds(i)
          /\ \A i \in Slots : SortHolds(i)' = SortHolds(i)
      BY <1>0, <1>18, <2>1 DEF ClearLift, CtlTo, CtlType, HandlerHolds, SortHolds
    <3>2. SendInv'
      BY <1>0, <1>18, SameSend DEF ClearLift
    <3> QED
      BY <3>1, <3>2, StillPlaces DEF PlaceInv
  <2>2. CASE /\ ~QueueEmpty /\ queue' = Popped
             /\ Ctl("sort", ctl.wdev, ctl.left - 1, queue.Head)
    <3>1. Alive /\ Alive' /\ UNCHANGED <<Entry, fate, snd>>
      BY <1>0, <1>18, <2>2 DEF ClearLift, Ctl, CtlType, Alive, Popped, Ring
    <3>2. /\ queue.Head \in Slots /\ InRing(queue.Head)
          /\ \A i \in Slots : InRing(i)' <=> InRing(i) /\ i # queue.Head
      BY <1>0, <2>2, <3>1, PopFacts DEF RingInv, RingConsistent
    <3>3. \A i \in Slots : /\ ~SortHolds(i)
                          /\ SortHolds(i)' = (i = queue.Head)
                          /\ HandlerHolds(i)' = HandlerHolds(i)
      BY <1>0, <1>18, <2>2 DEF ClearLift, Ctl, CtlType, HandlerHolds, SortHolds
    <3>4. \A i \in Slots : InPlace(i)' = InPlace(i)
      BY <3>2, <3>3 DEF InPlace
    <3>5. SendInv'
      BY <1>0, <3>1, SameSend
    <3> QED
      BY <1>0, <3>1, <3>4, <3>5, SamePlaces DEF PlaceInv
  <2> QED
    BY <1>18, <2>1, <2>2 DEF ClearLift
<1>19. CASE ClearSort
  <2> DEFINE k == ctl.slot
             t == queue.Tail
  <2>1. /\ k \in Slots /\ SortHolds(k) /\ Alive /\ Alive'
        /\ UNCHANGED <<thr, snd>>
        /\ \A i \in Slots : ~SortHolds(i)' /\ (SortHolds(i) <=> i = k)
    BY <1>0, <1>19 DEF ClearSort, CtlTo, CtlType, SortHolds, Alive, Pushed, Ring
  <2>2. /\ InPlace(k) /\ Entry[k].msg \in Msgs
        /\ fate[Entry[k].msg] = "pending"
    BY <1>0, <2>1 DEF InPlace, PlacesHoldMsgs, PendingInOnePlace
  <2>3. ~InRing(k) /\ ~HandlerHolds(k) /\ Entry[k].Occupied
    BY <2>1, <2>2, PlaceOccupied
       DEF RingInv, RingConsistent, HandsApart, SortHolds, SweepHolds
  <2>4. CASE /\ UNCHANGED <<queue, Entry>>
             /\ \E f \in {"lost", "swept"} :
                  fate' = [fate EXCEPT ![Entry[k].msg] = f]
    <3>1. \A i \in Slots : InPlace(i)' = (InPlace(i) /\ i # k)
      BY <2>1, <2>3, <2>4 DEF InPlace, InRing, HandlerHolds
    <3>2. /\ fate'[Entry[k].msg] # "pending"
          /\ fate'[Entry[k].msg] # "sending"
          /\ \A n \in Msgs : n # Entry[k].msg => fate'[n] = fate[n]
      BY <1>0, <2>2, <2>4
    <3>3. SendInv'
      BY <1>0, <2>1, <2>2, <3>2, SameSend
    <3> QED
      BY <1>0, <2>1, <2>2, <2>4, <3>1, <3>2, <3>3, PlaceRemoved DEF PlaceInv
  <2>5. CASE /\ ~TailBusy
             /\ Entry' = [Entry EXCEPT ![t] = Entry[k]]
             /\ queue' = Pushed
             /\ UNCHANGED fate
    <3>1. t \in Slots /\ ~Entry[t].Occupied
      BY <2>5 DEF TailBusy
    <3>2. ~InPlace(t) /\ ~InRing(t)
      BY <2>1, <3>1, PlaceOccupied DEF InPlace
    <3>3. \A i \in Slots : InRing(i)' <=> InRing(i) \/ i = t
      BY <1>0, <2>1, <2>5, <3>1, <3>2, PushFacts DEF RingInv, RingConsistent
    <3>4. \A i \in Slots : InPlace(i)' = ((InPlace(i) /\ i # k) \/ i = t)
      BY <2>1, <2>3, <3>1, <3>3 DEF InPlace, HandlerHolds
    <3>5. /\ Entry'[t].msg = Entry[k].msg
          /\ \A i \in Slots : InPlace(i) => Entry'[i].msg = Entry[i].msg
      BY <1>0, <2>5, <3>1, <3>2
    <3>6. SendInv'
      BY <1>0, <2>1, <2>5, SameSend
    <3> QED
      BY <1>0, <2>1, <2>2, <2>5, <3>1, <3>2, <3>4, <3>5, <3>6, PlaceMoved
         DEF PlaceInv
  <2> QED
    BY <1>19, <2>4, <2>5 DEF ClearSort
<1>20. CASE ClearFree
  <2>1. /\ UNCHANGED <<queue, fate, snd, thr>>
        /\ \A i \in Slots : SortHolds(i)' = SortHolds(i)
        /\ \A i \in Slots : Entry'[i].msg = Entry[i].msg
    BY <1>0, <1>20 DEF ClearFree, CtlTo, CtlType, FreeElem, ElemType, SortHolds
  <2>2. /\ Alive' = Alive
        /\ \A i \in Slots : InPlace(i)' = InPlace(i)
    BY <2>1 DEF Alive, InPlace, InRing, HandlerHolds
  <2>3. SendInv'
    BY <1>0, <2>1, SameSend
  <2> QED
    BY <1>0, <2>1, <2>2, <2>3, SamePlaces DEF PlaceInv
<1>21. CASE ClearUnlock
  <2>1. /\ UNCHANGED <<queue, Entry, fate>>
        /\ \A i \in Slots : HandlerHolds(i)' = HandlerHolds(i)
        /\ \A i \in Slots : SortHolds(i)' = SortHolds(i)
    BY <1>0, <1>21 DEF ClearUnlock, CtlTo, CtlType, HandlerHolds, SortHolds
  <2>2. SendInv'
    BY <1>0, <2>1, <1>21, SameSend DEF ClearUnlock, CtlTo, CtlType
  <2> QED
    BY <2>1, <2>2, StillPlaces DEF PlaceInv
<1>22. CASE ClearResume
  <2>1. /\ UNCHANGED <<queue, Entry, fate>>
        /\ \A i \in Slots : HandlerHolds(i)' = HandlerHolds(i)
        /\ \A i \in Slots : SortHolds(i)' = SortHolds(i)
    BY <1>0, <1>22 DEF ClearResume, CtlTo, CtlType, HandlerHolds, SortHolds
  <2>2. SendInv'
    BY <1>0, <2>1, <1>22, SameSend DEF ClearResume, CtlTo, CtlType
  <2> QED
    BY <2>1, <2>2, StillPlaces DEF PlaceInv
<1>23. CASE StartUp
  <2>1. /\ UNCHANGED <<queue, Entry, fate>>
        /\ \A i \in Slots : HandlerHolds(i)' = HandlerHolds(i)
        /\ \A i \in Slots : SortHolds(i)' = SortHolds(i)
    BY <1>0, <1>23 DEF StartUp, HandlerHolds, SortHolds
  <2>2. SendInv'
    BY <1>0, <2>1, <1>23, SameSend DEF StartUp
  <2> QED
    BY <2>1, <2>2, StillPlaces DEF PlaceInv
<1>24. CASE DriverClose
  <2>1. /\ UNCHANGED <<queue, Entry, fate>>
        /\ \A i \in Slots : HandlerHolds(i)' = HandlerHolds(i)
        /\ \A i \in Slots : SortHolds(i)' = SortHolds(i)
    BY <1>0, <1>24 DEF DriverClose, CtlTo, CtlType, HandlerHolds, SortHolds
  <2>2. SendInv'
    BY <1>0, <2>1, <1>24, SameSend DEF DriverClose, CtlTo, CtlType
  <2> QED
    BY <2>1, <2>2, StillPlaces DEF PlaceInv
<1>25. CASE TaskKill
  <2>1. /\ UNCHANGED <<queue, Entry, fate>>
        /\ \A i \in Slots : HandlerHolds(i)' = HandlerHolds(i)
        /\ \A i \in Slots : SortHolds(i)' = SortHolds(i)
    BY <1>0, <1>25 DEF TaskKill, CtlTo, CtlType, HandlerHolds, SortHolds
  <2>2. SendInv'
    BY <1>0, <2>1, <1>25, SameSend DEF TaskKill, CtlTo, CtlType
  <2> QED
    BY <2>1, <2>2, StillPlaces DEF PlaceInv
<1>26. CASE QueueDestroy
  <2>1. ~Alive' /\ UNCHANGED snd
    BY <1>0, <1>26 DEF QueueDestroy, Alive
  <2>2. /\ \A m \in Msgs : fate'[m] # "pending"
        /\ \A m \in Msgs : fate[m] = "sending" => fate'[m] = "sending"
    BY <1>0, <1>26 DEF QueueDestroy
  <2>3. SendInv'
    BY <1>0, <2>1, <2>2, SameSend
  <2> QED
    BY <2>1, <2>2, <2>3 DEF PlaceInv, NothingPendingWhenClosed,
       PlacesHoldMsgs, PendingInOnePlace
<1>27. CASE DriverOpen
  <2>1. /\ queue' = EmptyQueue /\ 0 \in Slots /\ UNCHANGED <<fate, snd>>
        /\ \A i \in Slots : ~HandlerHolds(i)' /\ ~SortHolds(i)'
    BY <1>0, <1>27 DEF DriverOpen, GoTo, CtlTo, CtlType, HandlerHolds, SortHolds,
                    Slots
  <2>2. Alive' /\ \A i \in Slots : ~InPlace(i)'
    BY <2>1 DEF InPlace, InRing, EmptyQueue, Alive
  <2>3. \A m \in Msgs : fate'[m] # "pending"
    BY <1>0, <1>27, <2>1 DEF DriverOpen, NothingPendingWhenClosed
  <2>4. SendInv'
    BY <1>0, <2>1, SameSend
  <2> QED
    BY <2>2, <2>3, <2>4 DEF PlaceInv, NothingPendingWhenClosed,
       PlacesHoldMsgs, PendingInOnePlace
<1>28. CASE UNCHANGED vars
  <2>1. /\ UNCHANGED <<queue, Entry, fate>>
        /\ \A i \in Slots : HandlerHolds(i)' = HandlerHolds(i)
        /\ \A i \in Slots : SortHolds(i)' = SortHolds(i)
    BY <1>0, <1>28 DEF vars, HandlerHolds, SortHolds
  <2>2. SendInv'
    BY <1>0, <2>1, <1>28, SameSend DEF vars
  <2> QED
    BY <2>1, <2>2, StillPlaces DEF PlaceInv
<1>29. CASE ClearCount
  <2>1. /\ UNCHANGED <<queue, Entry, fate>>
        /\ \A i \in Slots : HandlerHolds(i)' = HandlerHolds(i)
        /\ \A i \in Slots : SortHolds(i)' = SortHolds(i)
    BY <1>0, <1>29 DEF ClearCount, Ctl, HandlerHolds, SortHolds
  <2>2. SendInv'
    BY <1>0, <2>1, <1>29, SameSend DEF ClearCount, Ctl
  <2> QED
    BY <2>1, <2>2, StillPlaces DEF PlaceInv
<1> QED
  BY <1>1, <1>2, <1>3, <1>4, <1>5, <1>6, <1>7, <1>8, <1>9, <1>10, <1>11,
     <1>12, <1>13, <1>14, <1>15, <1>16, <1>17, <1>18, <1>19, <1>20,
     <1>21, <1>22, <1>23, <1>24, <1>25, <1>26, <1>27, <1>28, <1>29 DEF Next

LEMMA PlaceInit == Init => PlaceInv
<1>1. Init => SendInv /\ NothingPendingWhenClosed
  BY DEF Init, SendInv, NothingPendingWhenClosed
<1>2. Init => PlacesHoldMsgs /\ PendingInOnePlace
  BY DEF Init, PlacesHoldMsgs, PendingInOnePlace, InPlace, InRing,
         HandlerHolds, SortHolds, EmptyQueue
<1> QED
  BY <1>1, <1>2 DEF PlaceInv

\* MLME queue: an accepted message lies in exactly one place (the ring, the
\* handler's hands, or the sweep's) until MlmeHandler, mlme_bss_clear or
\* MlmeQueueDestroy finishes with it, for any number of threads, messages,
\* interfaces and slots: none is lost and none is handled twice.
THEOREM NoMessageLost == Spec => []PendingInOnePlace
<1>1. Init => RingInv /\ PlaceInv
  BY RingInit, PlaceInit
<1>2. RingInv /\ PlaceInv /\ [Next]_vars => RingInv' /\ PlaceInv'
  <2>1. RingInv /\ [Next]_vars => RingInv'
    BY TypeStep, RingStep DEF RingInv
  <2> QED
    BY <2>1, PlaceStep
<1>3. PlaceInv => PendingInOnePlace
  BY DEF PlaceInv
<1> QED
  BY <1>1, <1>2, <1>3, PTL DEF Spec

-----------------------------------------------------------------------------
(***************************************************************************)
(* The ring implements the mailbox.  First the ring, read from its head,   *)
(* as a sequence.                                                          *)
(***************************************************************************)
\* What a slot of the ring may hold.
Elems == Msgs \cup {NoMsg}

\* The k-th message of the ring lies in a slot of the ring.
LEMMA SlotFacts ==
  ASSUME TypeOK, Alive, CountersAgree
  PROVE  /\ queue.Num \in 0 .. Cap
         /\ \A k \in 1 .. queue.Num : SlotAt(k) \in Slots /\ InRing(SlotAt(k))
         /\ queue.Num > 0 => SlotAt(1) = queue.Head
<1> DEFINE q == queue
<1>1. /\ q.Head \in 0 .. Cap - 1 /\ q.Tail \in 0 .. Cap - 1 /\ q.Num \in Nat
      /\ Cap \in Nat \ {0}
  BY DEF TypeOK, QueueType, CountersAgree, Slots, Alive
<1>2. \/ q.Head < q.Tail /\ q.Num = q.Tail - q.Head
      \/ q.Tail < q.Head /\ q.Num = Cap - q.Head + q.Tail
      \/ q.Head = q.Tail /\ q.Num \in {0, Cap}
  BY DEF CountersAgree
<1>3. q.Num \in 0 .. Cap
  BY <1>1, <1>2
<1>4. ASSUME NEW k \in 1 .. q.Num
      PROVE  SlotAt(k) \in Slots /\ InRing(SlotAt(k))
  <2>1. CASE q.Head + k > Cap
    <3>1. SlotAt(k) = q.Head + k - 1 - Cap
      BY <2>1 DEF SlotAt
    <3>2. SlotAt(k) \in Slots
      BY <1>1, <1>3, <2>1, <3>1 DEF Slots
    <3> QED
      BY <1>1, <1>2, <2>1, <3>1, <3>2 DEF InRing
  <2>2. CASE ~(q.Head + k > Cap)
    <3>1. SlotAt(k) = q.Head + k - 1
      BY <2>2 DEF SlotAt
    <3>2. SlotAt(k) \in Slots
      BY <1>1, <1>3, <2>2, <3>1 DEF Slots
    <3> QED
      BY <1>1, <1>2, <2>2, <3>1, <3>2 DEF InRing
  <2> QED
    BY <2>1, <2>2
<1>5. q.Num > 0 => SlotAt(1) = q.Head
  BY <1>1 DEF SlotAt
<1> QED
  BY <1>3, <1>4, <1>5

\* The ring read as a sequence.
LEMMA BoxFacts ==
  ASSUME RingInv, Alive
  PROVE  /\ RingSeq \in Seq(Elems)
         /\ Len(RingSeq) = queue.Num /\ queue.Num \in 0 .. Cap
         /\ \A k \in 1 .. queue.Num : RingSeq[k] = Entry[SlotAt(k)].msg
<1>1. /\ queue.Num \in 0 .. Cap
      /\ \A k \in 1 .. queue.Num : SlotAt(k) \in Slots
  BY SlotFacts DEF RingInv, RingConsistent
<1>2. RingSeq = [k \in 1 .. queue.Num |-> Entry[SlotAt(k)].msg]
  BY DEF RingSeq
<1>3. \A k \in 1 .. queue.Num : Entry[SlotAt(k)].msg \in Elems
  BY <1>1 DEF RingInv, TypeOK, ElemType, Elems
<1>4. queue.Num \in Nat
  BY <1>1
<1>5. RingSeq \in [1 .. queue.Num -> Elems]
  BY <1>2, <1>3
<1>6. RingSeq \in Seq(Elems) /\ Len(RingSeq) = queue.Num
  BY <1>4, <1>5
<1> QED
  BY <1>1, <1>2, <1>6

\* The same, of this state and of the next.
BoxOK ==
  /\ RingSeq \in Seq(Elems)
  /\ Len(RingSeq) = queue.Num
  /\ \A k \in 1 .. queue.Num : RingSeq[k] = Entry[SlotAt(k)].msg

LEMMA BoxFactsNext == RingInv' /\ Alive' => BoxOK'
<1>1. RingInv /\ Alive => BoxOK
  BY BoxFacts DEF BoxOK
<1> QED
  BY <1>1, PTL

\* A step that leaves the counters and the messages in the ring alone.
LEMMA BoxSame ==
  ASSUME RingInv, UNCHANGED queue,
         \A i \in Slots : InRing(i) => Entry'[i].msg = Entry[i].msg
  PROVE  RingSeq' = RingSeq
<1>1. CASE Alive
  <2>1. \A k \in 1 .. queue.Num : SlotAt(k)' = SlotAt(k)
    BY DEF SlotAt
  <2>2. \A k \in 1 .. queue.Num : Entry'[SlotAt(k)].msg = Entry[SlotAt(k)].msg
    BY <1>1, SlotFacts DEF RingInv, RingConsistent
  <2>3. RingSeq' = [k \in 1 .. queue.Num |-> Entry'[SlotAt(k)'].msg]
    BY <1>1 DEF RingSeq, Alive
  <2>4. RingSeq = [k \in 1 .. queue.Num |-> Entry[SlotAt(k)].msg]
    BY <1>1 DEF RingSeq
  <2> QED
    BY <2>1, <2>2, <2>3, <2>4
<1>2. CASE ~Alive
  BY <1>2 DEF RingSeq, Alive
<1> QED
  BY <1>1, <1>2

\* A push at a free tail appends.
LEMMA BoxPush ==
  ASSUME RingInv, RingInv', Alive, queue.Tail \in Slots, ~InRing(queue.Tail),
         queue' = Pushed, NEW m \in Elems, Entry'[queue.Tail].msg = m,
         \A i \in Slots : InRing(i) => Entry'[i].msg = Entry[i].msg
  PROVE  RingSeq' = Append(RingSeq, m) /\ Len(RingSeq) < Cap
<1> DEFINE q == queue
<1>1. /\ q.Head \in 0 .. Cap - 1 /\ q.Tail \in 0 .. Cap - 1 /\ q.Num \in Nat
      /\ Cap \in Nat \ {0}
      /\ TypeOK /\ CountersAgree
  BY DEF RingInv, RingConsistent, TypeOK, QueueType, Slots
<1>2. \/ q.Head < q.Tail /\ q.Num = q.Tail - q.Head
      \/ q.Tail < q.Head /\ q.Num = Cap - q.Head + q.Tail
      \/ q.Head = q.Tail /\ q.Num = 0
  BY <1>1 DEF CountersAgree, InRing
<1>3. q.Num < Cap
  BY <1>1, <1>2
<1>4. SlotAt(q.Num + 1) = q.Tail
  BY <1>1, <1>2 DEF SlotAt
<1>5. /\ queue'.Num = q.Num + 1 /\ queue'.Head = q.Head
      /\ Alive'
  BY DEF Pushed, Ring, Alive
<1>6. \A k \in 1 .. q.Num + 1 : SlotAt(k)' = SlotAt(k)
  BY <1>5 DEF SlotAt
<1>7. /\ RingSeq \in Seq(Elems) /\ Len(RingSeq) = q.Num
      /\ \A k \in 1 .. q.Num : RingSeq[k] = Entry[SlotAt(k)].msg
  BY BoxFacts
<1>8. /\ RingSeq' \in Seq(Elems) /\ Len(RingSeq') = q.Num + 1
      /\ \A k \in 1 .. q.Num + 1 : RingSeq'[k] = Entry'[SlotAt(k)'].msg
  <2>1. RingInv' /\ Alive' => /\ RingSeq' \in Seq(Elems)
                              /\ Len(RingSeq') = queue'.Num
                              /\ \A k \in 1 .. queue'.Num :
                                   RingSeq'[k] = Entry'[SlotAt(k)'].msg
    BY BoxFactsNext DEF BoxOK, Elems
  <2> QED
    BY <1>5, <2>1
<1>9. \A k \in 1 .. q.Num : RingSeq'[k] = RingSeq[k]
  <2>1. \A k \in 1 .. q.Num : SlotAt(k) \in Slots /\ InRing(SlotAt(k))
    BY <1>1, SlotFacts
  <2>2. \A k \in 1 .. q.Num : k \in 1 .. q.Num + 1
    BY <1>1
  <2> QED
    BY <1>6, <1>7, <1>8, <2>1, <2>2
<1>10. RingSeq'[q.Num + 1] = m
  BY <1>1, <1>4, <1>6, <1>8
<1>11. /\ Append(RingSeq, m) \in Seq(Elems)
       /\ Len(Append(RingSeq, m)) = q.Num + 1
       /\ \A k \in 1 .. q.Num : Append(RingSeq, m)[k] = RingSeq[k]
       /\ Append(RingSeq, m)[q.Num + 1] = m
  BY <1>7, AppendProperties
<1>12. \A k \in 1 .. q.Num + 1 : RingSeq'[k] = Append(RingSeq, m)[k]
  <2>1. \A k \in 1 .. q.Num + 1 : k \in 1 .. q.Num \/ k = q.Num + 1
    BY <1>1
  <2> QED
    BY <1>9, <1>10, <1>11, <2>1
<1>13. RingSeq' = Append(RingSeq, m)
  BY <1>8, <1>11, <1>12, SeqEqual
<1> QED
  BY <1>3, <1>7, <1>13

\* A pop takes the head off.
LEMMA BoxPop ==
  ASSUME RingInv, RingInv', Alive, ~QueueEmpty, queue' = Popped,
         UNCHANGED Entry
  PROVE  /\ RingSeq # <<>>
         /\ Head(RingSeq) = Entry[queue.Head].msg
         /\ RingSeq' = Tail(RingSeq)
<1> DEFINE q == queue
<1>1. /\ q.Head \in 0 .. Cap - 1 /\ q.Num \in 1 .. Cap /\ Cap \in Nat \ {0}
      /\ SlotAt(1) = q.Head
      /\ \A k \in 1 .. q.Num : SlotAt(k) \in Slots
  <2>1. q.Head \in 0 .. Cap - 1 /\ q.Num # 0
    BY DEF RingInv, TypeOK, QueueType, Slots, QueueEmpty
  <2> QED
    BY <2>1, SlotFacts DEF RingInv, RingConsistent
<1>2. /\ RingSeq \in Seq(Elems) /\ Len(RingSeq) = q.Num
      /\ \A k \in 1 .. q.Num : RingSeq[k] = Entry[SlotAt(k)].msg
  BY BoxFacts
<1>3. RingSeq # <<>> /\ Head(RingSeq) = Entry[q.Head].msg
  <2>1. RingSeq # <<>> /\ Head(RingSeq) = RingSeq[1]
    BY <1>1, <1>2
  <2> QED
    BY <1>1, <1>2, <2>1
<1>4. /\ queue'.Num = q.Num - 1 /\ Alive'
      /\ queue'.Head = IF q.Head + 1 = Cap THEN 0 ELSE q.Head + 1
  BY DEF Popped, Ring, Wrap, Alive
<1>5. \A k \in 1 .. q.Num - 1 : SlotAt(k)' = SlotAt(k + 1)
  BY <1>1, <1>4 DEF SlotAt
<1>6. /\ RingSeq' \in Seq(Elems) /\ Len(RingSeq') = q.Num - 1
      /\ \A k \in 1 .. q.Num - 1 : RingSeq'[k] = Entry[SlotAt(k)'].msg
  <2>1. RingInv' /\ Alive' => /\ RingSeq' \in Seq(Elems)
                              /\ Len(RingSeq') = queue'.Num
                              /\ \A k \in 1 .. queue'.Num :
                                   RingSeq'[k] = Entry'[SlotAt(k)'].msg
    BY BoxFactsNext DEF BoxOK, Elems
  <2> QED
    BY <1>4, <2>1
<1>7. /\ Tail(RingSeq) \in Seq(Elems) /\ Len(Tail(RingSeq)) = q.Num - 1
      /\ \A k \in 1 .. q.Num - 1 : Tail(RingSeq)[k] = RingSeq[k + 1]
  BY <1>2, <1>3, HeadTailProperties
<1>8. \A k \in 1 .. q.Num - 1 : RingSeq'[k] = Tail(RingSeq)[k]
  <2>1. \A k \in 1 .. q.Num - 1 : k + 1 \in 1 .. q.Num
    BY <1>1
  <2> QED
    BY <1>2, <1>5, <1>6, <1>7, <2>1
<1>9. RingSeq' = Tail(RingSeq)
  BY <1>6, <1>7, <1>8, SeqEqual
<1> QED
  BY <1>3, <1>9

-----------------------------------------------------------------------------
(***************************************************************************)
(* Step simulation.                                                        *)
(***************************************************************************)
Idle == UNCHANGED <<RingSeq, InHandler, InSweep, fate>>

\* A step that touches neither an element, nor a hand, nor a fate.
LEMMA Quiet ==
  ASSUME RingInv, UNCHANGED <<queue, Entry, fate>>,
         InHandler' = InHandler, InSweep' = InSweep
  PROVE  Idle
  BY BoxSame DEF Idle

\* Steps of the driver the mailbox does not see.
LEMMA QuietSteps ==
  ASSUME RingInv,
         \/ \E s \in Senders : SendKick(s)
         \/ PeriodicKick
         \/ ThreadWake \/ ThreadClearWake \/ ThreadGate
         \/ HandlerEnter \/ HandlerLoop \/ HandlerExit
         \/ \E w \in Wdevs : CloseStart(w) \/ OpenAgain(w)
         \/ ClearSuspend \/ ClearPoll \/ ClearCount \/ ClearLock
         \/ ClearUnlock \/ ClearResume
         \/ StartUp \/ DriverClose \/ TaskKill
  PROVE  Idle
<1>0. /\ thr \in [pc : ThrPcs, slot : Slots] /\ ctl \in CtlType
  BY DEF RingInv, TypeOK
<1>1. ASSUME NEW s \in Senders, SendKick(s)
     PROVE  Idle
  BY <1>0, <1>1, Quiet DEF SendKick, CtlType, InHandler, InSweep
<1>2. CASE PeriodicKick
  BY <1>0, <1>2, Quiet DEF PeriodicKick, CtlType, InHandler, InSweep
<1>3. CASE ThreadWake
  BY <1>0, <1>3, Quiet DEF ThreadWake, ThreadVars, GoTo, CtlType, InHandler, InSweep
<1>4. CASE ThreadClearWake
  BY <1>0, <1>4, Quiet DEF ThreadClearWake, GoTo, CtlType, InHandler, InSweep
<1>5. CASE ThreadGate
  BY <1>0, <1>5, Quiet DEF ThreadGate, ThreadVars, GoTo, CtlType, InHandler, InSweep
<1>6. CASE HandlerEnter
  BY <1>0, <1>6, Quiet DEF HandlerEnter, GoTo, CtlType, InHandler, InSweep
<1>7. CASE HandlerLoop
  BY <1>0, <1>7, Quiet DEF HandlerLoop, ThreadVars, GoTo, CtlType, InHandler, InSweep
<1>8. CASE HandlerExit
  BY <1>0, <1>8, Quiet DEF HandlerExit, GoTo, CtlType, InHandler, InSweep
<1>9. ASSUME NEW w \in Wdevs, CloseStart(w)
     PROVE  Idle
  BY <1>0, <1>9, Quiet DEF CloseStart, Ctl, CtlType, InHandler, InSweep
<1>10. ASSUME NEW w \in Wdevs, OpenAgain(w)
     PROVE  Idle
  BY <1>0, <1>10, Quiet DEF OpenAgain, CtlType, InHandler, InSweep
<1>11. CASE ClearSuspend
  BY <1>0, <1>11, Quiet DEF ClearSuspend, CtlTo, CtlType, InHandler, InSweep
<1>12. CASE ClearPoll
  BY <1>0, <1>12, Quiet DEF ClearPoll, CtlTo, CtlType, InHandler, InSweep
<1>13. CASE ClearCount
  BY <1>0, <1>13, Quiet DEF ClearCount, Ctl, CtlType, InHandler, InSweep
<1>14. CASE ClearLock
  BY <1>0, <1>14, Quiet DEF ClearLock, CtlTo, CtlType, InHandler, InSweep
<1>15. CASE ClearUnlock
  BY <1>0, <1>15, Quiet DEF ClearUnlock, CtlTo, CtlType, InHandler, InSweep
<1>16. CASE ClearResume
  BY <1>0, <1>16, Quiet DEF ClearResume, CtlTo, CtlType, InHandler, InSweep
<1>17. CASE StartUp
  BY <1>0, <1>17, Quiet DEF StartUp, CtlType, InHandler, InSweep
<1>18. CASE DriverClose
  BY <1>0, <1>18, Quiet DEF DriverClose, CtlTo, CtlType, InHandler, InSweep
<1>19. CASE TaskKill
  BY <1>0, <1>19, Quiet DEF TaskKill, CtlTo, CtlType, InHandler, InSweep
<1> QED
  BY <1>1, <1>2, <1>3, <1>4, <1>5, <1>6, <1>7, <1>8, <1>9, <1>10,
     <1>11, <1>12, <1>13, <1>14, <1>15, <1>16, <1>17, <1>18,
     <1>19

\* What a step outside the ring leaves in the hands.
LEMMA HandsKept ==
  ASSUME RingInv, UNCHANGED <<thr, ctl>>, queue.Tail \in Slots,
         ~Entry[queue.Tail].Occupied,
         \A i \in Slots : i # queue.Tail => Entry'[i].msg = Entry[i].msg
  PROVE  InHandler' = InHandler /\ InSweep' = InSweep
<1>0. /\ thr \in [pc : ThrPcs, slot : Slots] /\ ctl \in CtlType
      /\ ctl.slot \in Slots
  BY DEF RingInv, TypeOK, CtlType
<1>1. thr.pc = "process" => Entry[thr.slot].Occupied
  BY <1>0 DEF RingInv, LifeInv, RingConsistent, OccupiedExact, HandlerHolds
<1>2. ctl.pc = "sort" => Entry[ctl.slot].Occupied
  BY <1>0 DEF RingInv, LifeInv, RingConsistent, OccupiedExact, SweepHolds
<1> QED
  BY <1>0, <1>1, <1>2 DEF InHandler, InSweep

\* MlmeEnqueue and its kin: the sender's message enters the mailbox or is
\* turned away.
LEMMA CommitSimulates ==
  ASSUME RingInv, RingInv', PlaceInv, NEW s \in Senders, SendCommit(s)
  PROVE  Mailbox!Next
<1> DEFINE m == snd[s].msg
           k == queue.Tail
<1>0. /\ m \in Msgs /\ fate[m] = "sending" /\ UNCHANGED <<thr, ctl>>
      /\ fate \in [Msgs -> Fates] /\ Entry \in [Slots -> ElemType]
  BY DEF SendCommit, PlaceInv, SendInv, RingInv, TypeOK
<1>1. CASE UNCHANGED <<queue, Entry>> /\ fate' = [fate EXCEPT ![m] = "refused"]
  <2>1. UNCHANGED <<RingSeq, InHandler, InSweep>>
    BY <1>0, <1>1, BoxSame DEF InHandler, InSweep
  <2>2. Mailbox!Refuse(m)
    BY <1>0, <1>1, <2>1 DEF Mailbox!Refuse
  <2> QED
    BY <1>0, <2>2 DEF Mailbox!Next
<1>2. CASE /\ ~TailBusy
           /\ Entry' = [Entry EXCEPT ![k] = Written(m)]
           /\ queue' = Pushed
           /\ fate' = [fate EXCEPT ![m] =
                         IF queue.MaxLen = 0 THEN "lost" ELSE "pending"]
  <2>1. k \in Slots /\ ~Entry[k].Occupied
    BY <1>2 DEF TailBusy
  <2>2. \A i \in Slots : i # k => Entry'[i].msg = Entry[i].msg
    BY <1>0, <1>2, <2>1
  <2>3. UNCHANGED <<InHandler, InSweep>>
    BY <1>0, <2>1, <2>2, HandsKept
  <2>4. CASE Alive
    <3>1. ~InRing(k)
      BY <2>1, <2>4 DEF RingInv, RingConsistent, OccupiedExact
    <3>2. Entry'[k].msg = m /\ m \in Elems
      BY <1>0, <1>2, <2>1 DEF Written, Elems
    <3>3. RingSeq' = Append(RingSeq, m) /\ Len(RingSeq) < Cap
      BY <1>2, <2>1, <2>2, <2>4, <3>1, <3>2, BoxPush
    <3>4. fate' = [fate EXCEPT ![m] = "pending"]
      BY <1>2, <2>4 DEF Alive
    <3>5. Mailbox!Post(m)
      BY <1>0, <2>3, <3>3, <3>4 DEF Mailbox!Post
    <3> QED
      BY <1>0, <3>5 DEF Mailbox!Next
  <2>5. CASE ~Alive
    <3>1. UNCHANGED RingSeq
      BY <1>2, <2>5 DEF RingSeq, Alive, Pushed, Ring
    <3>2. fate' = [fate EXCEPT ![m] = "lost"]
      BY <1>2, <2>5 DEF RingInv, TypeOK, QueueType, Alive
    <3>3. Mailbox!Refuse(m)
      BY <1>0, <2>3, <3>1, <3>2 DEF Mailbox!Refuse
    <3> QED
      BY <1>0, <3>3 DEF Mailbox!Next
  <2> QED
    BY <2>4, <2>5
<1> QED
  BY <1>1, <1>2 DEF SendCommit

\* mlme_bss_clear_by_wdev decides about the element it lifted.
LEMMA SortSimulates ==
  ASSUME RingInv, RingInv', PlaceInv, ClearSort
  PROVE  Mailbox!Next
<1> DEFINE e == Entry[ctl.slot]
           k == queue.Tail
<1>0. /\ ctl.pc = "sort" /\ ctl \in CtlType /\ ctl.slot \in Slots
      /\ ctl' = [ctl EXCEPT !.pc = "free"] /\ UNCHANGED thr
      /\ Entry \in [Slots -> ElemType] /\ fate \in [Msgs -> Fates]
      /\ thr \in [pc : ThrPcs, slot : Slots]
      /\ Alive
  BY DEF ClearSort, CtlTo, RingInv, LifeInv, TypeOK, CtlType
<1>1. e.msg \in Msgs
  BY <1>0 DEF PlaceInv, PlacesHoldMsgs, InPlace, SortHolds
<1>2. InSweep = e.msg /\ InSweep # NoMsg /\ InSweep' = NoMsg
  BY <1>0, <1>1 DEF InSweep, CtlType
<1>3. CASE /\ UNCHANGED <<queue, Entry>>
           /\ \E f \in {"swept", "lost"} : fate' = [fate EXCEPT ![e.msg] = f]
  <2>1. UNCHANGED <<RingSeq, InHandler>>
    BY <1>0, <1>3, BoxSame DEF InHandler
  <2>2. Mailbox!ThrowAway
    BY <1>2, <1>3, <2>1 DEF Mailbox!ThrowAway
  <2> QED
    BY <2>2 DEF Mailbox!Next
<1>4. CASE /\ ~TailBusy
           /\ Entry' = [Entry EXCEPT ![k] = e]
           /\ queue' = Pushed
           /\ UNCHANGED fate
  <2>1. k \in Slots /\ ~Entry[k].Occupied
    BY <1>4 DEF TailBusy
  <2>2. \A i \in Slots : i # k => Entry'[i].msg = Entry[i].msg
    BY <1>0, <1>4, <2>1
  <2>3. thr.pc = "process" => Entry[thr.slot].Occupied
    BY <1>0 DEF RingInv, RingConsistent, OccupiedExact, HandlerHolds
  <2>4. UNCHANGED InHandler
    BY <1>0, <2>1, <2>2, <2>3 DEF InHandler
  <2>5. ~InRing(k)
    BY <1>0, <2>1 DEF RingInv, RingConsistent, OccupiedExact
  <2>6. Entry'[k].msg = e.msg /\ e.msg \in Elems
    BY <1>0, <1>1, <1>4, <2>1 DEF Elems
  <2>7. RingSeq' = Append(RingSeq, e.msg) /\ Len(RingSeq) < Cap
    BY <1>0, <1>4, <2>1, <2>2, <2>5, <2>6, BoxPush
  <2>8. Mailbox!PutBack
    BY <1>2, <1>4, <2>4, <2>7 DEF Mailbox!PutBack
  <2> QED
    BY <2>8 DEF Mailbox!Next
<1> QED
  BY <1>3, <1>4 DEF ClearSort

\* Every step of the driver is a step of the mailbox, or none.
LEMMA StepSimulates ==
  ASSUME RingInv, RingInv', PlaceInv, [Next]_vars
  PROVE  Mailbox!Next \/ Idle
<1>0. /\ thr \in [pc : ThrPcs, slot : Slots] /\ ctl \in CtlType
      /\ ctl.slot \in Slots
      /\ Entry \in [Slots -> ElemType] /\ fate \in [Msgs -> Fates]
      /\ Alive <=> ctl.pc # "closed"
      /\ ctl.pc = "closed" => thr.pc = "dead"
      /\ queue.Head \in Slots
  BY DEF RingInv, TypeOK, LifeInv, CtlType, QueueType
<1>1. ASSUME NEW s \in Senders, NEW m \in Msgs, SendCheck(s, m)
      PROVE  Mailbox!Next
  <2>1. UNCHANGED <<RingSeq, InHandler, InSweep>>
    BY <1>1, BoxSame DEF SendCheck, InHandler, InSweep
  <2>2. Mailbox!Offer(m)
    BY <1>1, <2>1 DEF SendCheck, Mailbox!Offer
  <2> QED
    BY <2>2 DEF Mailbox!Next
<1>2. ASSUME NEW s \in Senders, SendCommit(s)
      PROVE  Mailbox!Next
  BY <1>2, CommitSimulates
<1>3. CASE MlmeDequeue
  <2>1. CASE GoTo("loop") /\ UNCHANGED queue
    <3>1. InHandler' = InHandler /\ InSweep' = InSweep
      BY <1>0, <1>3, <2>1 DEF MlmeDequeue, GoTo, InHandler, InSweep
    <3> QED
      BY <1>3, <2>1, <3>1, Quiet DEF MlmeDequeue
  <2>2. CASE /\ ~QueueEmpty /\ queue' = Popped
             /\ thr' = [pc |-> "process", slot |-> queue.Head]
    <3>1. /\ RingSeq # <<>>
          /\ Head(RingSeq) = Entry[queue.Head].msg
          /\ RingSeq' = Tail(RingSeq)
      BY <1>0, <1>3, <2>2, BoxPop DEF MlmeDequeue
    <3>2. /\ InHandler = NoMsg /\ InHandler' = Entry[queue.Head].msg
          /\ InSweep' = InSweep
      BY <1>3, <2>2 DEF MlmeDequeue, InHandler, InSweep
    <3>3. Mailbox!Take
      BY <1>3, <3>1, <3>2 DEF MlmeDequeue, Mailbox!Take
    <3> QED
      BY <3>3 DEF Mailbox!Next
  <2> QED
    BY <1>3, <2>1, <2>2 DEF MlmeDequeue
<1>4. CASE HandlerProcess
  <2>1. \A i \in Slots : Entry'[i].msg = Entry[i].msg
    BY <1>0, <1>4 DEF HandlerProcess, FreeElem
  <2>2. RingSeq' = RingSeq
    BY <1>4, <2>1, BoxSame DEF HandlerProcess
  <2>3. Entry[thr.slot].msg \in Msgs
    BY <1>0, <1>4 DEF HandlerProcess, PlaceInv, PlacesHoldMsgs, InPlace,
                      HandlerHolds
  <2>4. /\ InHandler = Entry[thr.slot].msg /\ InHandler # NoMsg
        /\ InHandler' = NoMsg /\ InSweep' = InSweep
    BY <1>0, <1>4, <2>1, <2>3 DEF HandlerProcess, GoTo, InHandler, InSweep
  <2>5. Mailbox!Finish
    BY <1>4, <2>2, <2>4 DEF HandlerProcess, Mailbox!Finish
  <2> QED
    BY <2>5 DEF Mailbox!Next
<1>5. CASE ClearLift
  <2>1. CASE CtlTo("unlock") /\ UNCHANGED queue
    <3>1. InHandler' = InHandler /\ InSweep' = InSweep
      BY <1>0, <1>5, <2>1 DEF ClearLift, CtlTo, CtlType, InHandler, InSweep
    <3> QED
      BY <1>5, <2>1, <3>1, Quiet DEF ClearLift
  <2>2. CASE /\ ~QueueEmpty /\ queue' = Popped
             /\ Ctl("sort", ctl.wdev, ctl.left - 1, queue.Head)
    <3>1. /\ RingSeq # <<>>
          /\ Head(RingSeq) = Entry[queue.Head].msg
          /\ RingSeq' = Tail(RingSeq)
      BY <1>0, <1>5, <2>2, BoxPop DEF ClearLift
    <3>2. /\ InSweep = NoMsg /\ InSweep' = Entry[queue.Head].msg
          /\ InHandler' = InHandler
      BY <1>5, <2>2 DEF ClearLift, Ctl, InHandler, InSweep
    <3>3. Mailbox!Lift
      BY <1>5, <3>1, <3>2 DEF ClearLift, Mailbox!Lift
    <3> QED
      BY <3>3 DEF Mailbox!Next
  <2> QED
    BY <1>5, <2>1, <2>2 DEF ClearLift
<1>6. CASE ClearSort
  BY <1>6, SortSimulates
<1>7. CASE ClearFree
  <2>1. \A i \in Slots : Entry'[i].msg = Entry[i].msg
    BY <1>0, <1>7 DEF ClearFree, FreeElem
  <2>2. RingSeq' = RingSeq
    BY <1>7, <2>1, BoxSame DEF ClearFree
  <2>3. InHandler' = InHandler /\ InSweep' = InSweep
    BY <1>0, <1>7, <2>1 DEF ClearFree, CtlTo, CtlType, InHandler, InSweep
  <2> QED
    BY <1>7, <2>2, <2>3 DEF ClearFree, Idle
<1>8. CASE QueueDestroy
  <2>1. RingSeq' = <<>>
    BY <1>8 DEF QueueDestroy, RingSeq, Alive
  <2>2. /\ InHandler = NoMsg /\ InSweep = NoMsg
        /\ InHandler' = NoMsg /\ InSweep' = NoMsg
    BY <1>0, <1>8 DEF QueueDestroy, ThreadGone, CtlTo, CtlType, InHandler,
                      InSweep
  <2>3. Mailbox!Destroy
    BY <1>8, <2>1, <2>2 DEF QueueDestroy, Mailbox!Destroy
  <2> QED
    BY <2>3 DEF Mailbox!Next
<1>9. CASE DriverOpen
  <2>1. RingSeq = <<>>
    BY <1>0, <1>9 DEF DriverOpen, RingSeq
  <2>2. RingSeq' = [k \in 1 .. 0 |-> Entry'[SlotAt(k)'].msg]
    BY <1>9 DEF DriverOpen, EmptyQueue, RingSeq, Alive
  <2>3. RingSeq' = <<>>
    BY <2>2
  <2>4. InHandler' = InHandler /\ InSweep' = InSweep
    BY <1>0, <1>9 DEF DriverOpen, GoTo, CtlTo, CtlType, InHandler, InSweep
  <2> QED
    BY <1>9, <2>1, <2>3, <2>4 DEF DriverOpen, Idle
<1>10. CASE UNCHANGED vars
  BY <1>10, Quiet DEF vars, InHandler, InSweep
<1> QED
  BY <1>1, <1>2, <1>3, <1>4, <1>5, <1>6, <1>7, <1>8, <1>9, <1>10, QuietSteps
  DEF Next

\* MLME queue: for every capacity and any number of threads, messages and
\* interfaces, the ring with its counters and Occupied bits behaves as a
\* bounded first-in first-out mailbox: MlmeEnqueue* add at the end,
\* MlmeHandler takes from the front, the sweep takes from the front and puts
\* back at the end, and MlmeQueueDestroy empties it.
THEOREM RingIsMailbox == Spec => ImplementsMailbox
<1>1. Init => Mailbox!Init
  <2> SUFFICES ASSUME Init PROVE Mailbox!Init
    OBVIOUS
  <2>1. RingSeq = [k \in 1 .. 0 |-> Entry[SlotAt(k)].msg]
    BY DEF Init, EmptyQueue, RingSeq, Alive
  <2>2. RingSeq = <<>>
    BY <2>1
  <2>3. InHandler = NoMsg /\ InSweep = NoMsg
    BY DEF Init, InHandler, InSweep
  <2> QED
    BY <2>2, <2>3 DEF Init, Mailbox!Init
<1>2. RingInv /\ RingInv' /\ PlaceInv /\ [Next]_vars
        => [Mailbox!Next]_(Mailbox!vars)
  BY StepSimulates DEF Idle, Mailbox!vars
<1>3. Spec => []RingInv
  <2>1. RingInv /\ [Next]_vars => RingInv'
    BY TypeStep, RingStep DEF RingInv
  <2> QED
    BY <2>1, RingInit, PTL DEF Spec
<1>4. Spec => []PlaceInv
  <2>1. RingInv /\ RingInv' /\ PlaceInv /\ [Next]_vars => PlaceInv'
    BY PlaceStep
  <2> QED
    BY <1>3, <2>1, PlaceInit, PTL DEF Spec
<1> QED
  BY <1>1, <1>2, <1>3, <1>4, PTL DEF Spec, ImplementsMailbox, Mailbox!Spec
=============================================================================
