--------------------------- MODULE FourWay_proofs ---------------------------
(***************************************************************************)
(* Theorems about FourWay, for every retry limit, every bound on the       *)
(* replay counter and every number of group keys:                          *)
(*   TypeCorrect          Spec => []TypeOK                                 *)
(*   InstalledOnce        Spec => []InstallOnce                            *)
(*   KeysAlwaysAgree      Spec => []KeysAgree                              *)
(*   FinishedNotTimedOut  Spec => FinishedStaysUp                          *)
(*   SettledHasGroupKey   Spec => []GroupKeyCurrent                        *)
(* The third and fourth follow from one inductive invariant, KeysInv,      *)
(* which says what each place of a thread guarantees about its frame,      *)
(* where the replay counters are, and which keys the messages on the air   *)
(* carry; the last from GroupInv, which adds what the messages and the     *)
(* answers with the present replay counter say of the group key.           *)
(***************************************************************************)
EXTENDS FourWay, TLAPS

USE FourWayAssumption

(***************************************************************************)
(* Types.  What an assignment to one field does to a record.               *)
(***************************************************************************)
LEMMA APSet ==
  ASSUME NEW a \in APType
  PROVE  /\ \A v \in Nat : [a EXCEPT !.ReplayCounter = v] \in APType
         /\ \A v \in Nat : [a EXCEPT !.ANonce = v] \in APType
         /\ \A v \in Nat : [a EXCEPT !.MsgRetryCounter = v] \in APType
         /\ \A v \in Key : [a EXCEPT !.PTK = v] \in APType
         /\ \A v \in Key : [a EXCEPT !.hw = v] \in APType
         /\ \A v \in APMessages : [a EXCEPT !.MsgType = v] \in APType
         /\ \A v \in WpaStates : [a EXCEPT !.WpaState = v] \in APType
         /\ \A v \in GTKStates : [a EXCEPT !.GTKState = v] \in APType
         /\ \A v \in BOOLEAN : [a EXCEPT !.deleted = v] \in APType
         /\ [a EXCEPT !.PortSecured = TRUE] \in APType
BY DEF APType

LEMMA APSets ==
  ASSUME NEW a \in APType
  PROVE  /\ [a EXCEPT !.ReplayCounter = 0, !.MsgRetryCounter = 0] \in APType
         /\ [a EXCEPT !.MsgRetryCounter = 0, !.GTKState = "NEGOTIATING"] \in APType
         /\ [a EXCEPT !.WpaState = "PTKSTART", !.GTKState = "NEGOTIATING"]
              \in APType
         /\ [a EXCEPT !.WpaState = "INITIALIZE", !.GTKState = "FAILURE"]
              \in APType
BY DEF APType, WpaStates, GTKStates

LEMMA APGet ==
  ASSUME NEW a \in APType
  PROVE  /\ a.ReplayCounter \in Nat /\ a.ANonce \in Nat
         /\ a.MsgRetryCounter \in Nat
         /\ a.PTK \in Key /\ a.hw \in Key /\ a.MsgType \in APMessages
BY DEF APType

LEMMA StaGet ==
  ASSUME NEW s \in StaType
  PROVE  /\ s.ReplayCounter \in Nat /\ s.ANonce \in Nat /\ s.SNonce \in Nat
         /\ s.PTK \in Key /\ s.hw \in Key /\ s.gtk \in Nat
         /\ s.AllowInsPTK \in BOOLEAN
BY DEF StaType

LEMMA StaSet ==
  ASSUME NEW s \in StaType, NEW rc \in Nat, NEW n \in Nat, NEW k \in Key
  PROVE  /\ [s EXCEPT !.ReplayCounter = rc, !.gtk = n] \in StaType
         /\ [s EXCEPT !.hw = k, !.AllowInsPTK = FALSE] \in StaType
         /\ \A m \in Nat :
              [s EXCEPT !.ReplayCounter = rc, !.ANonce = m, !.SNonce = n,
                        !.AllowInsPTK = TRUE, !.PTK = k] \in StaType
BY DEF StaType

LEMMA StaSecured ==
  ASSUME NEW s \in StaType
  PROVE  [s EXCEPT !.PortSecured = TRUE] \in StaType
BY DEF StaType

LEMMA FrameIn ==
  ASSUME NEW t \in Messages, NEW rc \in Nat, NEW n \in Nat, NEW k \in Key,
         NEW g \in Nat
  PROVE  Frame(t, rc, n, k, g) \in Frames
BY DEF Frame, Frames

LEMMA FrameSet ==
  ASSUME NEW f \in Frames
  PROVE  /\ \A t \in Messages : [f EXCEPT !.t = t] \in Frames
         /\ \A n \in Nat : [f EXCEPT !.rc = n] \in Frames
         /\ f.t \in Messages /\ f.rc \in Nat /\ f.n \in Nat /\ f.k \in Key
         /\ f.g \in Nat
BY DEF Frames

LEMMA NoFrameIn == NoFrame \in Frames /\ NoKey \in Key
<1>1. NoKey \in Key
  BY DEF NoKey, Key
<1> QED
  BY <1>1, FrameIn DEF NoFrame, Messages, APMessages

LEMMA HistSet ==
  ASSUME NEW h \in HistType, NEW b \in BOOLEAN
  PROVE  /\ [h EXCEPT !.raced = b] \in HistType
         /\ [h EXCEPT !.crossed = b] \in HistType
         /\ [h EXCEPT !.nomem = b] \in HistType
         /\ [h EXCEPT !.again = b] \in HistType
BY DEF HistType

LEMMA RetrySet ==
  ASSUME NEW r \in RetryType, NEW n \in Nat
  PROVE  /\ [r EXCEPT !.armed = TRUE] \in RetryType
         /\ [r EXCEPT !.queued = n] \in RetryType
         /\ [armed |-> FALSE, queued |-> n] \in RetryType
         /\ r.queued \in Nat
BY DEF RetryType

LEMMA InitTypes == Init => TypeOK
BY DEF Init, TypeOK, APType, StaType, RetryType, GroupType, HistType, Frames,
       NoFrame, Frame, Messages, APMessages, NoKey, Key, Threads, Places,
       WpaStates, GTKStates

LEMMA SentIn ==
  ASSUME NEW ch \in Seq(Frames), NEW g \in Frames
  PROVE  Sent(ch, g) \subseteq Seq(Frames)
BY DEF Sent

\* A thread that builds a message knows which; TypeOK is not inductive
\* without this.
Builds == {"check", "read", "write", "nonce", "install", "mark", "make",
           "send", "arm", "state"}
BuildOK == \A t \in Threads : pc[t] \in Builds => buf[t].t \in APMessages
TInv == TypeOK /\ BuildOK

LEMMA BuildTypes ==
  ASSUME TInv, NEW t \in Threads, Building(t)
  PROVE  TInv'
<1> DEFINE f == buf[t]
<1>0. /\ f \in Frames /\ f.rc \in Nat /\ ap \in APType /\ f.t \in Messages
      /\ pc[t] \in Builds => f.t \in APMessages
  BY FrameSet DEF TInv, TypeOK, BuildOK
<1> USE NoFrameIn DEF TInv, TypeOK, BuildOK, Goto, SetAp, Done, Builds, Places
<1>1. CASE BuildCheck(t)
  <2>1. TypeOK'
    BY <1>1, <1>0, NoFrameIn DEF BuildCheck
  <2>2. BuildOK'
    BY <1>1, <1>0 DEF BuildCheck
  <2> QED
    BY <2>1, <2>2
<1>2. CASE BuildRead(t)
  <2> DEFINE n == ap.ReplayCounter + 1
             g == [f EXCEPT !.rc = n]
  <2>0. n \in Nat
    BY <1>0, APGet
  <2>1. g \in Frames
    <3> HIDE DEF n
    <3> QED
      BY <1>0, <2>0, FrameSet
  <2>6. g.t = f.t
    BY <1>0 DEF Frames
  <2>2. \/ buf' = [buf EXCEPT ![t] = g] /\ pc' = [pc EXCEPT ![t] = "write"]
        \/ buf' = [buf EXCEPT ![t] = NoFrame] /\ pc' = [pc EXCEPT ![t] = "idle"]
    BY <1>2 DEF BuildRead
  <2>3. hist' \in HistType
    BY <1>2, HistSet DEF BuildRead, HasMemory, OutOfMemory
  <2> HIDE DEF g
  <2>4. TypeOK'
    BY <1>2, <1>0, <2>1, <2>2, <2>3 DEF BuildRead
  <2>5. BuildOK'
    BY <1>2, <1>0, <2>6, <2>2 DEF BuildRead
  <2> QED
    BY <2>4, <2>5
<1>3. CASE BuildWrite(t)
  <2>1. TypeOK'
    BY <1>3, <1>0, APSet DEF BuildWrite
  <2>2. BuildOK'
    BY <1>3, <1>0 DEF BuildWrite
  <2> QED
    BY <2>1, <2>2
<1>4. CASE BuildNonce(t)
  <2> DEFINE n == ap.ANonce + 1
  <2>0. n \in Nat
    BY <1>0, APGet
  <2>5. ap' = [ap EXCEPT !.ANonce = n]
    BY <1>4 DEF BuildNonce
  <2> HIDE DEF n
  <2>1. ap' \in APType
    BY <2>0, <2>5, <1>0, APSet
  <2>2. hist' \in HistType
    BY <1>4, HistSet DEF BuildNonce, HasMemory, OutOfMemory
  <2>3. TypeOK'
    BY <1>4, <1>0, <2>1, <2>2 DEF BuildNonce
  <2>4. BuildOK'
    BY <1>4, <1>0 DEF BuildNonce
  <2> QED
    BY <2>3, <2>4
<1>5. CASE BuildInstall(t)
  <2>1. TypeOK'
    BY <1>5, <1>0, APGet, APSet DEF BuildInstall
  <2>2. BuildOK'
    BY <1>5, <1>0 DEF BuildInstall
  <2> QED
    BY <2>1, <2>2
<1>6. CASE BuildMark(t)
  <2>1. TypeOK'
    BY <1>6, <1>0, APSet DEF BuildMark
  <2>2. BuildOK'
    BY <1>6, <1>0 DEF BuildMark
  <2> QED
    BY <2>1, <2>2
<1>7. CASE BuildMake(t)
  <2>1. WPAConstructEapolMsg(f.t) \in Frames
    BY <1>0, APGet, FrameIn DEF WPAConstructEapolMsg, Messages, GroupType
  <2>2. WPAConstructEapolMsg(f.t).t = f.t
    BY DEF WPAConstructEapolMsg, Frame
  <2>3. buf' = [buf EXCEPT ![t] = WPAConstructEapolMsg(f.t)]
    BY <1>7 DEF BuildMake
  <2>4. TypeOK'
    BY <1>7, <2>1, <2>3 DEF BuildMake
  <2>5. BuildOK'
    BY <1>7, <1>0, <2>2, <2>3 DEF BuildMake
  <2> QED
    BY <2>4, <2>5
<1>8. CASE BuildSend(t)
  <2>0. f \in Frames /\ toSta \in Seq(Frames) /\ toSta' \in Sent(toSta, f)
    BY <1>8, <1>0 DEF BuildSend
  <2>3. toSta' \in Seq(Frames)
    BY <2>0, SentIn
  <2>1. TypeOK'
    BY <1>8, <1>0, <2>3 DEF BuildSend
  <2>2. BuildOK'
    BY <1>8, <1>0 DEF BuildSend
  <2> QED
    BY <2>1, <2>2
<1>9. CASE BuildArm(t)
  <2>1. TypeOK'
    BY <1>9, <1>0, RetrySet, NoFrameIn DEF BuildArm, Armed
  <2>2. BuildOK'
    BY <1>9, <1>0 DEF BuildArm
  <2> QED
    BY <2>1, <2>2
<1>10. CASE BuildState(t)
  <2>1. TypeOK'
    BY <1>10, <1>0, APSets, NoFrameIn DEF BuildState
  <2>2. BuildOK'
    BY <1>10, <1>0 DEF BuildState
  <2> QED
    BY <2>1, <2>2
<1> QED
  BY <1>1, <1>2, <1>3, <1>4, <1>5, <1>6, <1>7, <1>8, <1>9, <1>10 DEF Building

LEMMA RacedType ==
  ASSUME hist \in HistType, NEW x, Raced(x)
  PROVE  hist' \in HistType
<1> DEFINE b == hist.raced \/ pc[x] \notin Resting
<1>1. b \in BOOLEAN
  OBVIOUS
<1>2. hist' = [hist EXCEPT !.raced = b]
  BY DEF Raced
<1> HIDE DEF b
<1> QED
  BY <1>1, <1>2, HistSet

\* The steps of the MLME thread between two messages it builds.
LEMMA MlmeTypes ==
  ASSUME TInv, Mlme, ~Building("mlme")
  PROVE  TInv'
<1> DEFINE f == buf["mlme"]
<1>0. /\ f \in Frames /\ f.n \in Nat /\ ap \in APType /\ ap.ANonce \in Nat
  BY FrameSet, APGet DEF TInv, TypeOK, Threads
<1> USE NoFrameIn DEF TInv, TypeOK, BuildOK, Goto, SetAp, Done, Builds, Places,
                      Threads
<1>1. CASE WpaEAPOLStartAction
  <2>1. [NoFrame EXCEPT !.t = "m1"] \in Frames
    BY FrameSet DEF Messages, APMessages
  <2>2. [NoFrame EXCEPT !.t = "m1"].t \in APMessages
    BY DEF APMessages, NoFrame, Frame
  <2> DEFINE g == [NoFrame EXCEPT !.t = "m1"]
  <2>3. TypeOK'
    BY <1>1, <1>0, <2>1, APSets DEF WpaEAPOLStartAction, Build
  <2>4. BuildOK'
    BY <1>1, <1>0, <2>2 DEF WpaEAPOLStartAction, Build
  <2> QED
    BY <2>3, <2>4
<1>2. ASSUME NEW m, NEW S, NEW p \in Places \ Builds, Take(m, S, p)
      PROVE  TInv'
  <2>1. Head(toAp) \in Frames /\ Tail(toAp) \in Seq(Frames)
    BY <1>2 DEF Take
  <2>2. hist' \in HistType
    BY <1>2, RacedType DEF Take
  <2>3. TypeOK'
    BY <1>2, <2>1, <2>2 DEF Take
  <2>4. BuildOK'
    BY <1>2 DEF Take
  <2> QED
    BY <2>3, <2>4
<1>3. CASE PeerPairMsg2Action \/ PeerPairMsg4Action \/ PeerGroupMsg2Action
  BY <1>2, <1>3 DEF PeerPairMsg2Action, PeerPairMsg4Action, PeerGroupMsg2Action
<1>4. CASE M2Derive
  <2>1. <<ap.ANonce, f.n>> \in Key
    BY <1>0 DEF Key
  <2>2. TypeOK'
    BY <1>4, <1>0, <2>1, APSet DEF M2Derive
  <2>3. BuildOK'
    BY <1>4 DEF M2Derive
  <2> QED
    BY <2>2, <2>3
<1>5. ASSUME NEW h, NEW p \in Places \ Builds, Sanity(h, p)
      PROVE  TInv'
  <2>1. hist' \in HistType
    BY <1>5, HistSet DEF Sanity, HasMemory, OutOfMemory
  <2>2. TypeOK'
    BY <1>5, <2>1 DEF Sanity
  <2>3. BuildOK'
    BY <1>5 DEF Sanity
  <2> QED
    BY <2>2, <2>3
<1>6. CASE M2Sanity \/ M4Sanity \/ G2Sanity
  BY <1>5, <1>6 DEF M2Sanity, M4Sanity, G2Sanity
<1>7. ASSUME NEW h, NEW p \in Places \ Builds, CancelThen(h, p)
      PROVE  TInv'
  <2>1. retry' \in RetryType
    BY <1>7, RetrySet DEF CancelThen, RTMPCancelTimer, RetryType
  <2>2. TypeOK'
    BY <1>7, <2>1 DEF CancelThen
  <2>3. BuildOK'
    BY <1>7 DEF CancelThen
  <2> QED
    BY <2>2, <2>3
<1>8. CASE M2Cancel \/ M4Cancel \/ G2Cancel
  BY <1>7, <1>8 DEF M2Cancel, M4Cancel, G2Cancel
<1>9. CASE M2Reset
  <2>1. TypeOK'
    BY <1>9, <1>0, APSet DEF M2Reset
  <2>2. BuildOK'
    BY <1>9 DEF M2Reset
  <2> QED
    BY <2>1, <2>2
<1>10. CASE M2State
  <2>1. [NoFrame EXCEPT !.t = "m3"] \in Frames
    BY FrameSet DEF Messages, APMessages
  <2>2. [NoFrame EXCEPT !.t = "m3"].t \in APMessages
    BY DEF APMessages, NoFrame, Frame
  <2>3. TypeOK'
    BY <1>10, <1>0, <2>1, APSet DEF M2State, Build, WpaStates
  <2>4. BuildOK'
    BY <1>10, <2>2 DEF M2State, Build
  <2> QED
    BY <2>3, <2>4
<1>11. CASE M4State
  <2>1. TypeOK'
    BY <1>11, <1>0, APSet DEF M4State, WpaStates
  <2>2. BuildOK'
    BY <1>11 DEF M4State
  <2> QED
    BY <2>1, <2>2
<1>13. CASE M4Group
  <2>1. TypeOK'
    BY <1>13, <1>0, APSet DEF M4Group, GTKStates
  <2>2. BuildOK'
    BY <1>13 DEF M4Group
  <2> QED
    BY <2>1, <2>2
<1>14. CASE M4Open
  <2>1. TypeOK'
    BY <1>14, <1>0, APSet DEF M4Open
  <2>2. BuildOK'
    BY <1>14 DEF M4Open
  <2> QED
    BY <2>1, <2>2
<1>12. CASE G2Done
  <2>1. TypeOK'
    BY <1>12, <1>0, APSet DEF G2Done, GTKStates
  <2>2. BuildOK'
    BY <1>12 DEF G2Done
  <2> QED
    BY <2>1, <2>2
<1> QED
  BY <1>1, <1>3, <1>4, <1>6, <1>8, <1>9, <1>10, <1>11, <1>12, <1>13, <1>14
     DEF Mlme

\* Those of the timer thread and of the timers.
\* What the access point's steps may do to the history.
HistMoves ==
  \E b \in BOOLEAN : \/ hist' = [hist EXCEPT !.nomem = b]
                     \/ hist' = [hist EXCEPT !.raced = b]
                     \/ hist' = [hist EXCEPT !.crossed = b]

LEMMA TwoWayHist ==
  ASSUME WPAStartFor2WayExec
  PROVE  HistMoves
<1>1. ASSUME NEW b \in BOOLEAN, hist' = [hist EXCEPT !.crossed = b]
      PROVE HistMoves
  BY <1>1 DEF HistMoves
<1>2. (hist.crossed \/ pc["mlme"] # "idle") \in BOOLEAN
  OBVIOUS
<1>3. CASE Crossed("mlme")
  BY <1>1, <1>2, <1>3 DEF Crossed
<1>4. CASE OutOfMemory
  BY <1>4 DEF OutOfMemory, HistMoves
<1> QED
  BY <1>3, <1>4 DEF WPAStartFor2WayExec

LEMMA TimerTypes ==
  ASSUME TInv, Timer \/ GroupRekeyExec \/ RetryFires, ~Building("timer")
  PROVE  TInv'
<1>0. ap \in APType /\ retry \in RetryType /\ retry.queued \in Nat
  BY RetrySet DEF TInv, TypeOK
<1> USE NoFrameIn DEF TInv, TypeOK, BuildOK, Goto, SetAp, Done, Builds, Places,
                      Threads
<1>1. CASE WPAStartFor4WayExec
  <2>1. start' \in {"armed", "queued", "done"} /\ hist' \in HistType
    BY <1>1, HistSet DEF WPAStartFor4WayExec, HasMemory, OutOfMemory
  <2> QED
    BY <1>1, <2>1 DEF WPAStartFor4WayExec
<1>2. CASE WPAStartFor2WayExec
  <2>1. [NoFrame EXCEPT !.t = "g1"] \in Frames
    BY FrameSet DEF Messages, APMessages
  <2>2. [NoFrame EXCEPT !.t = "g1"].t \in APMessages
    BY DEF APMessages, NoFrame, Frame
  <2>3. group' \in GroupType
    BY <1>2 DEF WPAStartFor2WayExec, GroupType
  <2>6. hist' \in HistType
    BY <1>2, TwoWayHist, HistSet DEF HistMoves
  <2>7. CASE UNCHANGED <<ap, pc, buf>>
    BY <1>2, <2>3, <2>6, <2>7 DEF WPAStartFor2WayExec
  <2>8. CASE ~UNCHANGED <<ap, pc, buf>>
    <3>1. /\ ap' = [ap EXCEPT !.MsgRetryCounter = 0, !.GTKState = "NEGOTIATING"]
          /\ Build("timer", "g1") /\ UNCHANGED <<retry, start, sta, toSta, toAp>>
      BY <1>2, <2>8 DEF WPAStartFor2WayExec
    <3> QED
      BY <3>1, <1>0, <2>1, <2>2, <2>3, <2>6, APSets DEF Build
  <2> QED
    BY <2>7, <2>8
<1>3. CASE GroupRekeyExec
  <2>1. group' \in GroupType
    <3> DEFINE n == group.gtk + 1
               k == group.left - 1
    <3>1. n \in Nat /\ k \in Nat
      BY <1>3 DEF GroupRekeyExec, GroupType
    <3>2. group' = [group EXCEPT !.gtk = n, !.left = k]
      BY <1>3 DEF GroupRekeyExec
    <3> HIDE DEF n, k
    <3> QED
      BY <3>1, <3>2 DEF GroupType
  <2>2. TypeOK'
    BY <1>3, <2>1 DEF GroupRekeyExec
  <2>3. BuildOK'
    BY <1>3 DEF GroupRekeyExec
  <2> QED
    BY <2>2, <2>3
<1>11. CASE RekeyStation
  <2> DEFINE a == group.armed \/ ap.WpaState = "PTKINITDONE"
             b == hist.crossed \/ ShakingHands
  <2>1. a \in BOOLEAN /\ b \in BOOLEAN
    OBVIOUS
  <2>2. /\ group' = [group EXCEPT !.armed = a]
        /\ hist' = [hist EXCEPT !.crossed = b]
    BY <1>11 DEF RekeyStation
  <2> HIDE DEF a, b
  <2>3. hist' \in HistType /\ group' \in GroupType
    BY <2>1, <2>2, HistSet DEF GroupType
  <2>4. TypeOK'
    BY <1>11, <2>3 DEF RekeyStation
  <2>5. BuildOK'
    BY <1>11 DEF RekeyStation
  <2> QED
    BY <2>4, <2>5
<1>4. CASE RetryFires
  <2>1. retry' \in RetryType
    <3> DEFINE n == retry.queued + 1
    <3>1. /\ n \in Nat
          /\ \/ retry' = [armed |-> FALSE, queued |-> n]
             \/ retry' = [retry EXCEPT !.armed = FALSE]
      BY <1>4, <1>0 DEF RetryFires
    <3> HIDE DEF n
    <3> QED
      BY <3>1, <1>0, RetrySet DEF RetryType
  <2>2. hist' \in HistType
    BY <1>4, HistSet DEF RetryFires, HasMemory, OutOfMemory
  <2> QED
    BY <1>4, <2>1, <2>2 DEF RetryFires
<1>5. CASE WPAHandshakeMsgRetryExec
  <2>1. hist' \in HistType
    BY <1>5, RacedType DEF WPAHandshakeMsgRetryExec
  <2>2. retry' \in RetryType
    <3> DEFINE n == retry.queued - 1
    <3>1. n \in Nat /\ retry' = [retry EXCEPT !.queued = n]
      BY <1>5, <1>0 DEF WPAHandshakeMsgRetryExec
    <3> HIDE DEF n
    <3> QED
      BY <3>1, <1>0, RetrySet
  <2>3. TypeOK'
    BY <1>5, <2>1, <2>2 DEF WPAHandshakeMsgRetryExec
  <2>4. BuildOK'
    BY <1>5 DEF WPAHandshakeMsgRetryExec
  <2> QED
    BY <2>3, <2>4
<1>6. CASE RetryCount
  <2> DEFINE n == ap.MsgRetryCounter + 1
  <2>1. n \in Nat
    BY <1>0, APGet
  <2>2. ap' = [ap EXCEPT !.MsgRetryCounter = n]
    BY <1>6 DEF RetryCount
  <2> HIDE DEF n
  <2>5. ap' \in APType
    BY <1>0, <2>1, <2>2, APSet
  <2>3. TypeOK'
    BY <1>6, <2>5 DEF RetryCount
  <2>4. BuildOK'
    BY <1>6 DEF RetryCount
  <2> QED
    BY <2>3, <2>4
<1>7. CASE RetryAgain
  <2>1. ap.MsgType \in APMessages
    BY <1>0, APGet
  <2>2. [NoFrame EXCEPT !.t = ap.MsgType] \in Frames
    BY <2>1, FrameSet DEF Messages
  <2>3. [NoFrame EXCEPT !.t = ap.MsgType].t \in APMessages
    BY <2>1 DEF NoFrame, Frame
  <2>4. TypeOK'
    BY <1>7, <2>2 DEF RetryAgain, Build
  <2>5. BuildOK'
    BY <1>7, <2>3 DEF RetryAgain, Build
  <2> QED
    BY <2>4, <2>5
<1>8. CASE RetryGroupFails
  <2>1. TypeOK'
    BY <1>8, <1>0, APSet DEF RetryGroupFails, GTKStates
  <2>2. BuildOK'
    BY <1>8 DEF RetryGroupFails
  <2> QED
    BY <2>1, <2>2
<1>9. CASE RetryFails
  <2>1. TypeOK'
    BY <1>9, <1>0, APSets DEF RetryFails
  <2>2. BuildOK'
    BY <1>9 DEF RetryFails
  <2> QED
    BY <2>1, <2>2
<1>10. CASE MlmeDeAuthAction
  <2>1. hist' \in HistType /\ ap' \in APType
    BY <1>10, <1>0, HistSet, APSet DEF MlmeDeAuthAction, HasMemory, OutOfMemory
  <2>2. TypeOK'
    BY <1>10, <2>1 DEF MlmeDeAuthAction
  <2>3. BuildOK'
    BY <1>10 DEF MlmeDeAuthAction
  <2> QED
    BY <2>2, <2>3
<1> QED
  BY <1>1, <1>2, <1>3, <1>4, <1>5, <1>6, <1>7, <1>8, <1>9, <1>10, <1>11
     DEF Timer, Retry

\* What the AP client does with the frame at the head of its channel.
LEMMA InstalledType ==
  ASSUME NEW s \in StaType PROVE Installed(s) \in StaType
<1>1. s.PTK \in Key
  BY StaGet
<1> QED
  BY <1>1, StaSet DEF Installed

LEMMA SentType ==
  ASSUME TypeOK, NEW g \in Frames, toAp' \in Sent(toAp, g)
  PROVE  toAp' \in Seq(Frames)
BY SentIn DEF TypeOK

LEMMA StaTypes ==
  ASSUME TInv, Sta
  PROVE  TInv'
<1> DEFINE f == Head(toSta)
<1>0. toSta # <<>> /\ sta \in StaType /\ UNCHANGED <<ap, pc, buf, retry, start, group>>
      /\ toSta' = Tail(toSta)
  BY DEF Sta, StaMsg1, StaMsg3, StaGroupMsg1, Receive, TInv, TypeOK
<1>1. f \in Frames /\ toSta' \in Seq(Frames)
  BY <1>0 DEF TInv, TypeOK
<1>2. /\ f.rc \in Nat /\ f.n \in Nat /\ f.k \in Key /\ f.g \in Nat
      /\ sta.SNonce \in Nat /\ sta.PTK \in Key
  BY <1>0, <1>1, FrameSet, StaGet
<1> USE DEF Drop, Messages
<1> HIDE DEF f
<1>3. ASSUME StaMsg1
      PROVE  sta' \in StaType /\ toAp' \in Seq(Frames) /\ hist' \in HistType
  <2> DEFINE s == sta.SNonce + 1
             k == <<f.n, s>>
  <2>1. s \in Nat /\ k \in Key
    BY <1>2 DEF Key
  <2>2. CASE Drop
    BY <2>2 DEF TInv, TypeOK
  <2>3. CASE /\ sta' = [sta EXCEPT !.ReplayCounter = f.rc, !.ANonce = f.n,
                         !.SNonce = s, !.AllowInsPTK = TRUE, !.PTK = k]
             /\ toAp' \in Sent(toAp, Frame("m2", f.rc, s, sta'.PTK, 0))
             /\ UNCHANGED hist
    <3>1. sta' \in StaType
      <4> HIDE DEF s, k
      <4> QED
        BY <2>1, <2>3, <1>0, <1>2, StaSet
    <3>2. sta'.PTK \in Key
      BY <3>1, StaGet
    <3>3. Frame("m2", f.rc, s, sta'.PTK, 0) \in Frames
      BY <3>2, <2>1, <1>2, FrameIn
    <3>4. toAp' \in Seq(Frames)
      BY <2>3, <3>3, SentType DEF TInv
    <3> QED
      BY <2>3, <3>1, <3>4 DEF TInv, TypeOK
  <2> QED
    BY <1>3, <2>2, <2>3 DEF StaMsg1, f
<1>4. ASSUME StaMsg3
      PROVE  sta' \in StaType /\ toAp' \in Seq(Frames) /\ hist' \in HistType
  <2> DEFINE v == [sta EXCEPT !.ReplayCounter = f.rc, !.gtk = f.g]
             b == hist.again \/ (sta.AllowInsPTK /\ sta.PTK[2] <= sta.hw[2])
  <2>1. v \in StaType
    BY <1>0, <1>2, StaSet
  <2>2. [Installed(v) EXCEPT !.PortSecured = TRUE] \in StaType
    <3> HIDE DEF v
    <3>1. Installed(v) \in StaType
      BY <2>1, InstalledType
    <3> QED
      BY <3>1, StaSecured
  <2>3. b \in BOOLEAN
    OBVIOUS
  <2>4. Frame("m4", f.rc, 0, sta.PTK, 0) \in Frames
    BY <1>2, FrameIn
  <2>5. \/ Drop
        \/ sta' = v /\ UNCHANGED <<toAp, hist>>
        \/ sta' = v /\ OutOfMemory /\ UNCHANGED toAp
        \/ /\ sta' = [Installed(v) EXCEPT !.PortSecured = TRUE]
           /\ toAp' \in Sent(toAp, Frame("m4", f.rc, 0, sta.PTK, 0))
           /\ hist' = [hist EXCEPT !.again = b]
    BY <1>4 DEF StaMsg3, f
  <2> HIDE DEF v, b
  <2>6. hist' \in HistType
    BY <2>3, <2>5, HistSet DEF OutOfMemory, TInv, TypeOK
  <2>7. toAp' \in Seq(Frames)
    BY <2>4, <2>5, SentType DEF TInv, TypeOK
  <2>8. sta' \in StaType
    BY <2>1, <2>2, <2>5 DEF TInv, TypeOK
  <2> QED
    BY <2>6, <2>7, <2>8
<1>5. ASSUME StaGroupMsg1
      PROVE  sta' \in StaType /\ toAp' \in Seq(Frames) /\ hist' \in HistType
  <2>1. Frame("g2", f.rc, 0, sta.PTK, 0) \in Frames
    BY <1>2, FrameIn
  <2>2. [sta EXCEPT !.ReplayCounter = f.rc, !.gtk = f.g] \in StaType
    BY <1>0, <1>2, StaSet
  <2>3. \/ Drop
        \/ /\ sta' = [sta EXCEPT !.ReplayCounter = f.rc, !.gtk = f.g]
           /\ toAp' \in Sent(toAp, Frame("g2", f.rc, 0, sta.PTK, 0))
           /\ UNCHANGED hist
    BY <1>5 DEF StaGroupMsg1, f
  <2>4. toAp' \in Seq(Frames)
    BY <2>1, <2>3, SentType DEF TInv, TypeOK
  <2>5. sta' \in StaType
    BY <2>2, <2>3 DEF TInv, TypeOK
  <2> QED
    BY <2>3, <2>4, <2>5 DEF TInv, TypeOK
<1>6. sta' \in StaType /\ toAp' \in Seq(Frames) /\ hist' \in HistType
  BY <1>3, <1>4, <1>5 DEF Sta
<1> QED
  BY <1>0, <1>1, <1>6 DEF TInv, TypeOK, BuildOK

LEMMA NextTypes == TInv /\ [Next]_vars => TInv'
<1> SUFFICES ASSUME TInv, [Next]_vars PROVE TInv'
  OBVIOUS
<1>1. CASE UNCHANGED vars
  BY <1>1 DEF vars, TInv, TypeOK, BuildOK
<1> QED
  BY <1>1, BuildTypes, MlmeTypes, TimerTypes, StaTypes
     DEF Next, Mlme, Timer, Retry, Threads

\* Every variable keeps its type, for every limit and every bound.
THEOREM TypeCorrect == Spec => []TypeOK
<1>1. Init => TInv
  BY InitTypes DEF Init, TInv, BuildOK, Builds, Threads
<1>2. TInv => TypeOK
  BY DEF TInv
<1> QED
  BY <1>1, <1>2, NextTypes, PTL DEF Spec

-----------------------------------------------------------------------------
(***************************************************************************)
(* The client's pairwise key.  While AllowInsPTK is set, the key waiting   *)
(* to be installed is of the newest nonce and the one in hardware of an    *)
(* older one: message 1 sets both, and the installation clears the flag.   *)
(***************************************************************************)
OnceInv ==
  /\ TInv
  /\ sta.hw[2] <= sta.SNonce
  /\ sta.AllowInsPTK => sta.PTK[2] = sta.SNonce /\ sta.hw[2] < sta.SNonce
  /\ InstallOnce

\* The access point's steps leave the client alone.
LEMMA ApSteps ==
  ASSUME Mlme \/ Timer \/ GroupRekeyExec \/ RetryFires
  PROVE  UNCHANGED sta /\ (UNCHANGED hist \/ HistMoves)
<1>0. ASSUME OutOfMemory PROVE HistMoves
  BY <1>0 DEF OutOfMemory, HistMoves
<1>1. ASSUME NEW x, Raced(x) PROVE HistMoves
  <2> DEFINE b == hist.raced \/ pc[x] \notin Resting
  <2>1. b \in BOOLEAN
    OBVIOUS
  <2>2. hist' = [hist EXCEPT !.raced = b]
    BY <1>1 DEF Raced
  <2> HIDE DEF b
  <2> QED
    BY <2>1, <2>2 DEF HistMoves
<1>2. CASE Building("mlme") \/ Building("timer")
  BY <1>0, <1>2
     DEF Building, BuildCheck, BuildRead, BuildWrite, BuildNonce, BuildInstall,
         BuildMark, BuildMake, BuildSend, BuildArm, BuildState, HasMemory
<1>3. CASE Mlme /\ ~Building("mlme")
  BY <1>0, <1>1, <1>3
     DEF Mlme, WpaEAPOLStartAction, PeerPairMsg2Action, PeerPairMsg4Action,
         PeerGroupMsg2Action, Take, M2Derive, M2Sanity, M4Sanity, G2Sanity,
         Sanity, HasMemory, M2Cancel, M4Cancel, G2Cancel, CancelThen,
         M2Reset, M2State, M4State, M4Group, M4Open, G2Done
<1>7. CASE WPAStartFor2WayExec
  BY <1>7, TwoWayHist DEF HistMoves, WPAStartFor2WayExec
<1>4. CASE /\ Timer /\ ~Building("timer") /\ ~WPAStartFor2WayExec
           /\ ~RekeyStation
  BY <1>0, <1>1, <1>4
     DEF Timer, WPAStartFor4WayExec, Retry,
         WPAHandshakeMsgRetryExec, RetryCount, RetryAgain, RetryGroupFails,
         RetryFails, MlmeDeAuthAction, HasMemory
<1>5. CASE RekeyStation
  <2> DEFINE b == hist.crossed \/ ShakingHands
  <2>1. b \in BOOLEAN
    OBVIOUS
  <2>2. hist' = [hist EXCEPT !.crossed = b] /\ UNCHANGED sta
    BY <1>5 DEF RekeyStation
  <2> HIDE DEF b
  <2> QED
    BY <2>1, <2>2 DEF HistMoves
<1>6. CASE RetryFires \/ GroupRekeyExec
  BY <1>0, <1>6 DEF RetryFires, GroupRekeyExec, HasMemory
<1> QED
  BY <1>2, <1>3, <1>4, <1>5, <1>6, <1>7

LEMMA OnceStep == OnceInv /\ [Next]_vars => OnceInv'
<1> SUFFICES ASSUME OnceInv, [Next]_vars PROVE OnceInv'
  OBVIOUS
<1>0. TInv' /\ sta \in StaType /\ sta.hw[2] \in Nat /\ sta.SNonce \in Nat
  BY NextTypes, StaGet DEF OnceInv, TInv, TypeOK, Key
<1>1. CASE UNCHANGED <<sta, hist>>
  BY <1>0, <1>1 DEF OnceInv, InstallOnce
<1>2. CASE UNCHANGED sta /\ hist'.again = hist.again
  BY <1>0, <1>2 DEF OnceInv, InstallOnce
<1>3. CASE StaMsg1
  <2> DEFINE s == sta.SNonce + 1
             n == Head(toSta).n
             k == <<n, s>>
  <2>1. CASE Drop
    BY <2>1, <1>1 DEF Drop
  <2>2. CASE /\ sta' = [sta EXCEPT !.ReplayCounter = Head(toSta).rc, !.ANonce = n,
                         !.SNonce = s, !.AllowInsPTK = TRUE, !.PTK = k]
             /\ UNCHANGED hist
    <3>1. /\ sta'.hw = sta.hw /\ sta'.SNonce = s
          /\ sta'.PTK = k
      BY <2>2, <1>0 DEF StaType
    <3> QED
      BY <3>1, <2>2, <1>0 DEF OnceInv, InstallOnce
  <2> QED
    BY <1>3, <2>1, <2>2 DEF StaMsg1
<1>4. CASE StaMsg3
  <2> DEFINE v == [sta EXCEPT !.ReplayCounter = Head(toSta).rc, !.gtk = Head(toSta).g]
             b == hist.again \/ (sta.AllowInsPTK /\ sta.PTK[2] <= sta.hw[2])
  <2>1. /\ v.hw = sta.hw /\ v.SNonce = sta.SNonce /\ v.PTK = sta.PTK
        /\ v.AllowInsPTK = sta.AllowInsPTK
    BY <1>0 DEF StaType
  <2>3. \/ Drop
        \/ sta' = v /\ UNCHANGED hist
        \/ sta' = v /\ OutOfMemory
        \/ /\ sta' = [Installed(v) EXCEPT !.PortSecured = TRUE]
           /\ hist' = [hist EXCEPT !.again = b]
    BY <1>4 DEF StaMsg3
  <2>4. CASE Drop
    BY <2>4, <1>1 DEF Drop
  <2>5. CASE sta' = v /\ UNCHANGED hist
    BY <2>1, <2>5, <1>0 DEF OnceInv, InstallOnce
  <2>6. CASE sta' = v /\ OutOfMemory
    <3>1. hist'.again = hist.again
      BY <2>6 DEF OutOfMemory, OnceInv, TInv, TypeOK, HistType
    <3> QED
      BY <2>1, <2>6, <3>1, <1>0 DEF OnceInv, InstallOnce
  <2>7. CASE /\ sta' = [Installed(v) EXCEPT !.PortSecured = TRUE]
             /\ hist' = [hist EXCEPT !.again = b]
    <3>1. ~b
      BY <1>0 DEF OnceInv, InstallOnce
    <3>2. ~hist'.again
      BY <3>1, <2>7 DEF OnceInv, TInv, TypeOK, HistType
    <3>3. /\ sta'.SNonce = sta.SNonce /\ sta'.PTK = sta.PTK
          /\ sta'.AllowInsPTK = FALSE
          /\ sta'.hw = IF sta.AllowInsPTK THEN sta.PTK ELSE sta.hw
      BY <2>7, <1>0 DEF Installed, StaType
    <3> QED
      BY <3>2, <3>3, <1>0 DEF OnceInv, InstallOnce
  <2> QED
    BY <2>3, <2>4, <2>5, <2>6, <2>7
<1>5. CASE StaGroupMsg1
  <2>1. CASE Drop
    BY <2>1, <1>1 DEF Drop
  <2>2. CASE /\ sta' = [sta EXCEPT !.ReplayCounter = Head(toSta).rc,
                                   !.gtk = Head(toSta).g]
             /\ UNCHANGED hist
    <3>1. /\ sta'.hw = sta.hw /\ sta'.SNonce = sta.SNonce
          /\ sta'.PTK = sta.PTK /\ sta'.AllowInsPTK = sta.AllowInsPTK
      BY <2>2, <1>0 DEF StaType
    <3> QED
      BY <3>1, <2>2, <1>0 DEF OnceInv, InstallOnce
  <2> QED
    BY <1>5, <2>1, <2>2 DEF StaGroupMsg1
<1>6. CASE ~Sta
  <2>1. UNCHANGED sta /\ (UNCHANGED hist \/ HistMoves)
    BY <1>6, ApSteps DEF Next, vars
  <2>2. hist'.again = hist.again
    BY <2>1 DEF HistMoves, OnceInv, TInv, TypeOK, HistType
  <2> QED
    BY <2>1, <2>2, <1>2
<1> QED
  BY <1>1, <1>2, <1>3, <1>4, <1>5, <1>6 DEF Sta

\* The client installs no pairwise key twice, whatever is lost or repeated
\* and whatever the access point's threads do.
THEOREM InstalledOnce == Spec => []InstallOnce
<1>1. Init => OnceInv
  BY InitTypes
    DEF Init, OnceInv, TInv, BuildOK, Builds, Threads, InstallOnce, NoKey
<1>2. OnceInv => InstallOnce
  BY DEF OnceInv
<1> QED
  BY <1>1, <1>2, OnceStep, PTL DEF Spec

-----------------------------------------------------------------------------
(***************************************************************************)
(* The keys at both ends, as long as the two threads have not been in the  *)
(* handshake at once.  What each place of a thread says about its frame:   *)
(***************************************************************************)
PlaceOK ==
  \A t \in Threads :
    /\ pc[t] \in {"check", "nonce", "state"} => buf[t].t = "m1"
    /\ pc[t] = "install" => buf[t].t = "m3"
    /\ pc[t] = "m4sanity" => buf[t].t = "m4"
    /\ t = "mlme" => pc[t] # "rekey"

\* Before the handshake is begun everything is as after the association.
Begun ==
  start # "done" =>
    /\ ~ap.PortSecured /\ pc["mlme"] = "idle" /\ pc["timer"] \in Resting
    /\ ~retry.armed /\ retry.queued = 0
    /\ toSta = <<>> /\ toAp = <<>>
    /\ sta.ReplayCounter = 0

\* The client has the key it last agreed to in hardware, or will install it
\* with the next message 3; a message 4 on its way, or in the MLME thread's
\* hands, carries that key if nothing came after it.
InMlme(f) == pc["mlme"] = "m4sanity" /\ f = buf["mlme"]
OnAir(f, ch) == \E i \in 1 .. Len(ch) : f = ch[i]
Message4(f) == f.t = "m4" /\ (OnAir(f, toAp) \/ InMlme(f))
ClientOK ==
  /\ ~sta.AllowInsPTK => sta.hw = sta.PTK
  /\ \A f \in Frames :
       Message4(f) => /\ f.rc <= sta.ReplayCounter
                      /\ f.rc = sta.ReplayCounter => f.k = sta.hw

\* While a message is being built its replay counter is ahead of all others;
\* a message 3 or 4 with the present one carries the key in hardware.
Fresh == \E t \in Threads : pc[t] \in {"nonce", "install", "mark", "make", "send"}
Behind(n) == IF Fresh THEN n < ap.ReplayCounter ELSE n <= ap.ReplayCounter
CounterOK ==
  /\ Behind(sta.ReplayCounter)
  /\ \A f \in Frames : OnAir(f, toSta) => Behind(f.rc)
  /\ \A t \in Threads : pc[t] = "write" => buf[t].rc = ap.ReplayCounter + 1
KeyOK ==
  /\ \A f \in Frames :
       (f.t = "m3" /\ OnAir(f, toSta)) \/ Message4(f) =>
          (f.rc = ap.ReplayCounter => f.k = ap.hw)
  /\ \A t \in Threads : /\ pc[t] \in {"mark", "make"} /\ buf[t].t = "m3"
                             => ap.hw = ap.PTK
                        /\ pc[t] = "send" =>
                             /\ buf[t].rc = ap.ReplayCounter
                             /\ buf[t].t = "m3" => buf[t].k = ap.hw

\* Until the port opens one thread is at rest, and one retry at most is due.
Quiet == ~retry.armed /\ retry.queued = 0
Opening == {"m4state", "m4group", "m4open"}
Alone == {"m2reset", "m2state"} \cup Opening \cup (Builds \ {"state"})
AloneOK ==
  ~ap.PortSecured =>
    /\ pc["mlme"] = "idle" \/ pc["timer"] \in Resting
    /\ retry.queued = 0 \/ (retry.queued = 1 /\ ~retry.armed)
    /\ pc["mlme"] \in Alone => Quiet
    /\ pc["timer"] \in Alone \cup {"count", "again"} => Quiet

\* From the acceptance of message 4 on, the keys agree and no message 3 is
\* left that the client would take; when the port is open, what the timer
\* thread does is the group handshake.
Agreed ==
  /\ ap.hw = sta.hw
  /\ \A f \in Frames : f.t = "m3" /\ OnAir(f, toSta) => f.rc <= sta.ReplayCounter
OpenOK ==
  /\ pc["mlme"] \in {"m4cancel"} \cup Opening => Agreed
  /\ pc["mlme"] \in {"m4group", "m4open"} => ap.WpaState = "PTKINITDONE"
  /\ ap.PortSecured =>
       /\ Agreed
       /\ ap.WpaState = "PTKINITDONE"
       /\ pc["mlme"] \in {"idle", "g2sanity", "g2cancel", "g2done"}
       /\ pc["timer"] # "deauth"
       /\ pc["timer"] \in Builds => buf["timer"].t = "g1"
       /\ pc["timer"] \in {"make", "send", "arm", "count", "again"} \/ ~Quiet
            => ap.MsgType = "g1"

\* The state is written before the port.
StateOK ==
  ap.WpaState = "PTKINITDONE" =>
    ap.PortSecured \/ pc["mlme"] \in {"m4group", "m4open"}

KeysInv ==
  /\ TInv /\ PlaceOK /\ Begun /\ ClientOK
  /\ StateOK
  /\ ~hist.raced => CounterOK /\ KeyOK /\ AloneOK /\ OpenOK

\* A frame on a channel that got one more, or lost its first.
LEMMA OnSent ==
  ASSUME NEW ch \in Seq(Frames), NEW g \in Frames, NEW new, new \in Sent(ch, g),
         NEW f, OnAir(f, new)
  PROVE  OnAir(f, ch) \/ f = g
BY DEF Sent, OnAir

LEMMA OnTail ==
  ASSUME NEW ch \in Seq(Frames), ch # <<>>
  PROVE  /\ OnAir(Head(ch), ch)
         /\ \A f : OnAir(f, Tail(ch)) => OnAir(f, ch)
BY DEF OnAir

\* Building a message: a replay counter is on the air only after it is
\* written, and a message 3 only after its key is installed.
LEMMA KeysBuild ==
  ASSUME KeysInv, TInv', NEW t \in Threads, Building(t)
  PROVE  KeysInv'
<1>0. /\ ap \in APType /\ retry \in RetryType /\ hist \in HistType
      /\ pc \in [Threads -> Places] /\ buf \in [Threads -> Frames]
      /\ toSta \in Seq(Frames) /\ ap.ReplayCounter \in Nat
      /\ sta.ReplayCounter \in Nat /\ \A f \in Frames : f.rc \in Nat
  BY APGet, StaGet, FrameSet DEF KeysInv, TInv, TypeOK
<1> USE DEF KeysInv, PlaceOK, Begun, ClientOK, CounterOK, Behind, Fresh, KeyOK,
            Message4, InMlme, AloneOK, Alone, Builds, Quiet, OpenOK, Agreed,
            Threads, StateOK, Opening, Resting
<1>1. CASE BuildCheck(t)
  <2>1. /\ pc[t] = "check" /\ pc'[t] \in {"read", "idle"}
        /\ pc'[t] = "read" => buf'[t] = buf[t]
        /\ \A o \in Threads \ {t} : pc'[o] = pc[o] /\ buf'[o] = buf[o]
        /\ UNCHANGED <<ap, retry>>
        /\ UNCHANGED <<start, sta, toSta, toAp>> /\ hist'.raced = hist.raced
    BY <1>1, <1>0 DEF BuildCheck, Goto, Done
  <2> QED
    BY <1>0, <2>1
<1>2. CASE BuildRead(t)
  <2> DEFINE n == ap.ReplayCounter + 1
             g == [buf[t] EXCEPT !.rc = n]
  <2>1. g.rc = n /\ g.t = buf[t].t
    BY <1>0 DEF Frames
  <2>2. /\ pc[t] = "read" /\ UNCHANGED <<ap, retry, start, sta, toSta, toAp>>
        /\ \/ /\ buf' = [buf EXCEPT ![t] = g]
              /\ pc' = [pc EXCEPT ![t] = "write"]
           \/ /\ buf' = [buf EXCEPT ![t] = NoFrame]
              /\ pc' = [pc EXCEPT ![t] = "idle"]
    BY <1>2 DEF BuildRead, Goto, Done
  <2>3. hist'.raced = hist.raced
    BY <1>2, <1>0 DEF BuildRead, HasMemory, OutOfMemory, HistType
  <2> HIDE DEF g
  <2>4. /\ pc'[t] \in {"write", "idle"}
        /\ pc'[t] = "write" => buf'[t].rc = n /\ buf'[t].t = buf[t].t
        /\ \A o \in Threads \ {t} : pc'[o] = pc[o] /\ buf'[o] = buf[o]
    BY <2>1, <2>2, <1>0
  <2> QED
    BY <1>0, <2>2, <2>3, <2>4
<1>3. CASE BuildWrite(t)
  <2>1. /\ pc[t] = "write"
        /\ \/ pc'[t] = "nonce" /\ buf[t].t = "m1"
           \/ pc'[t] = "install" /\ buf[t].t = "m3"
           \/ pc'[t] = "mark" /\ buf[t].t \notin {"m1", "m3"}
        /\ \A o \in Threads \ {t} : pc'[o] = pc[o] /\ buf'[o] = buf[o]
        /\ buf' = buf
        /\ ap'.WpaState = ap.WpaState /\ ap'.ReplayCounter = buf[t].rc
        /\ ap'.PTK = ap.PTK /\ ap'.MsgType = ap.MsgType
        /\ ap'.hw = ap.hw /\ ap'.PortSecured = ap.PortSecured
        /\ UNCHANGED retry
        /\ UNCHANGED <<start, sta, toSta, toAp>> /\ hist'.raced = hist.raced
    BY <1>3, <1>0 DEF BuildWrite, Goto, SetAp, APType
  <2>2. PlaceOK' /\ Begun' /\ ClientOK'
    BY <1>0, <2>1
  <2>3. ASSUME ~hist.raced PROVE CounterOK'
    <3>0. AloneOK /\ OpenOK /\ pc[t] = "write"
      BY <2>1, <2>3
    <3>3. \A u \in Threads : pc'[u] # "write"
      <4> HIDE DEF Message4, PlaceOK, Begun, ClientOK, KeyOK, CounterOK
      <4> QED
        BY <2>1, <3>0
    <3> HIDE DEF Message4, PlaceOK, Begun, ClientOK, KeyOK, AloneOK, OpenOK
    <3>1. CounterOK /\ buf[t].rc = ap.ReplayCounter + 1
      BY <1>3, <2>3 DEF BuildWrite
    <3>2. ASSUME NEW n \in Nat, Behind(n) PROVE Behind(n)'
      BY <1>0, <2>1, <3>1, <3>2
    <3> HIDE DEF Fresh, Behind
    <3> QED
      BY <1>0, <2>1, <3>1, <3>2, <3>3
  <2>4. ASSUME ~hist.raced PROVE KeyOK'
    BY <1>0, <2>1, <2>3, <2>4
  <2>5. ASSUME ~hist.raced PROVE AloneOK' /\ OpenOK'
    BY <1>0, <2>1, <2>5
  <2> QED
    BY <1>0, <2>1, <2>2, <2>3, <2>4, <2>5
<1>4. CASE BuildNonce(t)
  <2>1. /\ pc[t] = "nonce" /\ pc'[t] \in {"mark", "idle"}
        /\ pc'[t] = "mark" => buf'[t] = buf[t]
        /\ \A o \in Threads \ {t} : pc'[o] = pc[o] /\ buf'[o] = buf[o]
        /\ ap'.WpaState = ap.WpaState /\ ap'.ReplayCounter = ap.ReplayCounter
        /\ ap'.PTK = ap.PTK /\ ap'.MsgType = ap.MsgType
        /\ ap'.hw = ap.hw /\ ap'.PortSecured = ap.PortSecured
        /\ UNCHANGED retry
        /\ UNCHANGED <<start, sta, toSta, toAp>> /\ hist'.raced = hist.raced
    BY <1>4, <1>0
      DEF BuildNonce, Goto, Done, SetAp, HasMemory, OutOfMemory, APType,
        HistType
  <2> QED
    BY <1>0, <2>1
<1>5. CASE BuildInstall(t)
  <2>1. /\ pc[t] = "install" /\ pc'[t] = "mark"
        /\ \A o \in Threads \ {t} : pc'[o] = pc[o] /\ buf'[o] = buf[o]
        /\ buf' = buf
        /\ ap'.WpaState = ap.WpaState /\ ap'.ReplayCounter = ap.ReplayCounter
        /\ ap'.PTK = ap.PTK /\ ap'.MsgType = ap.MsgType
        /\ ap'.hw = ap.PTK /\ ap'.PortSecured = ap.PortSecured
        /\ UNCHANGED retry
        /\ UNCHANGED <<start, sta, toSta, toAp>> /\ hist'.raced = hist.raced
    BY <1>5, <1>0 DEF BuildInstall, Goto, SetAp, APType
  <2> QED
    BY <1>0, <2>1
<1>6. CASE BuildMark(t)
  <2>1. /\ pc[t] = "mark" /\ pc'[t] = "make"
        /\ \A o \in Threads \ {t} : pc'[o] = pc[o] /\ buf'[o] = buf[o]
        /\ buf' = buf
        /\ ap'.WpaState = ap.WpaState /\ ap'.ReplayCounter = ap.ReplayCounter
        /\ ap'.PTK = ap.PTK /\ ap'.MsgType = buf[t].t
        /\ ap'.hw = ap.hw /\ ap'.PortSecured = ap.PortSecured
        /\ UNCHANGED retry
        /\ UNCHANGED <<start, sta, toSta, toAp>> /\ hist'.raced = hist.raced
    BY <1>6, <1>0 DEF BuildMark, Goto, SetAp, APType
  <2> QED
    BY <1>0, <2>1
<1>7. CASE BuildMake(t)
  <2>1. /\ pc[t] = "make" /\ pc'[t] = "send"
        /\ \A o \in Threads \ {t} : pc'[o] = pc[o] /\ buf'[o] = buf[o]
        /\ buf'[t].t = buf[t].t /\ buf'[t].rc = ap.ReplayCounter
        /\ buf[t].t = "m3" => buf'[t].k = ap.PTK
        /\ UNCHANGED <<ap, retry>>
        /\ UNCHANGED <<start, sta, toSta, toAp>> /\ hist'.raced = hist.raced
    BY <1>7, <1>0 DEF BuildMake, Goto, WPAConstructEapolMsg, Frame
  <2> QED
    BY <1>0, <2>1
<1>8. CASE BuildSend(t)
  <2>1. /\ pc[t] = "send" /\ pc'[t] = "arm"
        /\ \A o \in Threads \ {t} : pc'[o] = pc[o] /\ buf'[o] = buf[o]
        /\ buf' = buf
        /\ UNCHANGED <<ap, retry, start, sta, toAp, hist>>
        /\ \A f : OnAir(f, toSta') => OnAir(f, toSta) \/ f = buf[t]
    BY <1>8, <1>0, OnSent DEF BuildSend, Goto
  <2> QED
    BY <1>0, <2>1
<1>9. CASE BuildArm(t)
  <2>1. /\ pc[t] = "arm"
        /\ IF buf[t].t = "m1" THEN pc'[t] = "state" /\ buf'[t] = buf[t]
                              ELSE pc'[t] = "idle"
        /\ \A o \in Threads \ {t} : pc'[o] = pc[o] /\ buf'[o] = buf[o]
        /\ UNCHANGED ap /\ retry'.queued = retry.queued
        /\ UNCHANGED <<start, sta, toSta, toAp>> /\ hist'.raced = hist.raced
    BY <1>9, <1>0 DEF BuildArm, Armed, Goto, Done, RetryType
  <2> QED
    BY <1>0, <2>1
<1>10. CASE BuildState(t)
  <2>1. /\ pc[t] = "state" /\ pc'[t] = "idle"
        /\ \A o \in Threads \ {t} : pc'[o] = pc[o] /\ buf'[o] = buf[o]
        /\ ap'.WpaState = "PTKSTART" /\ ap'.ReplayCounter = ap.ReplayCounter
        /\ ap'.PTK = ap.PTK /\ ap'.MsgType = ap.MsgType
        /\ ap'.hw = ap.hw /\ ap'.PortSecured = ap.PortSecured
        /\ UNCHANGED retry
        /\ UNCHANGED <<start, sta, toSta, toAp>> /\ hist'.raced = hist.raced
    BY <1>10, <1>0 DEF BuildState, Done, Goto, APType
  <2> QED
    BY <1>0, <2>1
<1> QED
  BY <1>1, <1>2, <1>3, <1>4, <1>5, <1>6, <1>7, <1>8, <1>9, <1>10 DEF Building

\* The MLME thread: M4Sanity is where the keys are seen to agree.
LEMMA KeysMlme ==
  ASSUME KeysInv, TInv', Mlme, ~Building("mlme")
  PROVE  KeysInv'
<1>0. /\ ap \in APType /\ retry \in RetryType /\ hist \in HistType
      /\ pc \in [Threads -> Places] /\ buf \in [Threads -> Frames]
      /\ toSta \in Seq(Frames) /\ toAp \in Seq(Frames)
      /\ ap.ReplayCounter \in Nat /\ retry.queued \in Nat
      /\ sta \in StaType /\ sta.ReplayCounter \in Nat
      /\ \A f \in Frames : f.rc \in Nat
  BY APGet, StaGet, FrameSet, RetrySet DEF KeysInv, TInv, TypeOK
<1> USE DEF KeysInv, PlaceOK, Begun, ClientOK, CounterOK, Behind, Fresh, KeyOK,
            Message4, InMlme, AloneOK, Alone, Builds, Quiet, OpenOK, Agreed,
            Threads, StateOK, Opening, Resting
<1>1. CASE WpaEAPOLStartAction
  <2>1. /\ pc["mlme"] = "idle" /\ start = "queued" /\ start' = "done"
        /\ UNCHANGED <<retry, sta, toSta, toAp, hist>>
    BY <1>1 DEF WpaEAPOLStartAction
  <2>2. CASE UNCHANGED <<ap, pc, buf>>
    BY <1>0, <2>1, <2>2
  <2>3. CASE /\ ap.WpaState = "INITPSK"
             /\ ap' = [ap EXCEPT !.ReplayCounter = 0, !.MsgRetryCounter = 0]
             /\ Build("mlme", "m1")
    <3>1. /\ pc'["mlme"] = "check" /\ buf'["mlme"].t = "m1"
          /\ UNCHANGED <<pc["timer"], buf["timer"]>>
      BY <1>0, <2>3 DEF Build, Goto, NoFrame, Frame
    <3>2. /\ ap'.WpaState = "INITPSK" /\ ap'.ReplayCounter = 0
          /\ ap'.PortSecured = ap.PortSecured
      BY <1>0, <2>3 DEF APType
    <3>3. /\ toSta = <<>> /\ toAp = <<>> /\ \A f : ~OnAir(f, <<>>)
          /\ \A f \in Frames : ~Message4(f) /\ ~Message4(f)'
      BY <1>0, <2>1, <3>1 DEF OnAir
    <3>4. PlaceOK' /\ Begun' /\ ClientOK'
      BY <1>0, <2>1, <3>1, <3>2, <3>3
    <3>5. CounterOK' /\ KeyOK'
      <4> HIDE DEF Message4
      <4> QED
        BY <1>0, <2>1, <3>1, <3>2, <3>3
    <3>6. AloneOK' /\ OpenOK'
      BY <1>0, <2>1, <3>1, <3>2, <3>3
    <3> QED
      BY <1>0, <2>1, <3>2, <3>4, <3>5, <3>6
  <2> QED
    BY <1>1, <2>2, <2>3 DEF WpaEAPOLStartAction
<1>2. CASE PeerPairMsg2Action
  <2>1. /\ pc["mlme"] = "idle" /\ toAp # <<>>
        /\ OnAir(Head(toAp), toAp) /\ \A f : OnAir(f, toAp') => OnAir(f, toAp)
        /\ UNCHANGED <<pc["timer"], buf["timer"]>>
        /\ UNCHANGED <<ap, retry, start, sta, toSta>>
        /\ \/ pc'["mlme"] = "idle" /\ hist'.raced = hist.raced
           \/ /\ pc'["mlme"] = "m2derive" /\ buf'["mlme"] = Head(toAp)
              /\ Head(toAp).t = "m2" /\ ap.WpaState \in {"PTKSTART", "NEGOTIATING"}
              /\ hist'.raced = (hist.raced \/ pc["timer"] \notin Resting)
    BY <1>2, <1>0, OnTail DEF PeerPairMsg2Action, Take, Raced, Goto, HistType
  <2>2. PlaceOK' /\ Begun' /\ \A f \in Frames : Message4(f)' => Message4(f)
    BY <1>0, <2>1
  <2>3. ClientOK'
    BY <1>0, <2>1, <2>2
  <2>4. ASSUME ~hist'.raced PROVE CounterOK'
    <3> HIDE DEF Message4, PlaceOK, Begun, ClientOK, KeyOK, AloneOK, OpenOK
    <3> QED
      BY <1>0, <2>1, <2>4
  <2>5. ASSUME ~hist'.raced PROVE KeyOK'
    <3> HIDE DEF Message4, PlaceOK, Begun, ClientOK, AloneOK, OpenOK
    <3> QED
      BY <1>0, <2>1, <2>2, <2>5
  <2>6. ASSUME ~hist'.raced PROVE AloneOK' /\ OpenOK'
    BY <1>0, <2>1, <2>6
  <2> QED
    BY <1>0, <2>1, <2>2, <2>3, <2>4, <2>5, <2>6
<1>3. CASE PeerPairMsg4Action
  <2>1. /\ pc["mlme"] = "idle" /\ toAp # <<>>
        /\ OnAir(Head(toAp), toAp) /\ \A f : OnAir(f, toAp') => OnAir(f, toAp)
        /\ UNCHANGED <<pc["timer"], buf["timer"]>>
        /\ UNCHANGED <<ap, retry, start, sta, toSta>>
        /\ \/ pc'["mlme"] = "idle" /\ hist'.raced = hist.raced
           \/ /\ pc'["mlme"] = "m4sanity" /\ buf'["mlme"] = Head(toAp)
              /\ Head(toAp).t = "m4" /\ ap.WpaState \in {"NEGOTIATING"}
              /\ hist'.raced = (hist.raced \/ pc["timer"] \notin Resting)
    BY <1>3, <1>0, OnTail DEF PeerPairMsg4Action, Take, Raced, Goto, HistType
  <2>2. PlaceOK' /\ Begun' /\ \A f \in Frames : Message4(f)' => Message4(f)
    BY <1>0, <2>1
  <2>3. ClientOK'
    BY <1>0, <2>1, <2>2
  <2>4. ASSUME ~hist'.raced PROVE CounterOK'
    <3> HIDE DEF Message4, PlaceOK, Begun, ClientOK, KeyOK, AloneOK, OpenOK
    <3> QED
      BY <1>0, <2>1, <2>4
  <2>5. ASSUME ~hist'.raced PROVE KeyOK'
    <3> HIDE DEF Message4, PlaceOK, Begun, ClientOK, AloneOK, OpenOK
    <3> QED
      BY <1>0, <2>1, <2>2, <2>5
  <2>6. ASSUME ~hist'.raced PROVE AloneOK' /\ OpenOK'
    BY <1>0, <2>1, <2>6
  <2> QED
    BY <1>0, <2>1, <2>2, <2>3, <2>4, <2>5, <2>6
<1>4. CASE PeerGroupMsg2Action
  <2>1. /\ pc["mlme"] = "idle" /\ toAp # <<>>
        /\ OnAir(Head(toAp), toAp) /\ \A f : OnAir(f, toAp') => OnAir(f, toAp)
        /\ UNCHANGED <<pc["timer"], buf["timer"]>>
        /\ UNCHANGED <<ap, retry, start, sta, toSta>>
        /\ \/ pc'["mlme"] = "idle" /\ hist'.raced = hist.raced
           \/ /\ pc'["mlme"] = "g2sanity" /\ buf'["mlme"] = Head(toAp)
              /\ Head(toAp).t = "g2" /\ ap.WpaState \in {"PTKINITDONE"}
              /\ hist'.raced = (hist.raced \/ pc["timer"] \notin Resting)
    BY <1>4, <1>0, OnTail DEF PeerGroupMsg2Action, Take, Raced, Goto, HistType
  <2>2. PlaceOK' /\ Begun' /\ \A f \in Frames : Message4(f)' => Message4(f)
    BY <1>0, <2>1
  <2>3. ClientOK'
    BY <1>0, <2>1, <2>2
  <2>4. ASSUME ~hist'.raced PROVE CounterOK'
    <3> HIDE DEF Message4, PlaceOK, Begun, ClientOK, KeyOK, AloneOK, OpenOK
    <3> QED
      BY <1>0, <2>1, <2>4
  <2>5. ASSUME ~hist'.raced PROVE KeyOK'
    <3> HIDE DEF Message4, PlaceOK, Begun, ClientOK, AloneOK, OpenOK
    <3> QED
      BY <1>0, <2>1, <2>2, <2>5
  <2>6. ASSUME ~hist'.raced PROVE AloneOK' /\ OpenOK'
    BY <1>0, <2>1, <2>6
  <2> QED
    BY <1>0, <2>1, <2>2, <2>3, <2>4, <2>5, <2>6
<1>5. CASE M2Derive
  <2>1. /\ pc["mlme"] = "m2derive" /\ pc'["mlme"] = "m2sanity"
        /\ UNCHANGED <<pc["timer"], buf["timer"]>>
        /\ buf' = buf
        /\ ap'.WpaState = ap.WpaState /\ ap'.ReplayCounter = ap.ReplayCounter
        /\ ap'.MsgType = ap.MsgType
        /\ ap'.hw = ap.hw /\ ap'.PortSecured = ap.PortSecured
        /\ UNCHANGED retry
        /\ UNCHANGED <<start, sta, toSta, toAp>> /\ hist'.raced = hist.raced
    BY <1>5, <1>0 DEF M2Derive, Goto, SetAp, APType
  <2> QED
    BY <1>0, <2>1
<1>6. CASE M2Sanity
  <2>1. /\ pc["mlme"] = "m2sanity" /\ pc'["mlme"] \in {"m2cancel", "idle"}
        /\ UNCHANGED <<pc["timer"], buf["timer"]>>
        /\ UNCHANGED <<ap, retry>>
        /\ UNCHANGED <<start, sta, toSta, toAp>> /\ hist'.raced = hist.raced
    BY <1>6, <1>0
      DEF M2Sanity, Sanity, Goto, Done, HasMemory, OutOfMemory, HistType
  <2> QED
    BY <1>0, <2>1
<1>7. CASE M4Sanity
  <2>1. /\ pc["mlme"] = "m4sanity" /\ pc'["mlme"] \in {"m4cancel", "idle"}
        /\ pc'["mlme"] = "m4cancel" => SanityToAp(buf["mlme"])
        /\ UNCHANGED <<pc["timer"], buf["timer"]>>
        /\ UNCHANGED <<ap, retry>>
        /\ UNCHANGED <<start, sta, toSta, toAp>> /\ hist'.raced = hist.raced
    BY <1>7, <1>0
      DEF M4Sanity, Sanity, Goto, Done, HasMemory, OutOfMemory, HistType
  <2>2. ASSUME ~hist.raced, pc'["mlme"] = "m4cancel" PROVE Agreed'
    <3>1. /\ buf["mlme"].rc = ap.ReplayCounter /\ buf["mlme"] \in Frames
          /\ Message4(buf["mlme"])
      BY <1>0, <2>1, <2>2 DEF SanityToAp
    <3>2. sta.ReplayCounter = ap.ReplayCounter
      BY <1>0, <2>1, <2>2, <3>1
    <3>3. ap.hw = sta.hw
      BY <1>0, <2>2, <3>1, <3>2
    <3> QED
      BY <1>0, <2>1, <2>2, <3>2, <3>3
  <2> QED
    BY <1>0, <2>1, <2>2
<1>8. CASE G2Sanity
  <2>1. /\ pc["mlme"] = "g2sanity" /\ pc'["mlme"] \in {"g2cancel", "idle"}
        /\ UNCHANGED <<pc["timer"], buf["timer"]>>
        /\ UNCHANGED <<ap, retry>>
        /\ UNCHANGED <<start, sta, toSta, toAp>> /\ hist'.raced = hist.raced
    BY <1>8, <1>0
      DEF G2Sanity, Sanity, Goto, Done, HasMemory, OutOfMemory, HistType
  <2> QED
    BY <1>0, <2>1
<1>9. CASE M2Cancel
  <2>1. /\ pc["mlme"] = "m2cancel" /\ pc'["mlme"] = "m2reset"
        /\ UNCHANGED <<pc["timer"], buf["timer"]>>
        /\ UNCHANGED <<ap, buf>> /\ ~retry'.armed
        /\ retry'.queued = IF retry.queued > 0 THEN retry.queued - 1 ELSE 0
        /\ UNCHANGED <<start, sta, toSta, toAp>> /\ hist'.raced = hist.raced
    BY <1>9, <1>0 DEF M2Cancel, CancelThen, RTMPCancelTimer, Goto
  <2> QED
    BY <1>0, <2>1
<1>10. CASE M4Cancel
  <2>1. /\ pc["mlme"] = "m4cancel" /\ pc'["mlme"] = "m4state"
        /\ UNCHANGED <<pc["timer"], buf["timer"]>>
        /\ UNCHANGED <<ap, buf>> /\ ~retry'.armed
        /\ retry'.queued = IF retry.queued > 0 THEN retry.queued - 1 ELSE 0
        /\ UNCHANGED <<start, sta, toSta, toAp>> /\ hist'.raced = hist.raced
    BY <1>10, <1>0 DEF M4Cancel, CancelThen, RTMPCancelTimer, Goto
  <2> QED
    BY <1>0, <2>1
<1>11. CASE G2Cancel
  <2>1. /\ pc["mlme"] = "g2cancel" /\ pc'["mlme"] = "g2done"
        /\ UNCHANGED <<pc["timer"], buf["timer"]>>
        /\ UNCHANGED <<ap, buf>> /\ ~retry'.armed
        /\ retry'.queued = IF retry.queued > 0 THEN retry.queued - 1 ELSE 0
        /\ UNCHANGED <<start, sta, toSta, toAp>> /\ hist'.raced = hist.raced
    BY <1>11, <1>0 DEF G2Cancel, CancelThen, RTMPCancelTimer, Goto
  <2> QED
    BY <1>0, <2>1
<1>12. CASE M2Reset
  <2>1. /\ pc["mlme"] = "m2reset" /\ pc'["mlme"] = "m2state"
        /\ UNCHANGED <<pc["timer"], buf["timer"]>>
        /\ buf' = buf
        /\ ap'.WpaState = ap.WpaState /\ ap'.ReplayCounter = ap.ReplayCounter
        /\ ap'.PTK = ap.PTK /\ ap'.MsgType = ap.MsgType
        /\ ap'.hw = ap.hw /\ ap'.PortSecured = ap.PortSecured
        /\ UNCHANGED retry
        /\ UNCHANGED <<start, sta, toSta, toAp>> /\ hist'.raced = hist.raced
    BY <1>12, <1>0 DEF M2Reset, Goto, SetAp, APType
  <2> QED
    BY <1>0, <2>1
<1>13. CASE M2State
  <2>1. /\ pc["mlme"] = "m2state" /\ pc'["mlme"] = "read"
        /\ UNCHANGED <<pc["timer"], buf["timer"]>>
        /\ buf'["mlme"].t = "m3"
        /\ ap'.WpaState = "NEGOTIATING" /\ ap'.ReplayCounter = ap.ReplayCounter
        /\ ap'.PTK = ap.PTK /\ ap'.MsgType = ap.MsgType
        /\ ap'.hw = ap.hw /\ ap'.PortSecured = ap.PortSecured
        /\ UNCHANGED retry
        /\ UNCHANGED <<start, sta, toSta, toAp>> /\ hist'.raced = hist.raced
    BY <1>13, <1>0 DEF M2State, Build, Goto, SetAp, APType, NoFrame, Frame
  <2> QED
    BY <1>0, <2>1
<1>14. CASE M4State
  <2>1. /\ pc["mlme"] = "m4state" /\ pc'["mlme"] = "m4group"
        /\ UNCHANGED <<pc["timer"], buf["timer"]>>
        /\ ap'.WpaState = "PTKINITDONE" /\ ap'.ReplayCounter = ap.ReplayCounter
        /\ ap'.PTK = ap.PTK /\ ap'.MsgType = ap.MsgType
        /\ ap'.hw = ap.hw /\ ap'.PortSecured = ap.PortSecured
        /\ UNCHANGED retry
        /\ UNCHANGED <<start, sta, toSta, toAp>> /\ hist'.raced = hist.raced
    BY <1>14, <1>0 DEF M4State, Goto, SetAp, APType
  <2> QED
    BY <1>0, <2>1
<1>16. CASE M4Group
  <2>1. /\ pc["mlme"] = "m4group" /\ pc'["mlme"] = "m4open"
        /\ UNCHANGED <<pc["timer"], buf["timer"]>>
        /\ ap'.WpaState = ap.WpaState /\ ap'.ReplayCounter = ap.ReplayCounter
        /\ ap'.PTK = ap.PTK /\ ap'.MsgType = ap.MsgType
        /\ ap'.hw = ap.hw /\ ap'.PortSecured = ap.PortSecured
        /\ UNCHANGED retry
        /\ UNCHANGED <<start, sta, toSta, toAp>> /\ hist'.raced = hist.raced
    BY <1>16, <1>0 DEF M4Group, Goto, SetAp, APType
  <2> QED
    BY <1>0, <2>1
<1>17. CASE M4Open
  <2>1. /\ pc["mlme"] = "m4open" /\ pc'["mlme"] = "idle"
        /\ UNCHANGED <<pc["timer"], buf["timer"]>>
        /\ ap'.WpaState = ap.WpaState /\ ap'.ReplayCounter = ap.ReplayCounter
        /\ ap'.PTK = ap.PTK /\ ap'.MsgType = ap.MsgType
        /\ ap'.hw = ap.hw /\ ap'.PortSecured = TRUE
        /\ UNCHANGED retry
        /\ UNCHANGED <<start, sta, toSta, toAp>> /\ hist'.raced = hist.raced
    BY <1>17, <1>0 DEF M4Open, Done, Goto, SetAp, APType
  <2> QED
    BY <1>0, <2>1
<1>15. CASE G2Done
  <2>1. /\ pc["mlme"] = "g2done" /\ pc'["mlme"] = "idle"
        /\ UNCHANGED <<pc["timer"], buf["timer"]>>
        /\ ap'.WpaState = ap.WpaState /\ ap'.ReplayCounter = ap.ReplayCounter
        /\ ap'.PTK = ap.PTK /\ ap'.MsgType = ap.MsgType
        /\ ap'.hw = ap.hw /\ ap'.PortSecured = ap.PortSecured
        /\ UNCHANGED retry
        /\ UNCHANGED <<start, sta, toSta, toAp>> /\ hist'.raced = hist.raced
    BY <1>15, <1>0 DEF G2Done, Done, Goto, SetAp, APType
  <2> QED
    BY <1>0, <2>1
<1> QED
  BY <1>1, <1>2, <1>3, <1>4, <1>5, <1>6, <1>7, <1>8, <1>9, <1>10, <1>11, <1>12,
    <1>13, <1>14, <1>15, <1>16, <1>17 DEF Mlme

\* The timer thread, the expiry of the timer and the new group key.
LEMMA KeysTimer ==
  ASSUME KeysInv, TInv', Timer \/ GroupRekeyExec \/ RetryFires,
         ~Building("timer")
  PROVE  KeysInv'
<1>0. /\ ap \in APType /\ retry \in RetryType /\ hist \in HistType
      /\ pc \in [Threads -> Places] /\ buf \in [Threads -> Frames]
      /\ toSta \in Seq(Frames) /\ toAp \in Seq(Frames)
      /\ ap.ReplayCounter \in Nat /\ retry.queued \in Nat
      /\ sta \in StaType /\ sta.ReplayCounter \in Nat
      /\ \A f \in Frames : f.rc \in Nat
  BY APGet, StaGet, FrameSet, RetrySet DEF KeysInv, TInv, TypeOK
<1> USE DEF KeysInv, PlaceOK, Begun, ClientOK, CounterOK, Behind, Fresh, KeyOK,
            Message4, InMlme, AloneOK, Alone, Builds, Quiet, OpenOK, Agreed,
            Threads, StateOK, Opening, Resting
<1>1. CASE WPAStartFor4WayExec
  <2>1. /\ start = "armed" /\ hist'.raced = hist.raced
        /\ UNCHANGED <<ap, pc, buf, retry, sta, toSta, toAp>>
    BY <1>1, <1>0 DEF WPAStartFor4WayExec, HasMemory, OutOfMemory, HistType
  <2> QED
    BY <1>0, <2>1
<1>2. CASE GroupRekeyExec \/ RekeyStation
  <2>1. /\ UNCHANGED <<ap, pc["mlme"], buf, retry, start, sta, toSta, toAp>>
        /\ pc["timer"] \in Resting /\ pc'["timer"] \in Resting
        /\ hist'.raced = hist.raced
    BY <1>2, <1>0 DEF GroupRekeyExec, RekeyStation, Goto, HistType
  <2> QED
    BY <1>0, <2>1
<1>3. CASE WPAStartFor2WayExec
  <2>1. /\ pc["timer"] = "idle" /\ hist'.raced = hist.raced
        /\ UNCHANGED <<retry, start, sta, toSta, toAp>>
    BY <1>0, <1>3 DEF WPAStartFor2WayExec, Crossed, OutOfMemory, HistType
  <2>2. CASE UNCHANGED <<ap, pc, buf>>
    BY <1>0, <2>1, <2>2
  <2>3. CASE /\ ap.PortSecured
             /\ ap' = [ap EXCEPT !.MsgRetryCounter = 0,
                                  !.GTKState = "NEGOTIATING"]
             /\ Build("timer", "g1")
    <3>1. /\ pc'["timer"] = "read" /\ buf'["timer"].t = "g1"
          /\ UNCHANGED <<pc["mlme"], buf["mlme"]>>
      BY <1>0, <2>3 DEF Build, Goto, NoFrame, Frame
    <3>2. /\ ap'.WpaState = ap.WpaState /\ ap'.ReplayCounter = ap.ReplayCounter
          /\ ap'.PTK = ap.PTK /\ ap'.MsgType = ap.MsgType
          /\ ap'.hw = ap.hw /\ ap'.PortSecured = ap.PortSecured
      BY <1>0, <2>3 DEF APType
    <3>3. PlaceOK' /\ Begun' /\ ClientOK'
      BY <1>0, <2>1, <2>3, <3>1, <3>2
    <3>4. ASSUME ~hist'.raced PROVE CounterOK' /\ KeyOK'
      <4> HIDE DEF Message4, PlaceOK, Begun, ClientOK, AloneOK, OpenOK
      <4>1. \A f \in Frames : Message4(f)' <=> Message4(f)
        BY <2>1, <3>1 DEF Message4
      <4>2. CounterOK'
        <5> HIDE DEF KeyOK
        <5>1. Fresh' = Fresh /\ \A n : Behind(n)' = Behind(n)
          BY <2>1, <2>3, <3>1, <3>2
        <5>2. \A u \in Threads : pc'[u] = "write" =>
                 pc[u] = "write" /\ buf'[u] = buf[u]
          BY <2>1, <2>3, <3>1
        <5>3. CounterOK /\ UNCHANGED <<sta, toSta>>
          BY <2>1, <3>4
        <5> HIDE DEF Fresh, Behind
        <5> QED
          BY <3>2, <5>1, <5>2, <5>3
      <4>3. KeyOK'
        <5> HIDE DEF CounterOK
        <5> QED
          BY <1>0, <2>1, <2>3, <3>1, <3>2, <3>4, <4>1
      <4> QED
        BY <4>2, <4>3
    <3>5. ASSUME ~hist'.raced PROVE AloneOK' /\ OpenOK'
      BY <1>0, <2>1, <2>3, <3>1, <3>2, <3>5
    <3> QED
      BY <1>0, <2>1, <3>1, <3>2, <3>3, <3>4, <3>5
  <2> QED
    BY <1>3, <2>2, <2>3 DEF WPAStartFor2WayExec
<1>4. CASE RetryFires
  <2>1. /\ retry.armed /\ ~retry'.armed /\ hist'.raced = hist.raced
        /\ retry'.queued \in {retry.queued, retry.queued + 1}
        /\ UNCHANGED <<ap, pc, buf, start, sta, toSta, toAp>>
    BY <1>4, <1>0 DEF RetryFires, HasMemory, OutOfMemory, RetryType, HistType
  <2> QED
    BY <1>0, <2>1
<1>5. CASE WPAHandshakeMsgRetryExec
  <2>1. /\ pc["timer"] = "idle" /\ pc'["timer"] = "count" /\ retry.queued > 0
        /\ (retry'.armed <=> retry.armed) /\ retry'.queued = retry.queued - 1
        /\ UNCHANGED pc["mlme"]
        /\ UNCHANGED <<ap, buf, start, sta, toSta, toAp>>
        /\ ~hist'.raced => ~hist.raced /\ pc["mlme"] = "idle"
    BY <1>5, <1>0 DEF WPAHandshakeMsgRetryExec, Raced, Goto, RetryType, HistType
  <2>2. PlaceOK' /\ Begun' /\ ClientOK'
    BY <1>0, <2>1
  <2>3. ASSUME ~hist'.raced PROVE CounterOK' /\ KeyOK'
    BY <1>0, <2>1, <2>3
  <2>4. ASSUME ~hist'.raced PROVE AloneOK'
    BY <1>0, <2>1, <2>4
  <2>5. ASSUME ~hist'.raced PROVE OpenOK'
    BY <1>0, <2>1, <2>5
  <2> QED
    BY <1>0, <2>1, <2>2, <2>3, <2>4, <2>5
<1>6. CASE RetryCount
  <2>1. /\ pc["timer"] = "count" /\ pc'["timer"] = "again"
        /\ UNCHANGED <<pc["mlme"], buf["mlme"]>>
        /\ buf' = buf
        /\ ap'.WpaState = ap.WpaState /\ ap'.ReplayCounter = ap.ReplayCounter
        /\ ap'.PTK = ap.PTK /\ ap'.MsgType = ap.MsgType
        /\ ap'.hw = ap.hw /\ ap'.PortSecured = ap.PortSecured
        /\ UNCHANGED retry
        /\ UNCHANGED <<start, sta, toSta, toAp>> /\ hist'.raced = hist.raced
    BY <1>6, <1>0 DEF RetryCount, Goto, SetAp, APType
  <2> QED
    BY <1>0, <2>1
<1>7. CASE RetryAgain
  <2>1. /\ pc["timer"] = "again" /\ buf'["timer"].t = ap.MsgType
        /\ pc'["timer"] = IF ap.MsgType = "m1" THEN "check" ELSE "read"
        /\ UNCHANGED <<pc["mlme"], buf["mlme"]>>
        /\ UNCHANGED <<ap, retry>>
        /\ UNCHANGED <<start, sta, toSta, toAp>> /\ hist'.raced = hist.raced
    BY <1>7, <1>0 DEF RetryAgain, Build, Goto, NoFrame, Frame
  <2> QED
    BY <1>0, <2>1
<1>8. CASE RetryGroupFails
  <2>1. /\ pc["timer"] = "again" /\ pc'["timer"] = "idle"
        /\ UNCHANGED <<pc["mlme"], buf["mlme"]>>
        /\ ap'.WpaState = ap.WpaState /\ ap'.ReplayCounter = ap.ReplayCounter
        /\ ap'.PTK = ap.PTK /\ ap'.MsgType = ap.MsgType
        /\ ap'.hw = ap.hw /\ ap'.PortSecured = ap.PortSecured
        /\ UNCHANGED retry
        /\ UNCHANGED <<start, sta, toSta, toAp>> /\ hist'.raced = hist.raced
    BY <1>8, <1>0 DEF RetryGroupFails, Done, Goto, SetAp, APType
  <2> QED
    BY <1>0, <2>1
<1>9. CASE RetryFails
  <2>1. /\ pc["timer"] = "again" /\ pc'["timer"] = "deauth"
        /\ ap.MsgType # "g1" /\ buf' = buf
        /\ UNCHANGED <<pc["mlme"], buf["mlme"]>>
        /\ ap'.WpaState = "INITIALIZE" /\ ap'.ReplayCounter = ap.ReplayCounter
        /\ ap'.PTK = ap.PTK /\ ap'.MsgType = ap.MsgType
        /\ ap'.hw = ap.hw /\ ap'.PortSecured = ap.PortSecured
        /\ UNCHANGED retry
        /\ UNCHANGED <<start, sta, toSta, toAp>> /\ hist'.raced = hist.raced
    BY <1>9, <1>0 DEF RetryFails, Goto, APType
  <2> QED
    BY <1>0, <2>1
<1>10. CASE MlmeDeAuthAction
  <2>1. /\ pc["timer"] = "deauth" /\ pc'["timer"] = "idle"
        /\ UNCHANGED <<pc["mlme"], buf["mlme"]>>
        /\ ap'.WpaState = ap.WpaState /\ ap'.ReplayCounter = ap.ReplayCounter
        /\ ap'.PTK = ap.PTK /\ ap'.MsgType = ap.MsgType
        /\ ap'.hw = ap.hw /\ ap'.PortSecured = ap.PortSecured
        /\ UNCHANGED retry
        /\ UNCHANGED <<start, sta, toSta, toAp>> /\ hist'.raced = hist.raced
    BY <1>10, <1>0
      DEF MlmeDeAuthAction, Done, Goto, SetAp, HasMemory, OutOfMemory, APType,
        HistType
  <2> QED
    BY <1>0, <2>1
<1> QED
  BY <1>1, <1>2, <1>3, <1>4, <1>5, <1>6, <1>7, <1>8, <1>9, <1>10
    DEF Timer, Retry

\* The client: the frame it takes was on the air, and a frame it takes for
\* new is ahead of every message 4.
LEMMA KeysSta ==
  ASSUME KeysInv, TInv', Sta
  PROVE  KeysInv'
<1> DEFINE f == Head(toSta)
<1>0. /\ sta \in StaType /\ sta.ReplayCounter \in Nat
      /\ toSta \in Seq(Frames) /\ toAp \in Seq(Frames)
      /\ ap.ReplayCounter \in Nat /\ \A g \in Frames : g.rc \in Nat
      /\ hist \in HistType
  BY APGet, StaGet, FrameSet DEF KeysInv, TInv, TypeOK
<1>1. /\ toSta # <<>> /\ f \in Frames /\ OnAir(f, toSta)
      /\ \A g : OnAir(g, toSta') => OnAir(g, toSta)
      /\ UNCHANGED <<ap, pc, buf, retry, start>>
  <2>1. toSta # <<>> /\ toSta' = Tail(toSta) /\ UNCHANGED <<ap, pc, buf, retry, start>>
    BY DEF Sta, StaMsg1, StaMsg3, StaGroupMsg1, Receive
  <2>2. f \in Frames
    BY <1>0, <2>1
  <2> QED
    BY <1>0, <2>1, <2>2, OnTail
<1>2. start = "done" /\ hist'.raced = hist.raced
  <2>1. start = "done"
    BY <1>1 DEF KeysInv, Begun
  <2>2. hist'.raced = hist.raced
    BY <1>0 DEF Sta, StaMsg1, StaMsg3, StaGroupMsg1, Drop, OutOfMemory, HistType
  <2> QED
    BY <2>1, <2>2
<1> HIDE DEF f
<1>3. PlaceOK' /\ Begun' /\ AloneOK' = AloneOK
  BY <1>1, <1>2 DEF KeysInv, PlaceOK, Begun, AloneOK, Quiet
<1>11. StateOK'
  BY <1>1 DEF KeysInv, StateOK
<1> USE DEF ClientOK, CounterOK, Behind, Fresh, KeyOK, OpenOK, Agreed
<1>4. CASE Drop
  <2>1. UNCHANGED <<sta, toAp>> /\ \A g : Message4(g)' <=> Message4(g)
    BY <1>1, <1>4 DEF Drop, Message4, InMlme
  <2>2. ClientOK' /\ StateOK'
    BY <1>11, <2>1 DEF KeysInv
  <2>3. ASSUME ~hist.raced PROVE CounterOK'
    BY <1>0, <1>1, <2>1, <2>3 DEF KeysInv
  <2>4. ASSUME ~hist.raced PROVE KeyOK'
    BY <1>1, <2>1, <2>4 DEF KeysInv
  <2>5. ASSUME ~hist.raced PROVE OpenOK'
    BY <1>1, <2>1, <2>5 DEF KeysInv, Quiet
  <2> QED
    BY <1>1, <1>2, <1>3, <2>2, <2>3, <2>4, <2>5 DEF KeysInv
<1>5. ASSUME Newer(f), sta'.ReplayCounter = f.rc,
             ~sta'.AllowInsPTK => sta'.hw = sta'.PTK,
             sta'.hw = sta.hw \/ f.t = "m3",
             \A g : Message4(g)' =>
               \/ Message4(g)
               \/ f.t = "m3" /\ g.rc = f.rc /\ g.k = f.k /\ g.k = sta'.hw
      PROVE  KeysInv'
  <2>1. sta.ReplayCounter < sta'.ReplayCounter
    BY <1>5 DEF Newer
  <2>2. ClientOK' /\ StateOK'
    BY <1>0, <1>1, <1>5, <1>11, <2>1 DEF KeysInv
  <2>3. ASSUME ~hist.raced PROVE CounterOK'
    BY <1>0, <1>1, <1>5, <2>1, <2>3 DEF KeysInv
  <2>4. ASSUME ~hist.raced PROVE KeyOK'
    BY <1>0, <1>1, <1>5, <2>4 DEF KeysInv
  <2>5. ASSUME ~hist.raced PROVE OpenOK'
    <3>1. Agreed => Agreed'
      BY <1>0, <1>1, <1>5, <2>1
    <3> QED
      BY <1>1, <2>5, <3>1 DEF KeysInv, Quiet
  <2> QED
    BY <1>1, <1>2, <1>3, <2>2, <2>3, <2>4, <2>5 DEF KeysInv
\* What a reply adds to the frames on the air.
<1>6. ASSUME NEW t \in {"m2", "m4", "g2"}, NEW k \in Key, NEW n \in Nat,
             toAp' \in Sent(toAp, Frame(t, f.rc, n, k, 0)),
             NEW g, Message4(g)'
      PROVE  \/ Message4(g)
             \/ t = "m4" /\ g.rc = f.rc /\ g.k = k
  <2>1. Frame(t, f.rc, n, k, 0) \in Frames
    BY <1>1, <1>6, FrameSet, FrameIn DEF Messages, APMessages
  <2>2. CASE OnAir(g, toAp')
    <3>1. OnAir(g, toAp) \/ g = Frame(t, f.rc, n, k, 0)
      BY <1>0, <1>6, <2>1, <2>2, OnSent
    <3> QED
      BY <1>6, <3>1 DEF Message4, Frame
  <2> QED
    BY <1>1, <1>6, <2>2 DEF Message4, InMlme
<1>7. ASSUME UNCHANGED toAp, NEW g, Message4(g)'
      PROVE  Message4(g)
  BY <1>1, <1>7 DEF Message4, InMlme
<1>8. CASE StaMsg1
  <2> DEFINE s == sta.SNonce + 1
             k == <<f.n, s>>
  <2>1. f.rc \in Nat /\ s \in Nat /\ k \in Key
    BY <1>0, <1>1, StaGet, FrameSet DEF Key
  <2>2. CASE /\ Newer(f)
             /\ sta' = [sta EXCEPT !.ReplayCounter = f.rc, !.ANonce = f.n,
                                   !.SNonce = s, !.AllowInsPTK = TRUE, !.PTK = k]
             /\ toAp' \in Sent(toAp, Frame("m2", f.rc, s, sta'.PTK, 0))
    <3>1. /\ sta'.ReplayCounter = f.rc /\ sta'.AllowInsPTK
          /\ sta'.hw = sta.hw /\ sta'.PTK = k
      BY <1>0, <2>2 DEF StaType
    <3> HIDE DEF s, k
    <3>2. \A g : Message4(g)' => Message4(g)
      BY <1>6, <2>1, <2>2, <3>1
    <3> QED
      BY <1>5, <2>2, <3>1, <3>2
  <2> QED
    BY <1>4, <1>8, <2>2 DEF StaMsg1, f
<1>9. CASE StaMsg3
  <2> DEFINE saved == [sta EXCEPT !.ReplayCounter = f.rc, !.gtk = f.g]
  <2>1. /\ saved.ReplayCounter = f.rc /\ saved.AllowInsPTK = sta.AllowInsPTK
        /\ saved.hw = sta.hw /\ saved.PTK = sta.PTK /\ saved \in StaType
        /\ sta.PTK \in Key
    BY <1>0, <1>1, FrameSet, StaGet DEF StaType
  <2>2. /\ f.t = "m3"
        /\ \/ Drop
           \/ Newer(f) /\ sta' = saved /\ UNCHANGED toAp
           \/ /\ Newer(f) /\ Genuine(f)
              /\ sta' = [Installed(saved) EXCEPT !.PortSecured = TRUE]
              /\ toAp' \in Sent(toAp, Frame("m4", f.rc, 0, sta.PTK, 0))
    BY <1>9 DEF StaMsg3, Receive, f
  <2>3. CASE Newer(f) /\ sta' = saved /\ UNCHANGED toAp
    <3>1. ~sta'.AllowInsPTK => sta'.hw = sta'.PTK
      BY <2>1, <2>3 DEF KeysInv
    <3> QED
      BY <1>5, <1>7, <2>1, <2>3, <3>1
  <2>4. CASE /\ Newer(f) /\ Genuine(f)
             /\ sta' = [Installed(saved) EXCEPT !.PortSecured = TRUE]
             /\ toAp' \in Sent(toAp, Frame("m4", f.rc, 0, sta.PTK, 0))
    <3>1. /\ sta'.ReplayCounter = f.rc /\ sta'.PTK = sta.PTK
          /\ sta'.hw = IF sta.AllowInsPTK THEN sta.PTK ELSE sta.hw
      BY <2>1, <2>4 DEF Installed, StaType
    <3>2. sta'.hw = sta.PTK
      BY <3>1 DEF KeysInv
    <3>3. \A g : Message4(g)' =>
            Message4(g) \/ (g.rc = f.rc /\ g.k = sta.PTK)
      BY <1>6, <2>1, <2>4
    <3> QED
      BY <1>5, <2>2, <2>4, <3>1, <3>2, <3>3 DEF Genuine
  <2> QED
    BY <1>4, <2>2, <2>3, <2>4
<1>10. CASE StaGroupMsg1
  <2>1. CASE /\ Newer(f)
             /\ sta' = [sta EXCEPT !.ReplayCounter = f.rc, !.gtk = f.g]
             /\ toAp' \in Sent(toAp, Frame("g2", f.rc, 0, sta.PTK, 0))
    <3>1. /\ sta'.ReplayCounter = f.rc /\ sta'.AllowInsPTK = sta.AllowInsPTK
          /\ sta'.hw = sta.hw /\ sta'.PTK = sta.PTK /\ sta.PTK \in Key
      BY <1>0, <2>1, StaGet DEF StaType
    <3>2. \A g : Message4(g)' => Message4(g)
      BY <1>6, <2>1, <3>1
    <3>3. ~sta'.AllowInsPTK => sta'.hw = sta'.PTK
      BY <3>1 DEF KeysInv
    <3> QED
      BY <1>5, <2>1, <3>1, <3>2, <3>3
  <2> QED
    BY <1>4, <1>10, <2>1 DEF StaGroupMsg1, f
<1> QED
  BY <1>8, <1>9, <1>10 DEF Sta

LEMMA KeysStep == KeysInv /\ [Next]_vars => KeysInv'
<1> SUFFICES ASSUME KeysInv, [Next]_vars PROVE KeysInv'
  OBVIOUS
<1>1. TInv'
  BY NextTypes DEF KeysInv
<1>2. CASE UNCHANGED vars
  <2> USE DEF vars, KeysInv, PlaceOK, Begun, ClientOK, CounterOK, Behind, Fresh,
          KeyOK, Message4, InMlme, AloneOK, Alone, Quiet, OpenOK, Agreed,
          StateOK
  <2>1. (PlaceOK /\ Begun /\ ClientOK)'
    BY <1>2
  <2>2. ASSUME ~hist.raced PROVE (CounterOK /\ KeyOK /\ AloneOK /\ OpenOK)'
    BY <1>2, <2>2
  <2> QED
    BY <1>1, <1>2, <2>1, <2>2
<1>3. CASE Mlme
  BY <1>1, <1>3, KeysMlme, KeysBuild DEF Threads
<1>4. CASE Timer \/ GroupRekeyExec \/ RetryFires
  BY <1>1, <1>4, KeysTimer, KeysBuild DEF Threads
<1>5. CASE Sta
  BY <1>1, <1>5, KeysSta
<1> QED
  BY <1>2, <1>3, <1>4, <1>5 DEF Next

LEMMA KeysInit == Init => KeysInv
<1> SUFFICES ASSUME Init PROVE KeysInv
  OBVIOUS
<1>1. TInv
  BY InitTypes DEF TInv, Init, BuildOK, Builds, Threads
<1>2. /\ ap.WpaState = "INITPSK" /\ ap.ReplayCounter = 0 /\ ~ap.PortSecured
      /\ pc = [t \in Threads |-> "idle"] /\ Quiet
      /\ sta.ReplayCounter = 0 /\ sta.hw = sta.PTK
      /\ toSta = <<>> /\ toAp = <<>> /\ \A f : ~OnAir(f, <<>>)
  BY DEF Init, Quiet, OnAir
<1>3. PlaceOK /\ Begun /\ \A f : ~Message4(f)
  BY <1>2 DEF PlaceOK, Begun, Quiet, Message4, InMlme, Threads, Resting
<1>4. ClientOK /\ CounterOK /\ KeyOK
  BY <1>2, <1>3 DEF ClientOK, CounterOK, Behind, Fresh, KeyOK
<1>5. AloneOK /\ OpenOK /\ StateOK
  BY <1>2 DEF AloneOK, Alone, Builds, OpenOK, Threads, Quiet, Opening, Resting,
              StateOK
<1> QED
  BY <1>1, <1>2, <1>3, <1>4, <1>5 DEF KeysInv

\* When message 4 opens the port both ends have the same pairwise key in
\* hardware, for every limit and every number of group keys, if a retry and a
\* frame were never handled at once.
THEOREM KeysAlwaysAgree == Spec => []KeysAgree
<1>1. KeysInv => KeysAgree
  BY DEF KeysInv, KeysAgree, OpenOK, Agreed
<1> QED
  BY <1>1, KeysInit, KeysStep, PTL DEF Spec

\* Only the timeout gives the station up.
LEMMA OnlyTimeout ==
  ASSUME ap \in APType, [Next]_vars, ap'.WpaState = "INITIALIZE", ~RetryFails
  PROVE  ap.WpaState = "INITIALIZE"
<1>1. ASSUME UNCHANGED ap PROVE ap.WpaState = "INITIALIZE"
  BY <1>1
<1>2. CASE \/ Sta \/ GroupRekeyExec \/ RekeyStation \/ RetryFires
           \/ UNCHANGED vars
  BY <1>1, <1>2
    DEF Sta, StaMsg1, StaMsg3, StaGroupMsg1, Receive, GroupRekeyExec,
      RekeyStation, RetryFires, vars
<1>3. ASSUME NEW t \in Threads, Building(t) PROVE ap.WpaState = "INITIALIZE"
  <2>1. CASE \/ BuildCheck(t) \/ BuildRead(t) \/ BuildMake(t) \/ BuildSend(t)
             \/ BuildArm(t)
    BY <1>1, <2>1 DEF BuildCheck, BuildRead, BuildMake, BuildSend, BuildArm
  <2>2. CASE BuildWrite(t) \/ BuildNonce(t) \/ BuildInstall(t) \/ BuildMark(t)
    BY <2>2 DEF BuildWrite, BuildNonce, BuildInstall, BuildMark, SetAp, APType
  <2>3. CASE BuildState(t)
    BY <2>3 DEF BuildState, APType
  <2> QED
    BY <1>3, <2>1, <2>2, <2>3 DEF Building
<1>4. CASE WpaEAPOLStartAction \/ WPAStartFor2WayExec
  BY <1>4 DEF WpaEAPOLStartAction, WPAStartFor2WayExec, APType
<1>5. CASE \/ PeerPairMsg2Action \/ PeerPairMsg4Action \/ PeerGroupMsg2Action
           \/ M2Sanity \/ M4Sanity \/ G2Sanity \/ M2Cancel \/ M4Cancel \/ G2Cancel
           \/ WPAStartFor4WayExec \/ WPAHandshakeMsgRetryExec \/ RetryAgain
  BY <1>1, <1>5 DEF PeerPairMsg2Action, PeerPairMsg4Action, PeerGroupMsg2Action,
     Take, M2Sanity, M4Sanity, G2Sanity, Sanity, M2Cancel, M4Cancel, G2Cancel,
     CancelThen, WPAStartFor4WayExec, WPAHandshakeMsgRetryExec, RetryAgain
<1>6. CASE \/ M2Derive \/ M2Reset \/ M2State \/ M4State \/ M4Group \/ M4Open
           \/ G2Done
           \/ RetryCount \/ RetryGroupFails \/ MlmeDeAuthAction
  BY <1>6 DEF M2Derive, M2Reset, M2State, M4State, M4Group, M4Open, G2Done,
     RetryCount, RetryGroupFails, MlmeDeAuthAction, SetAp, APType
<1> QED
  BY <1>2, <1>3, <1>4, <1>5, <1>6 DEF Next, Mlme, Timer, Retry, Threads

\* Cancelling the retry timer keeps the pairwise timeout from a station whose
\* handshake is done, unless the retry was in the timer thread's hands.
THEOREM FinishedNotTimedOut == Spec => FinishedStaysUp
<1>1. KeysInv /\ [Next]_vars => [TimesOut => hist.raced]_ap
  <2> SUFFICES ASSUME KeysInv, [Next]_vars, TimesOut, ~hist.raced PROVE FALSE
    OBVIOUS
  <2>0. ap \in APType /\ pc \in [Threads -> Places]
    BY DEF KeysInv, TInv, TypeOK
  <2>1. CASE RetryFails
    BY <2>0, <2>1
       DEF RetryFails, KeysInv, OpenOK, AloneOK, StateOK, Resting, TimesOut
  <2>2. CASE ~RetryFails
    BY <2>0, <2>2, OnlyTimeout DEF TimesOut
  <2> QED
    BY <2>1, <2>2
<1> QED
  BY <1>1, KeysInit, KeysStep, PTL DEF Spec, FinishedStaysUp

-----------------------------------------------------------------------------
(***************************************************************************)
(* The group key, as long as the two threads have not been in the          *)
(* handshake at once, no group key came in the middle of one and nothing   *)
(* failed to be allocated.                                                 *)
(***************************************************************************)
Smooth == ~hist.raced /\ ~hist.crossed /\ ~hist.nomem

\* Messages 3 and the first of the group handshake deliver the group key; the
\* MLME thread takes their answers through these places.
Delivers == {"m3", "g1"}
Answers == {"m4", "g2"}
Looking == {"m4sanity", "g2sanity"}
Accepted == {"m4cancel", "g2cancel", "g2done"} \cup Opening
Answer(f) == OnAir(f, toAp) \/ (pc["mlme"] \in Looking /\ f = buf["mlme"])

\* The client has answered nothing it has not taken.
AnswerOK ==
  /\ \A f \in Frames : Answer(f) => f.rc <= sta.ReplayCounter
  /\ pc["mlme"] = "g2sanity" => buf["mlme"].t = "g2"
  /\ pc["mlme"] \in {"g2sanity", "g2cancel", "g2done"} => ap.PortSecured

\* Before the handshake is begun no message has delivered a group key.
NoneDelivered ==
  ap.WpaState = "INITPSK" =>
    /\ ~ap.PortSecured
    /\ \A f \in Frames : OnAir(f, toSta) => f.t \notin Delivers
    /\ \A f \in Frames : OnAir(f, toAp) => f.t \notin Answers
    /\ \A t \in Threads : buf[t].t \notin Delivers
    /\ ap.MsgType \notin Delivers
    /\ pc["mlme"] \notin Looking \cup Accepted

\* One thread is at rest, and one retry at most is due, none while a message
\* is built or its answer is accepted.
OneThread == pc["mlme"] = "idle" \/ pc["timer"] \in Resting
RetryOK ==
  /\ retry.queued = 0 \/ (retry.queued = 1 /\ ~retry.armed)
  /\ pc["mlme"] \in Alone \cup {"g2done"} => Quiet
  /\ pc["timer"] \in Alone \cup {"count", "again"} => Quiet

\* Between two group handshakes no retry is due, and only then is the
\* station told that there is a new key.  The first one ends while message 4
\* is on its way to the port.
Open == ap.PortSecured \/ pc["mlme"] \in {"m4group", "m4open"}
Settled == Open /\ ap.GTKState # "NEGOTIATING"
SettledOK == Settled => Quiet /\ pc["timer"] \in Resting
ArmedOK == group.armed => Settled

\* A message that delivers a group key and has the present replay counter
\* delivers the present key, or a message with a newer counter is due, or the
\* station has yet to be looked at.
Due == \/ group.armed \/ pc["timer"] = "rekey"
       \/ pc["timer"] \in {"read", "write"} /\ buf["timer"].t = "g1"
CarriedOK ==
  /\ \A f \in Frames :
       OnAir(f, toSta) /\ f.t \in Delivers /\ f.rc = ap.ReplayCounter =>
         f.g = group.gtk \/ Due
  /\ \A t \in Threads : pc[t] = "send" /\ buf[t].t \in Delivers =>
                           buf[t].g = group.gtk \/ Due

\* So does the answer to it mean that the client has that key.
HasKey == sta.ReplayCounter = ap.ReplayCounter /\ (sta.gtk = group.gtk \/ Due)
AnsweredOK ==
  /\ \A f \in Frames :
       Answer(f) /\ f.t \in Answers /\ f.rc = ap.ReplayCounter => HasKey
  /\ pc["mlme"] \in Accepted => HasKey
EstablishedOK == ap.GTKState = "ESTABLISHED" => Open /\ HasKey

SmoothInv ==
  /\ OneThread /\ RetryOK /\ SettledOK /\ ArmedOK
  /\ CarriedOK /\ AnsweredOK /\ EstablishedOK
GroupInv == KeysInv /\ AnswerOK /\ NoneDelivered /\ (Smooth => SmoothInv)

\* What a step of the building of a message does to what these parts read.
BuildMoves(t) ==
  /\ UNCHANGED <<group, sta, toAp>>
  /\ \A u \in Threads : u # t => pc'[u] = pc[u] /\ buf'[u] = buf[u]
  /\ pc[t] \in Builds /\ pc'[t] \in Builds \cup {"idle"}
  /\ hist' = hist \/ hist'.nomem
  /\ ap'.PortSecured = ap.PortSecured
  /\ ap'.WpaState = ap.WpaState \/ ap'.WpaState = "PTKSTART"
  /\ ap'.GTKState = ap.GTKState \/ ap'.GTKState = "NEGOTIATING"
  /\ ap'.MsgType = ap.MsgType \/ ap'.MsgType = buf[t].t
  /\ IF pc[t] = "write"
       THEN ap'.ReplayCounter = buf[t].rc /\ pc'[t] \in {"nonce", "install", "mark"}
       ELSE ap'.ReplayCounter = ap.ReplayCounter
  /\ pc[t] = "read" => pc'[t] = "write" \/ hist'.nomem
  /\ pc'[t] # "idle" => buf'[t].t = buf[t].t
  /\ pc'[t] = "idle" => buf'[t].t = "none"
  /\ pc'[t] = "send" /\ buf'[t].t \in Delivers => buf'[t].g = group.gtk
  /\ IF pc[t] = "send" THEN toSta' \in Sent(toSta, buf[t]) ELSE toSta' = toSta
  /\ pc[t] = "arm" => pc'[t] \in {"idle", "state"}
                      /\ retry'.queued = retry.queued
  /\ pc[t] = "state" => pc'[t] = "idle"
  /\ pc[t] # "arm" => retry' = retry

LEMMA BuildFacts ==
  ASSUME TInv, NEW t \in Threads, Building(t)
  PROVE  BuildMoves(t)
<1>0. /\ ap \in APType /\ pc \in [Threads -> Places] /\ buf \in [Threads -> Frames]
      /\ hist \in HistType /\ retry \in RetryType
      /\ buf[t] \in Frames /\ buf[t].t \in Messages
  BY FrameSet DEF TInv, TypeOK
<1>1. NoFrame.t = "none"
  BY DEF NoFrame, Frame
<1> USE DEF BuildMoves, Builds, Goto, SetAp, Done, HasMemory, Delivers
<1>2. CASE BuildCheck(t) \/ BuildState(t)
  BY <1>0, <1>1, <1>2 DEF BuildCheck, BuildState, APType
<1>3. CASE BuildRead(t)
  BY <1>0, <1>1, <1>3 DEF BuildRead, OutOfMemory, Frames, HistType
<1>4. CASE BuildWrite(t) \/ BuildInstall(t) \/ BuildMark(t)
  BY <1>0, <1>4 DEF BuildWrite, BuildInstall, BuildMark, APType
<1>5. CASE BuildNonce(t)
  BY <1>0, <1>1, <1>5 DEF BuildNonce, APType, OutOfMemory, HistType
<1>6. CASE BuildMake(t)
  <2>1. /\ buf' = [buf EXCEPT ![t] = WPAConstructEapolMsg(buf[t].t)]
        /\ pc[t] = "make" /\ pc' = [pc EXCEPT ![t] = "send"]
        /\ UNCHANGED <<ap, retry, group, sta, toSta, toAp, hist>>
    BY <1>6 DEF BuildMake
  <2>2. /\ buf'[t].t = buf[t].t
        /\ buf[t].t \in Delivers => buf'[t].g = group.gtk
    BY <1>0, <2>1 DEF WPAConstructEapolMsg, Frame
  <2> QED
    BY <1>0, <2>1, <2>2
<1>7. CASE BuildSend(t) \/ BuildArm(t)
  BY <1>0, <1>1, <1>7 DEF BuildSend, BuildArm, Armed, RetryType
<1> QED
  BY <1>2, <1>3, <1>4, <1>5, <1>6, <1>7 DEF Building

\* While a message is built the handshake is under way.
LEMMA BuildUnderWay ==
  ASSUME GroupInv, Smooth, NEW t \in Threads, pc[t] \in Builds
  PROVE  /\ ~group.armed /\ ap.GTKState # "ESTABLISHED"
         /\ ~Settled /\ pc["mlme"] \notin {"m4group", "m4open"}
<1>1. ~Settled /\ pc["mlme"] \notin {"m4group", "m4open"}
  <2>1. CASE t = "timer"
    BY <2>1 DEF GroupInv, SmoothInv, SettledOK, OneThread, Builds, Resting
  <2>2. CASE t = "mlme"
    BY <2>2 DEF GroupInv, Smooth, KeysInv, OpenOK, Settled, Open, Builds
  <2> QED
    BY <2>1, <2>2 DEF Threads
<1> QED
  BY <1>1 DEF GroupInv, SmoothInv, ArmedOK, EstablishedOK, Settled

\* As long as nothing raced no replay counter is ahead of the access point's.
LEMMA NoneAhead ==
  ASSUME KeysInv, ~hist.raced
  PROVE  /\ sta.ReplayCounter <= ap.ReplayCounter
         /\ \A f \in Frames : OnAir(f, toSta) => f.rc <= ap.ReplayCounter
         /\ \A t \in Threads : pc[t] = "write" => buf[t].rc = ap.ReplayCounter + 1
         /\ ap.ReplayCounter \in Nat /\ sta.ReplayCounter \in Nat
         /\ \A f \in Frames : f.rc \in Nat
<1>1. /\ ap.ReplayCounter \in Nat /\ sta.ReplayCounter \in Nat
      /\ \A f \in Frames : f.rc \in Nat
  BY APGet, StaGet, FrameSet DEF KeysInv, TInv, TypeOK
<1>2. CounterOK
  BY DEF KeysInv
<1>3. \A n \in Nat : Behind(n) => n <= ap.ReplayCounter
  BY <1>1 DEF Behind
<1> QED
  BY <1>1, <1>2, <1>3 DEF CounterOK

LEMMA GroupBuild ==
  ASSUME GroupInv, KeysInv', NEW t \in Threads, Building(t)
  PROVE  GroupInv'
<1>0. /\ BuildMoves(t) /\ KeysInv /\ AnswerOK /\ NoneDelivered
      /\ pc \in [Threads -> Places] /\ toSta \in Seq(Frames)
      /\ buf \in [Threads -> Frames] /\ hist \in HistType
      /\ buf' \in [Threads -> Frames]
  BY BuildFacts DEF GroupInv, KeysInv, TInv, TypeOK
<1>1. AnswerOK'
  <2>1. \A f : Answer(f)' => Answer(f)
    BY <1>0 DEF BuildMoves, Answer, Looking, Builds, Threads
  <2> QED
    BY <1>0, <2>1 DEF BuildMoves, AnswerOK, Builds, Threads
<1>2. NoneDelivered'
  <2> SUFFICES ASSUME ap.WpaState = "INITPSK", ap'.WpaState = "INITPSK"
               PROVE  NoneDelivered'
    BY <1>0 DEF NoneDelivered, BuildMoves
  <2>1. \A f \in Frames : OnAir(f, toSta') => f.t \notin Delivers
    <3>1. \A f : OnAir(f, toSta') => OnAir(f, toSta) \/ f = buf[t]
      BY <1>0, OnSent DEF BuildMoves
    <3> QED
      BY <1>0, <3>1 DEF NoneDelivered
  <2>2. \A u \in Threads : buf'[u].t \notin Delivers
    BY <1>0 DEF BuildMoves, NoneDelivered, Delivers
  <2>3. ap'.MsgType \notin Delivers
    BY <1>0 DEF BuildMoves, NoneDelivered
  <2>4. pc'["mlme"] \notin Looking \cup Accepted
    BY <1>0 DEF BuildMoves, NoneDelivered, Looking, Accepted, Opening, Builds,
                Threads
  <2> QED
    BY <1>0, <2>1, <2>2, <2>3, <2>4 DEF NoneDelivered, BuildMoves
<1>3. ASSUME Smooth' PROVE SmoothInv'
  <2>0. Smooth /\ SmoothInv /\ hist' = hist
    BY <1>0, <1>3 DEF BuildMoves, Smooth, GroupInv
  <2>1. /\ ~group.armed /\ ~group'.armed /\ ap.GTKState # "ESTABLISHED"
        /\ ap'.GTKState # "ESTABLISHED"
        /\ ~Settled'
    BY <1>0, <2>0, BuildUnderWay
       DEF BuildMoves, Settled, Open, Builds, Threads
  <2>2. SettledOK' /\ ArmedOK' /\ EstablishedOK'
    BY <2>1 DEF SettledOK, ArmedOK, EstablishedOK
  <2>3. \A u \in Threads :
          u # t => /\ pc'[u] = pc[u] /\ pc[u] \in Resting
                   /\ pc[u] = "idle" \/ u = "timer"
    BY <1>0, <2>0
       DEF SmoothInv, OneThread, BuildMoves, Builds, Threads, Resting, KeysInv,
           PlaceOK
  <2>4. OneThread'
    BY <2>3 DEF OneThread, Threads
  <2>5. RetryOK'
    <3>1. CASE pc[t] = "state"
      BY <1>0, <2>0, <2>3, <3>1
         DEF SmoothInv, RetryOK, BuildMoves, Quiet, Alone, Builds, Threads,
             Opening, Resting
    <3>2. CASE pc[t] # "state"
      <4>1. Quiet
        BY <1>0, <2>0, <3>2 DEF SmoothInv, RetryOK, BuildMoves, Alone, Threads
      <4> QED
        BY <1>0, <2>3, <3>2, <4>1
           DEF RetryOK, BuildMoves, Quiet, Alone, Builds, Threads, Opening,
               Resting
    <3> QED
      BY <3>1, <3>2
  <2>6. CASE pc[t] = "write"
    <3>1. /\ ap'.ReplayCounter = ap.ReplayCounter + 1 /\ toSta' = toSta
          /\ pc'[t] # "send" /\ pc'["mlme"] \notin Accepted
      BY <1>0, <2>0, <2>3, <2>6, NoneAhead
         DEF BuildMoves, Smooth, Threads, Accepted, Opening
    <3>2. CarriedOK'
      <4>1. \A f \in Frames : OnAir(f, toSta') => f.rc # ap'.ReplayCounter
        BY <1>0, <2>0, <3>1, NoneAhead DEF Smooth
      <4> QED
        BY <2>3, <3>1, <4>1 DEF CarriedOK, Threads, Resting
    <3>3. AnsweredOK'
      <4>1. \A f \in Frames : Answer(f)' => f.rc # ap'.ReplayCounter
        <5>1. \A f \in Frames : Answer(f)' => f.rc <= sta.ReplayCounter
          BY <1>0, <1>1 DEF AnswerOK, BuildMoves
        <5> QED
          BY <1>0, <2>0, <3>1, <5>1, NoneAhead DEF Smooth
      <4> QED
        BY <3>1, <4>1 DEF AnsweredOK
    <3> QED
      BY <2>0, <2>2, <2>4, <2>5, <3>2, <3>3 DEF SmoothInv
  <2>7. CASE pc[t] # "write"
    <3>1. /\ ap'.ReplayCounter = ap.ReplayCounter
          /\ group' = group /\ sta' = sta /\ (Due => Due')
      BY <1>0, <2>0, <2>1, <2>3, <2>7, <1>3
         DEF BuildMoves, Due, Smooth, Threads, Builds, Resting
    <3>2. CarriedOK'
      <4>1. \A f : OnAir(f, toSta') =>
                     OnAir(f, toSta) \/ (pc[t] = "send" /\ f = buf[t])
        BY <1>0, OnSent DEF BuildMoves
      <4>2. \A u \in Threads : pc'[u] = "send" /\ buf'[u].t \in Delivers =>
                                  buf'[u].g = group.gtk
        BY <1>0, <2>3 DEF BuildMoves, Resting
      <4> QED
        BY <2>0, <3>1, <4>1, <4>2 DEF SmoothInv, CarriedOK
    <3>3. AnsweredOK'
      <4>1. \A f : Answer(f)' => Answer(f)
        BY <1>0 DEF BuildMoves, Answer, Looking, Builds, Threads
      <4>2. pc'["mlme"] \notin Accepted
        BY <1>0, <2>3 DEF BuildMoves, Accepted, Opening, Builds, Threads
      <4> QED
        BY <2>0, <3>1, <4>1, <4>2 DEF SmoothInv, AnsweredOK, HasKey
    <3> QED
      BY <2>0, <2>2, <2>4, <2>5, <3>2, <3>3 DEF SmoothInv
  <2> QED
    BY <2>6, <2>7
<1> QED
  BY <1>0, <1>1, <1>2, <1>3 DEF GroupInv

\* What none of these parts reads may change.
LEMMA GroupSame ==
  ASSUME GroupInv, KeysInv',
         UNCHANGED <<ap, pc, buf, retry, group, sta, toSta, toAp, hist>>
  PROVE  GroupInv'
BY DEF GroupInv, AnswerOK, NoneDelivered, Smooth, SmoothInv, OneThread, RetryOK,
       SettledOK, ArmedOK, CarriedOK, AnsweredOK, EstablishedOK, Answer, HasKey,
       Due, Quiet, Settled, Open

\* A step that cannot get what it needs.
LEMMA GroupLacks ==
  ASSUME GroupInv, KeysInv', OutOfMemory,
         UNCHANGED <<ap, pc, buf, sta, toSta, toAp>>
  PROVE  GroupInv'
<1>1. ~Smooth'
  BY DEF OutOfMemory, Smooth, GroupInv, KeysInv, TInv, TypeOK, HistType
<1> QED
  BY <1>1 DEF GroupInv, AnswerOK, NoneDelivered, Answer

LEMMA GroupFourWay ==
  ASSUME GroupInv, KeysInv', WPAStartFor4WayExec
  PROVE  GroupInv'
BY GroupSame, GroupLacks DEF WPAStartFor4WayExec, HasMemory

\* The handshake begins with nothing on the air.
LEMMA GroupStart ==
  ASSUME GroupInv, KeysInv', WpaEAPOLStartAction
  PROVE  GroupInv'
<1>0. /\ KeysInv /\ ap \in APType /\ pc \in [Threads -> Places]
      /\ buf \in [Threads -> Frames]
      /\ UNCHANGED <<retry, group, sta, toSta, toAp, hist>>
  BY DEF GroupInv, KeysInv, TInv, TypeOK, WpaEAPOLStartAction
<1>1. CASE UNCHANGED <<ap, pc, buf>>
  BY <1>0, <1>1, GroupSame
<1>2. CASE ~UNCHANGED <<ap, pc, buf>>
  <2>1. /\ start # "done" /\ ~ap.PortSecured
        /\ ap' = [ap EXCEPT !.ReplayCounter = 0, !.MsgRetryCounter = 0]
        /\ pc' = [pc EXCEPT !["mlme"] = "check"]
        /\ buf' = [buf EXCEPT !["mlme"] = [NoFrame EXCEPT !.t = "m1"]]
    BY <1>2 DEF WpaEAPOLStartAction, Build, Goto
  <2>2. /\ \A f : ~OnAir(f, toSta) /\ ~OnAir(f, toAp)
        /\ pc["timer"] \in Resting /\ Quiet /\ pc["mlme"] = "idle"
    BY <1>0, <2>1 DEF KeysInv, Begun, OnAir, Quiet, Threads
  <2>3. /\ ~ap'.PortSecured /\ ap'.GTKState = ap.GTKState
        /\ ap'.MsgType = ap.MsgType /\ ap'.WpaState = ap.WpaState
        /\ pc'["mlme"] = "check" /\ pc'["timer"] = pc["timer"]
        /\ buf'["timer"] = buf["timer"] /\ buf'["mlme"].t = "m1"
    BY <1>0, <2>1, <2>2 DEF APType, Threads, NoFrame, Frame
  <2>4. AnswerOK'
    BY <1>0, <2>2, <2>3 DEF AnswerOK, Answer, Looking
  <2>5. NoneDelivered'
    BY <1>0, <2>2, <2>3
       DEF GroupInv, NoneDelivered, Delivers, Looking, Accepted, Opening,
           Threads
  <2>6. ASSUME Smooth' PROVE SmoothInv'
    <3>0. Smooth /\ SmoothInv
      BY <1>0, <2>6 DEF GroupInv, Smooth
    <3>1. ~group'.armed /\ ap'.GTKState # "ESTABLISHED" /\ ~Settled'
      BY <1>0, <2>1, <2>2, <2>3, <3>0
         DEF SmoothInv, ArmedOK, EstablishedOK, Settled, Open
    <3> QED
      BY <1>0, <2>2, <2>3, <3>1
         DEF SmoothInv, OneThread, RetryOK, SettledOK, ArmedOK, CarriedOK,
             AnsweredOK, EstablishedOK, Answer, Looking, Accepted, Quiet,
             Threads, Opening, Resting, Alone, Builds
  <2> QED
    BY <2>4, <2>5, <2>6 DEF GroupInv
<1> QED
  BY <1>1, <1>2

\* A frame is taken by the MLME thread.
LEMMA GroupTake ==
  ASSUME GroupInv, KeysInv',
         \/ PeerPairMsg2Action \/ PeerPairMsg4Action \/ PeerGroupMsg2Action
  PROVE  GroupInv'
<1>0. /\ KeysInv /\ ap \in APType /\ pc \in [Threads -> Places]
      /\ buf \in [Threads -> Frames] /\ toAp \in Seq(Frames) /\ hist \in HistType
  BY DEF GroupInv, KeysInv, TInv, TypeOK
<1>1. /\ UNCHANGED <<ap, retry, group, sta, toSta>>
      /\ toAp # <<>> /\ toAp' = Tail(toAp) /\ pc["mlme"] = "idle"
  BY DEF PeerPairMsg2Action, PeerPairMsg4Action, PeerGroupMsg2Action, Take
<1>2. /\ OnAir(Head(toAp), toAp) /\ \A f : OnAir(f, toAp') => OnAir(f, toAp)
  BY <1>0, <1>1, OnTail
<1>3. CASE UNCHANGED <<pc, buf, hist>>
  <2>1. \A f : Answer(f)' => Answer(f)
    BY <1>2, <1>3 DEF Answer
  <2> QED
    BY <1>0, <1>1, <1>2, <1>3, <2>1
       DEF GroupInv, AnswerOK, NoneDelivered, Smooth, SmoothInv, OneThread,
           RetryOK, SettledOK, ArmedOK, CarriedOK, AnsweredOK, EstablishedOK,
           HasKey, Due, Quiet, Settled, Open
<1>4. CASE ~UNCHANGED <<pc, buf, hist>>
  <2>1. /\ Raced("timer") /\ ap.WpaState # "INITPSK"
        /\ buf' = [buf EXCEPT !["mlme"] = Head(toAp)]
        /\ \E p \in {"m2derive", "m4sanity", "g2sanity"} :
             /\ pc' = [pc EXCEPT !["mlme"] = p]
             /\ p = "g2sanity" => /\ ap.WpaState = "PTKINITDONE"
                                  /\ Head(toAp).t = "g2"
    BY <1>4 DEF PeerPairMsg2Action, PeerPairMsg4Action, PeerGroupMsg2Action,
                Take, Goto
  <2>2. /\ pc'["mlme"] \in {"m2derive", "m4sanity", "g2sanity"}
        /\ pc'["timer"] = pc["timer"] /\ buf'["timer"] = buf["timer"]
        /\ buf'["mlme"] = Head(toAp)
        /\ pc'["mlme"] = "g2sanity" => ap.PortSecured /\ Head(toAp).t = "g2"
    BY <1>0, <1>1, <2>1 DEF Threads, KeysInv, StateOK
  <2>3. \A f : Answer(f)' => Answer(f)
    BY <1>2, <2>2 DEF Answer
  <2>4. AnswerOK'
    BY <1>0, <1>1, <2>2, <2>3 DEF GroupInv, AnswerOK
  <2>5. NoneDelivered'
    BY <1>1, <2>1 DEF NoneDelivered
  <2>6. ASSUME Smooth' PROVE SmoothInv'
    <3>0. Smooth /\ SmoothInv /\ pc["timer"] \in Resting
      BY <1>0, <2>1, <2>6 DEF GroupInv, Smooth, Raced, HistType
    <3>5. Open' <=> Open
      BY <1>1, <2>2 DEF Open
    <3>1. Due' <=> Due
      BY <1>1, <2>2 DEF Due
    <3>2. CarriedOK'
      BY <1>1, <2>2, <3>0, <3>1 DEF SmoothInv, CarriedOK, Threads, Resting
    <3>3. AnsweredOK' /\ EstablishedOK'
      BY <1>1, <2>2, <2>3, <3>0, <3>1, <3>5
         DEF SmoothInv, AnsweredOK, EstablishedOK, HasKey, Accepted, Opening
    <3> QED
      BY <1>1, <2>2, <3>0, <3>2, <3>3, <3>5
         DEF SmoothInv, OneThread, RetryOK, SettledOK, ArmedOK, Quiet, Alone,
             Builds, Opening, Resting, Settled
  <2> QED
    BY <2>4, <2>5, <2>6 DEF GroupInv
<1> QED
  BY <1>3, <1>4

\* The MLME thread derives the key of message 2, and answers with message 3.
LEMMA GroupDerive ==
  ASSUME GroupInv, KeysInv', M2Derive \/ M2Reset \/ M2State
  PROVE  GroupInv'
<1>0. /\ KeysInv /\ ap \in APType /\ pc \in [Threads -> Places]
      /\ buf \in [Threads -> Frames]
      /\ UNCHANGED <<retry, group, sta, toSta, toAp, hist>>
  BY DEF GroupInv, KeysInv, TInv, TypeOK, M2Derive, M2Reset, M2State
<1>1. /\ pc'["timer"] = pc["timer"] /\ buf'["timer"] = buf["timer"]
      /\ ap'.ReplayCounter = ap.ReplayCounter /\ ap'.GTKState = ap.GTKState
      /\ ap'.PortSecured = ap.PortSecured /\ ap'.MsgType = ap.MsgType
      /\ \/ /\ pc["mlme"] = "m2derive" /\ pc'["mlme"] = "m2sanity"
            /\ buf' = buf /\ ap'.WpaState = ap.WpaState
         \/ /\ pc["mlme"] = "m2reset" /\ pc'["mlme"] = "m2state"
            /\ buf' = buf /\ ap'.WpaState = ap.WpaState
         \/ /\ pc["mlme"] = "m2state" /\ pc'["mlme"] = "read"
            /\ ap'.WpaState = "NEGOTIATING"
  BY <1>0 DEF M2Derive, M2Reset, M2State, SetAp, Goto, Build, APType, Threads
<1>2. AnswerOK'
  BY <1>0, <1>1 DEF GroupInv, AnswerOK, Answer, Looking
<1>3. NoneDelivered'
  BY <1>0, <1>1 DEF GroupInv, NoneDelivered, Looking, Accepted, Opening
<1>4. ASSUME Smooth' PROVE SmoothInv'
  <2>0. Smooth /\ SmoothInv /\ pc["timer"] \in Resting /\ (Open' <=> Open)
    BY <1>0, <1>1, <1>4 DEF GroupInv, Smooth, SmoothInv, OneThread, Open
  <2>1. (Due' <=> Due) /\ \A f : Answer(f)' => Answer(f)
    BY <1>0, <1>1 DEF Due, Answer, Looking
  <2>2. CarriedOK'
    BY <1>0, <1>1, <2>0, <2>1 DEF SmoothInv, CarriedOK, Threads, Resting
  <2>3. AnsweredOK' /\ EstablishedOK'
    BY <1>0, <1>1, <2>0, <2>1
       DEF SmoothInv, AnsweredOK, EstablishedOK, HasKey, Accepted, Opening
  <2> QED
    BY <1>0, <1>1, <2>0, <2>2, <2>3
       DEF SmoothInv, OneThread, RetryOK, SettledOK, ArmedOK, Quiet, Alone,
           Builds, Settled, Opening, Resting
<1> QED
  BY <1>2, <1>3, <1>4 DEF GroupInv

\* A frame is looked at: an answer with the present replay counter is
\* accepted, all else dropped.
LEMMA GroupSanity ==
  ASSUME GroupInv, KeysInv', M2Sanity \/ M4Sanity \/ G2Sanity
  PROVE  GroupInv'
<1>0. /\ KeysInv /\ ap \in APType /\ pc \in [Threads -> Places]
      /\ buf \in [Threads -> Frames] /\ hist \in HistType
      /\ UNCHANGED <<ap, retry, group, sta, toSta, toAp>>
  BY DEF GroupInv, KeysInv, TInv, TypeOK, M2Sanity, M4Sanity, G2Sanity, Sanity
<1>1. /\ pc'["timer"] = pc["timer"] /\ buf'["timer"] = buf["timer"]
      /\ pc["mlme"] \in {"m2sanity", "m4sanity", "g2sanity"}
      /\ \/ /\ pc'["mlme"] = "idle" /\ buf'["mlme"].t = "none"
            /\ hist' = hist \/ hist'.nomem
         \/ /\ buf' = buf /\ hist' = hist
            /\ pc'["mlme"] \in {"m2cancel", "m4cancel", "g2cancel"}
            /\ pc'["mlme"] = "m2cancel" <=> pc["mlme"] = "m2sanity"
            /\ pc'["mlme"] = "g2cancel" <=> pc["mlme"] = "g2sanity"
            /\ buf["mlme"].rc = ap.ReplayCounter
  BY <1>0 DEF M2Sanity, M4Sanity, G2Sanity, Sanity, Goto, Done, HasMemory,
              OutOfMemory, SanityToAp, Threads, NoFrame, Frame, HistType
<1>2. AnswerOK'
  BY <1>0, <1>1 DEF GroupInv, AnswerOK, Answer, Looking
<1>3. NoneDelivered'
  BY <1>0, <1>1
     DEF GroupInv, NoneDelivered, Looking, Accepted, Opening, Delivers, Threads
<1>4. ASSUME Smooth' PROVE SmoothInv'
  <2>0. Smooth /\ SmoothInv /\ pc["timer"] \in Resting /\ (Open' <=> Open)
    BY <1>0, <1>1, <1>4 DEF GroupInv, Smooth, SmoothInv, OneThread, Open
  <2>1. (Due' <=> Due) /\ \A f : Answer(f)' => Answer(f)
    BY <1>0, <1>1 DEF Due, Answer, Looking
  <2>2. CarriedOK'
    BY <1>0, <1>1, <2>0, <2>1 DEF SmoothInv, CarriedOK, Threads, Resting
  <2>3. pc'["mlme"] \in Accepted => HasKey
    <3>1. pc["mlme"] \in Looking => buf["mlme"].t \in Answers
      BY DEF GroupInv, KeysInv, PlaceOK, AnswerOK, Looking, Answers, Threads
    <3> QED
      BY <1>0, <1>1, <2>0, <3>1
         DEF SmoothInv, AnsweredOK, Answer, Accepted, Opening, Looking, Threads
  <2>4. AnsweredOK' /\ EstablishedOK'
    BY <1>0, <1>1, <2>0, <2>1, <2>3
       DEF SmoothInv, AnsweredOK, EstablishedOK, HasKey
  <2> QED
    BY <1>0, <1>1, <2>0, <2>2, <2>4
       DEF SmoothInv, OneThread, RetryOK, SettledOK, ArmedOK, Quiet, Alone,
           Builds, Settled, Opening, Resting
<1> QED
  BY <1>2, <1>3, <1>4 DEF GroupInv

\* The timer is cancelled for an answer that is accepted.
LEMMA GroupCancel ==
  ASSUME GroupInv, KeysInv', M2Cancel \/ M4Cancel \/ G2Cancel
  PROVE  GroupInv'
<1>0. /\ KeysInv /\ pc \in [Threads -> Places] /\ retry \in RetryType
      /\ retry.queued \in Nat
      /\ UNCHANGED <<ap, buf, group, sta, toSta, toAp, hist>> /\ RTMPCancelTimer
  BY RetrySet DEF GroupInv, KeysInv, TInv, TypeOK, M2Cancel, M4Cancel, G2Cancel,
                  CancelThen
<1>1. /\ pc'["timer"] = pc["timer"]
      /\ pc["mlme"] \in {"m2cancel", "m4cancel", "g2cancel"}
      /\ pc'["mlme"] \in {"m2reset", "m4state", "g2done"}
      /\ pc'["mlme"] \in Accepted => pc["mlme"] \in Accepted
      /\ pc'["mlme"] = "g2done" => pc["mlme"] = "g2cancel"
  BY <1>0 DEF M2Cancel, M4Cancel, G2Cancel, CancelThen, Goto, Threads, Accepted,
              Opening
<1>2. AnswerOK'
  BY <1>0, <1>1 DEF GroupInv, AnswerOK, Answer, Looking
<1>3. NoneDelivered'
  BY <1>0, <1>1 DEF GroupInv, NoneDelivered, Looking, Accepted, Opening
<1>4. ASSUME Smooth' PROVE SmoothInv'
  <2>0. Smooth /\ SmoothInv /\ pc["timer"] \in Resting /\ (Open' <=> Open)
    BY <1>0, <1>1, <1>4 DEF GroupInv, Smooth, SmoothInv, OneThread, Open
  <2>1. (Due' <=> Due) /\ \A f : Answer(f)' => Answer(f)
    BY <1>0, <1>1 DEF Due, Answer, Looking
  <2>2. Quiet'
    BY <1>0, <2>0 DEF RTMPCancelTimer, Quiet, SmoothInv, RetryOK
  <2>3. CarriedOK'
    BY <1>0, <1>1, <2>0, <2>1 DEF SmoothInv, CarriedOK, Threads, Resting
  <2>4. AnsweredOK' /\ EstablishedOK'
    BY <1>0, <1>1, <2>0, <2>1 DEF SmoothInv, AnsweredOK, EstablishedOK, HasKey
  <2> QED
    BY <1>0, <1>1, <2>0, <2>2, <2>3, <2>4
       DEF SmoothInv, OneThread, RetryOK, SettledOK, ArmedOK, Quiet, Settled,
           Resting, Alone, Builds
<1> QED
  BY <1>2, <1>3, <1>4 DEF GroupInv

\* Message 4, or the second of the group handshake, is acted upon: what was
\* accepted says the client has the key.
LEMMA GroupDone ==
  ASSUME GroupInv, KeysInv', M4State \/ M4Group \/ M4Open \/ G2Done
  PROVE  GroupInv'
<1>0. /\ KeysInv /\ ap \in APType /\ pc \in [Threads -> Places]
      /\ buf \in [Threads -> Frames]
      /\ UNCHANGED <<retry, group, sta, toSta, toAp, hist>>
  BY DEF GroupInv, KeysInv, TInv, TypeOK, M4State, M4Group, M4Open, G2Done
<1>1. /\ pc'["timer"] = pc["timer"] /\ buf'["timer"] = buf["timer"]
      /\ ap'.ReplayCounter = ap.ReplayCounter /\ ap'.MsgType = ap.MsgType
      /\ \/ /\ pc["mlme"] = "m4state" /\ pc'["mlme"] = "m4group"
            /\ ap'.WpaState # "INITPSK" /\ ap'.PortSecured = ap.PortSecured
            /\ ap'.GTKState = ap.GTKState
         \/ /\ pc["mlme"] = "m4group" /\ pc'["mlme"] = "m4open"
            /\ ap'.WpaState = ap.WpaState /\ ap'.PortSecured = ap.PortSecured
            /\ ap'.GTKState = "ESTABLISHED"
         \/ /\ pc["mlme"] = "m4open" /\ pc'["mlme"] = "idle"
            /\ ap'.WpaState = ap.WpaState /\ ap'.PortSecured = TRUE
            /\ ap'.GTKState = ap.GTKState
         \/ /\ pc["mlme"] = "g2done" /\ pc'["mlme"] = "idle"
            /\ ap'.WpaState = ap.WpaState /\ ap.PortSecured
            /\ ap'.PortSecured = ap.PortSecured
            /\ ap'.GTKState = "ESTABLISHED"
  <2> USE <1>0 DEF Goto, Done, SetAp, APType, Threads
  <2>1. CASE M4State
    BY <2>1 DEF M4State
  <2>2. CASE M4Group
    BY <2>2 DEF M4Group
  <2>3. CASE M4Open
    BY <2>3 DEF M4Open
  <2>4. CASE G2Done
    BY <2>4 DEF G2Done, GroupInv, AnswerOK
  <2> QED
    BY <2>1, <2>2, <2>3, <2>4
<1>3. AnswerOK'
  BY <1>0, <1>1 DEF GroupInv, AnswerOK, Answer, Looking
<1>4. NoneDelivered'
  BY <1>0, <1>1 DEF GroupInv, NoneDelivered, Accepted, Opening
<1>5. ASSUME Smooth' PROVE SmoothInv'
  <2>0. Smooth /\ SmoothInv /\ pc["timer"] \in Resting
    BY <1>0, <1>1, <1>5 DEF GroupInv, Smooth, SmoothInv, OneThread
  <2>1. (Due' <=> Due) /\ \A f : Answer(f)' => Answer(f)
    BY <1>0, <1>1 DEF Due, Answer, Looking
  <2>2. Quiet' /\ HasKey'
    BY <1>0, <1>1, <2>0, <2>1
       DEF SmoothInv, RetryOK, AnsweredOK, Alone, Accepted, Opening, Quiet,
           HasKey
  <2>3. CarriedOK'
    BY <1>0, <1>1, <2>0, <2>1 DEF SmoothInv, CarriedOK, Threads, Resting
  <2>4. AnsweredOK'
    BY <1>0, <1>1, <2>2 DEF AnsweredOK
  <2>5. EstablishedOK' /\ ArmedOK'
    BY <1>0, <1>1, <2>0, <2>2
       DEF SmoothInv, EstablishedOK, ArmedOK, Settled, Open
  <2> QED
    BY <1>0, <1>1, <2>0, <2>2, <2>3, <2>4, <2>5
       DEF SmoothInv, OneThread, RetryOK, SettledOK, Quiet
<1> QED
  BY <1>3, <1>4, <1>5 DEF GroupInv

\* A group handshake begins with a message that is due, or the request for
\* it is passed over, which ArmedOK rules out unless the MLME thread is at
\* work.
LEMMA GroupBegins ==
  ASSUME GroupInv, KeysInv', WPAStartFor2WayExec
  PROVE  GroupInv'
<1>0. /\ KeysInv /\ ap \in APType /\ pc \in [Threads -> Places]
      /\ buf \in [Threads -> Frames] /\ group \in GroupType /\ hist \in HistType
      /\ group.armed /\ ~group'.armed /\ group'.gtk = group.gtk
      /\ pc["timer"] = "idle"
      /\ UNCHANGED <<retry, sta, toSta, toAp>>
  BY DEF GroupInv, KeysInv, TInv, TypeOK, WPAStartFor2WayExec, GroupType
<1>1. CASE UNCHANGED <<ap, pc, buf>> /\ Crossed("mlme")
      /\ ~(ap.PortSecured /\ ap.GTKState # "NEGOTIATING")
  <2>1. ~Smooth'
    <3>1. ASSUME Smooth PROVE pc["mlme"] # "idle"
      BY <1>0, <1>1, <3>1
         DEF GroupInv, SmoothInv, ArmedOK, Settled, Open
    <3> QED
      BY <1>0, <1>1, <3>1 DEF Smooth, Crossed, HistType
  <2> QED
    BY <1>0, <1>1, <2>1 DEF GroupInv, AnswerOK, NoneDelivered, Answer
<1>3. CASE UNCHANGED <<ap, pc, buf>> /\ OutOfMemory
  BY <1>0, <1>3, GroupLacks
<1>2. CASE /\ ap.PortSecured /\ ap.GTKState # "NEGOTIATING"
           /\ ap' = [ap EXCEPT !.MsgRetryCounter = 0, !.GTKState = "NEGOTIATING"]
           /\ Build("timer", "g1")
           /\ Crossed("mlme")
  <2>1. /\ pc'["mlme"] = pc["mlme"] /\ buf'["mlme"] = buf["mlme"]
        /\ pc'["timer"] = "read" /\ buf'["timer"].t = "g1"
        /\ ap'.ReplayCounter = ap.ReplayCounter /\ ap'.MsgType = ap.MsgType
        /\ ap'.WpaState = ap.WpaState /\ ap'.PortSecured /\ ap.PortSecured
        /\ ap'.GTKState = "NEGOTIATING"
    BY <1>0, <1>2 DEF Build, Goto, APType, NoFrame, Frame, Threads
  <2>2. \A f : Answer(f)' => Answer(f)
    BY <1>0, <2>1 DEF Answer
  <2>3. AnswerOK'
    BY <1>0, <2>1, <2>2 DEF GroupInv, AnswerOK
  <2>4. Smooth' => Smooth /\ pc["mlme"] = "idle"
    BY <1>0, <1>2 DEF Smooth, Crossed, HistType
  <2>5. NoneDelivered'
    BY <2>1 DEF GroupInv, NoneDelivered
  <2>6. ASSUME Smooth' PROVE SmoothInv'
    <3>0. Smooth /\ SmoothInv /\ Quiet /\ pc["mlme"] = "idle" /\ Due'
      BY <1>0, <1>2, <2>1, <2>4, <2>6
         DEF GroupInv, SmoothInv, SettledOK, Settled, Open, Due
    <3>1. CarriedOK'
      BY <1>0, <2>1, <3>0 DEF CarriedOK, Threads
    <3>2. AnsweredOK' /\ EstablishedOK'
      BY <1>0, <2>1, <2>2, <3>0
         DEF SmoothInv, AnsweredOK, EstablishedOK, HasKey, Accepted, Opening
    <3> QED
      BY <1>0, <2>1, <3>0, <3>1, <3>2
         DEF SmoothInv, OneThread, RetryOK, SettledOK, ArmedOK, Quiet, Alone,
             Builds, Settled, Opening
  <2> QED
    BY <2>3, <2>5, <2>6 DEF GroupInv
<1> QED
  BY <1>1, <1>2, <1>3 DEF WPAStartFor2WayExec

\* A retry: it begins only when one was due, and a group handshake that has
\* been retried enough fails with nothing due.
LEMMA GroupRetry ==
  ASSUME GroupInv, KeysInv', Retry, ~Building("timer")
  PROVE  GroupInv'
<1>0. /\ KeysInv /\ ap \in APType /\ pc \in [Threads -> Places]
      /\ buf \in [Threads -> Frames] /\ hist \in HistType /\ retry \in RetryType
      /\ retry.queued \in Nat
      /\ UNCHANGED <<group, sta, toSta, toAp>>
  BY RetrySet
     DEF GroupInv, KeysInv, TInv, TypeOK, Retry, WPAHandshakeMsgRetryExec,
         RetryCount, RetryAgain, RetryGroupFails, RetryFails, MlmeDeAuthAction
<1>1. /\ pc'["mlme"] = pc["mlme"] /\ buf'["mlme"] = buf["mlme"]
      /\ ap'.ReplayCounter = ap.ReplayCounter /\ ap'.MsgType = ap.MsgType
      /\ ap'.PortSecured = ap.PortSecured
      /\ ap'.WpaState = ap.WpaState \/ ap'.WpaState = "INITIALIZE"
      /\ buf'["timer"].t \in {buf["timer"].t, "none", ap.MsgType}
      /\ pc["timer"] \notin {"read", "write", "rekey"}
      /\ pc'["timer"] # "send"
  <2> USE <1>0 DEF SetAp, Goto, Done, APType, Threads, NoFrame, Frame
  <2>1. CASE WPAHandshakeMsgRetryExec \/ RetryCount
    BY <2>1 DEF WPAHandshakeMsgRetryExec, RetryCount
  <2>2. CASE RetryAgain
    BY <2>2 DEF RetryAgain, Build
  <2>3. CASE RetryGroupFails
    BY <2>3 DEF RetryGroupFails
  <2>5. CASE RetryFails
    BY <2>5 DEF RetryFails
  <2>4. CASE MlmeDeAuthAction
    BY <2>4 DEF MlmeDeAuthAction
  <2> QED
    BY <2>1, <2>2, <2>3, <2>4, <2>5 DEF Retry
<1>2. \A f : Answer(f)' => Answer(f)
  BY <1>0, <1>1 DEF Answer
<1>3. AnswerOK'
  BY <1>0, <1>1, <1>2 DEF GroupInv, AnswerOK
<1>4. NoneDelivered'
  BY <1>0, <1>1 DEF GroupInv, NoneDelivered, Delivers, Threads
<1>5. ASSUME Smooth' PROVE SmoothInv'
  <2>0. Smooth /\ SmoothInv /\ OpenOK
    BY <1>0, <1>5
       DEF GroupInv, KeysInv, Smooth, Retry, WPAHandshakeMsgRetryExec, Raced,
           RetryCount, RetryAgain, RetryGroupFails, RetryFails,
           MlmeDeAuthAction, HasMemory, OutOfMemory, HistType
  <2>1. pc["mlme"] = "idle"
    <3>1. CASE WPAHandshakeMsgRetryExec
      BY <1>0, <1>5, <3>1
         DEF WPAHandshakeMsgRetryExec, Raced, Smooth, HistType, Resting,
             KeysInv, PlaceOK, Threads
    <3>2. CASE ~WPAHandshakeMsgRetryExec
      BY <2>0, <3>2
         DEF SmoothInv, OneThread, Retry, RetryCount, RetryAgain,
             RetryGroupFails, RetryFails, MlmeDeAuthAction, Resting
    <3> QED
      BY <3>1, <3>2
  <2>2. ap'.GTKState \in {ap.GTKState, "FAILURE"}
    BY <1>0 DEF Retry, WPAHandshakeMsgRetryExec, RetryCount, RetryAgain,
                RetryGroupFails, RetryFails, MlmeDeAuthAction, SetAp, APType
  <2>3. ~Settled /\ (Open <=> ap.PortSecured) /\ (Open' <=> ap'.PortSecured)
    <3>1. pc["timer"] \notin Resting \/ retry.queued > 0
      BY DEF Retry, WPAHandshakeMsgRetryExec, RetryCount, RetryAgain,
             RetryGroupFails, RetryFails, MlmeDeAuthAction, Resting
    <3> QED
      BY <1>1, <2>0, <2>1, <3>1 DEF SmoothInv, SettledOK, Quiet, Open
  <2>4. ~group.armed /\ ap'.GTKState # "ESTABLISHED"
    BY <2>0, <2>2, <2>3 DEF SmoothInv, ArmedOK, EstablishedOK, Settled
  <2>5. RetryOK' /\ (ap.PortSecured /\ ap'.GTKState # "NEGOTIATING" =>
                       Quiet' /\ pc'["timer"] = "idle")
    <3>1. CASE WPAHandshakeMsgRetryExec
      BY <1>0, <1>1, <2>0, <2>1, <2>3, <3>1
         DEF WPAHandshakeMsgRetryExec, Goto, SmoothInv, RetryOK, Quiet, Alone,
             Builds, Threads, Settled, Open, Opening, Resting
    <3>2. CASE RetryCount
      BY <1>0, <1>1, <2>0, <2>1, <2>3, <3>2
         DEF RetryCount, Goto, SetAp, SmoothInv, RetryOK, Quiet, Alone, Builds,
             Threads, APType, Settled, Open, Opening, Resting
    <3>3. CASE RetryAgain
      BY <1>0, <1>1, <2>0, <2>1, <2>3, <3>3
         DEF RetryAgain, Build, Goto, SmoothInv, RetryOK, Quiet, Alone, Builds,
             Threads, Settled, Open, Opening, Resting
    <3>4. CASE RetryGroupFails
      BY <1>0, <1>1, <2>0, <2>1, <3>4
         DEF RetryGroupFails, Done, Goto, SmoothInv, RetryOK, Quiet, Alone,
             Builds, Threads, Settled, Open, Opening, Resting
    <3>5. CASE RetryFails
      BY <1>0, <1>1, <2>0, <2>1, <2>3, <3>5
         DEF RetryFails, Goto, SmoothInv, RetryOK, Quiet, Alone, Builds,
             Threads, OpenOK
    <3>6. CASE MlmeDeAuthAction
      BY <1>0, <1>1, <2>0, <2>1, <2>3, <3>6
         DEF MlmeDeAuthAction, Done, Goto, SmoothInv, RetryOK, Quiet, Alone,
             Builds, Threads, OpenOK, Settled, Open, Opening, Resting
    <3> QED
      BY <3>1, <3>2, <3>3, <3>4, <3>5, <3>6 DEF Retry
  <2>6. Due => Due'
    BY <1>1, <2>4 DEF Due
  <2>7. CarriedOK'
    BY <1>0, <1>1, <2>0, <2>1, <2>6 DEF SmoothInv, CarriedOK, Threads
  <2>8. AnsweredOK' /\ EstablishedOK'
    BY <1>0, <1>1, <1>2, <2>0, <2>1, <2>4, <2>6
       DEF SmoothInv, AnsweredOK, EstablishedOK, HasKey, Accepted, Opening
  <2> QED
    BY <1>0, <1>1, <2>1, <2>3, <2>4, <2>5, <2>7, <2>8
       DEF SmoothInv, OneThread, SettledOK, ArmedOK, Settled, Resting
<1> QED
  BY <1>3, <1>4, <1>5 DEF GroupInv

\* A new group key: until the station is looked at, it may be due.
LEMMA GroupNew ==
  ASSUME GroupInv, KeysInv', GroupRekeyExec
  PROVE  GroupInv'
<1>0. /\ KeysInv /\ group \in GroupType /\ pc \in [Threads -> Places]
      /\ pc["timer"] = "idle" /\ pc'["timer"] = "rekey"
      /\ pc'["mlme"] = pc["mlme"] /\ group'.armed = group.armed
      /\ UNCHANGED <<ap, buf, retry, start, sta, toSta, toAp, hist>>
  BY DEF GroupInv, KeysInv, TInv, TypeOK, GroupRekeyExec, GroupType, Goto,
         Threads
<1>1. AnswerOK' /\ NoneDelivered'
  BY <1>0 DEF GroupInv, AnswerOK, NoneDelivered, Answer
<1>2. ASSUME Smooth' PROVE SmoothInv'
  <2>0. Smooth /\ SmoothInv /\ Due' /\ (Open' <=> Open)
    BY <1>0, <1>2 DEF GroupInv, Smooth, Due, Open
  <2>1. CarriedOK' /\ AnsweredOK' /\ EstablishedOK'
    BY <1>0, <2>0
       DEF SmoothInv, CarriedOK, AnsweredOK, EstablishedOK, HasKey, Answer
  <2> QED
    BY <1>0, <2>0, <2>1
       DEF SmoothInv, OneThread, RetryOK, SettledOK, ArmedOK, Settled, Quiet,
           Alone, Opening, Builds, Resting
<1> QED
  BY <1>1, <1>2 DEF GroupInv

\* The station is looked at: a message that delivers the key is due to it if
\* it is settled, and none was ever sent if its handshake has not begun.
LEMMA GroupLooks ==
  ASSUME GroupInv, KeysInv', RekeyStation
  PROVE  GroupInv'
<1>0. /\ KeysInv /\ group \in GroupType /\ hist \in HistType
      /\ pc \in [Threads -> Places]
      /\ pc["timer"] = "rekey" /\ pc'["timer"] = "idle"
      /\ pc'["mlme"] = pc["mlme"] /\ group'.gtk = group.gtk
      /\ UNCHANGED <<ap, buf, retry, start, sta, toSta, toAp>>
      /\ group'.armed = (group.armed \/ ap.WpaState = "PTKINITDONE")
      /\ hist' = [hist EXCEPT !.crossed = @ \/ ShakingHands]
  BY DEF GroupInv, KeysInv, TInv, TypeOK, RekeyStation, GroupType, Goto, Threads
<1>1. AnswerOK' /\ NoneDelivered'
  BY <1>0 DEF GroupInv, AnswerOK, NoneDelivered, Answer
<1>2. ASSUME Smooth' PROVE SmoothInv'
  <2>0. Smooth /\ SmoothInv /\ ~ShakingHands /\ (Open' <=> Open)
    BY <1>0, <1>2 DEF GroupInv, Smooth, HistType, Open
  <2>3. RetryOK' /\ OneThread'
    BY <1>0, <2>0
       DEF SmoothInv, RetryOK, OneThread, Quiet, Alone, Opening, Builds, Resting
  <2>1. CASE ap.WpaState = "INITPSK"
    <3>1. ~Open /\ ~group'.armed /\ ap.GTKState # "ESTABLISHED"
      BY <1>0, <2>0, <2>1
         DEF GroupInv, NoneDelivered, SmoothInv, ArmedOK, EstablishedOK,
             Settled, Open, Accepted, Opening
    <3>2. CarriedOK'
      BY <1>0, <2>1 DEF GroupInv, NoneDelivered, CarriedOK
    <3>3. AnsweredOK'
      <4>1. \A f \in Frames : Answer(f)' => OnAir(f, toAp)
        BY <1>0, <2>1 DEF GroupInv, NoneDelivered, Answer
      <4> QED
        BY <1>0, <2>1, <4>1 DEF GroupInv, NoneDelivered, AnsweredOK
    <3> QED
      BY <1>0, <2>0, <2>3, <3>1, <3>2, <3>3
         DEF SmoothInv, SettledOK, ArmedOK, EstablishedOK, Settled
  <2>2. CASE ap.WpaState = "PTKINITDONE" /\ ap.GTKState # "NEGOTIATING"
    <3>1. group'.armed /\ Due' /\ Settled'
      BY <1>0, <2>0, <2>2 DEF Due, KeysInv, StateOK, Settled, Open
    <3>2. CarriedOK' /\ AnsweredOK' /\ EstablishedOK'
      BY <1>0, <2>0, <3>1
         DEF SmoothInv, CarriedOK, AnsweredOK, EstablishedOK, HasKey, Answer
    <3> QED
      BY <1>0, <2>0, <2>3, <3>1, <3>2
         DEF SmoothInv, SettledOK, ArmedOK, Settled, Quiet, Resting
  <2> QED
    BY <2>0, <2>1, <2>2 DEF ShakingHands
<1> QED
  BY <1>1, <1>2 DEF GroupInv

\* The timer of a settled station does not expire.
LEMMA GroupFires ==
  ASSUME GroupInv, KeysInv', RetryFires
  PROVE  GroupInv'
<1>1. CASE OutOfMemory
  BY <1>1, GroupLacks DEF RetryFires
<1>2. CASE ~OutOfMemory
  <2>0. /\ KeysInv /\ retry \in RetryType /\ retry.queued \in Nat
        /\ retry.armed /\ ~retry'.armed /\ retry'.queued = retry.queued + 1
        /\ UNCHANGED <<ap, pc, buf, start, group, sta, toSta, toAp, hist>>
    <3>1. KeysInv /\ retry \in RetryType /\ retry.queued \in Nat
      BY RetrySet DEF GroupInv, KeysInv, TInv, TypeOK
    <3>2. /\ retry.armed /\ retry' = [armed |-> FALSE, queued |-> retry.queued + 1]
          /\ UNCHANGED <<ap, pc, buf, start, group, sta, toSta, toAp, hist>>
      BY <1>2 DEF RetryFires, HasMemory
    <3> QED
      BY <3>1, <3>2
  <2>1. AnswerOK' /\ NoneDelivered'
    BY <2>0 DEF GroupInv, AnswerOK, NoneDelivered, Answer
  <2>2. ASSUME Smooth' PROVE SmoothInv'
    <3>0. Smooth /\ SmoothInv /\ (Settled' <=> Settled)
      BY <2>0, <2>2 DEF GroupInv, Smooth, Settled, Open
    <3>1. RetryOK' /\ SettledOK'
      BY <2>0, <3>0 DEF SmoothInv, RetryOK, SettledOK, Quiet
    <3>2. CarriedOK' /\ AnsweredOK' /\ EstablishedOK'
      BY <2>0, <3>0
         DEF SmoothInv, CarriedOK, AnsweredOK, EstablishedOK, HasKey, Answer,
             Due, Open
    <3> QED
      BY <2>0, <3>0, <3>1, <3>2 DEF SmoothInv, OneThread, ArmedOK
  <2> QED
    BY <2>1, <2>2 DEF GroupInv
<1> QED
  BY <1>1, <1>2

\* The client takes a message only if its replay counter is newer, and the
\* key with the present one.
LEMMA GroupSta ==
  ASSUME GroupInv, KeysInv', Sta
  PROVE  GroupInv'
<1> DEFINE f == Head(toSta)
<1>0. /\ KeysInv /\ sta \in StaType /\ hist \in HistType
      /\ toSta \in Seq(Frames) /\ toAp \in Seq(Frames) /\ toSta # <<>>
      /\ toSta' = Tail(toSta)
      /\ UNCHANGED <<ap, pc, buf, retry, start, group>>
  BY DEF GroupInv, KeysInv, TInv, TypeOK, Sta, StaMsg1, StaMsg3, StaGroupMsg1,
         Receive
<1>1. /\ f \in Frames /\ f.rc \in Nat /\ sta.ReplayCounter \in Nat
      /\ OnAir(f, toSta) /\ \A g : OnAir(g, toSta') => OnAir(g, toSta)
      /\ \A g \in Frames : g.rc \in Nat
  BY <1>0, OnTail, StaGet, FrameSet
<1>2. Frame("m2", f.rc, sta.SNonce + 1, sta'.PTK, 0) \in Frames
      /\ Frame("m4", f.rc, 0, sta.PTK, 0) \in Frames
      /\ Frame("g2", f.rc, 0, sta.PTK, 0) \in Frames
  <2>1. sta' \in StaType
    BY DEF KeysInv, TInv, TypeOK
  <2>2. /\ sta.SNonce + 1 \in Nat /\ sta.PTK \in Key /\ sta'.PTK \in Key
        /\ {"m2", "m4", "g2"} \subseteq Messages
    BY <1>0, <2>1, StaGet DEF Messages
  <2> HIDE DEF f
  <2> QED
    BY <1>1, <2>2, FrameIn
<1>3. /\ hist'.raced = hist.raced /\ hist'.crossed = hist.crossed
      /\ hist.nomem => hist'.nomem
      /\ \/ UNCHANGED <<sta, toAp>>
         \/ /\ f.rc > sta.ReplayCounter /\ sta'.ReplayCounter = f.rc
            /\ f.t \in Delivers => sta'.gtk = f.g
            /\ \E g \in Frames : /\ toAp' = toAp \/ toAp' \in Sent(toAp, g)
                                 /\ g.rc = f.rc
                                 /\ g.t \in Answers => f.t \in Delivers
  <2> USE <1>0, <1>1, <1>2
      DEF Receive, Newer, Drop, Frame, Delivers, Answers, HistType
  <2>1. CASE StaMsg1
    <3> HIDE DEF f
    <3>1. CASE Drop
      BY <3>1
    <3>2. CASE /\ f.rc > sta.ReplayCounter
               /\ sta' = [sta EXCEPT !.ReplayCounter = f.rc, !.ANonce = f.n,
                            !.SNonce = sta.SNonce + 1, !.AllowInsPTK = TRUE,
                            !.PTK = <<f.n, sta.SNonce + 1>>]
               /\ toAp' \in Sent(toAp, Frame("m2", f.rc, sta.SNonce + 1, sta'.PTK, 0))
               /\ f.t = "m1" /\ UNCHANGED hist
      BY <3>2 DEF StaType
    <3> QED
      BY <2>1, <3>1, <3>2 DEF StaMsg1, f
  <2>2. CASE StaMsg3
    <3> DEFINE v == [sta EXCEPT !.ReplayCounter = f.rc, !.gtk = f.g]
               w == [Installed(v) EXCEPT !.PortSecured = TRUE]
    <3>1. /\ v.ReplayCounter = f.rc /\ v.gtk = f.g
          /\ w.ReplayCounter = f.rc /\ w.gtk = f.g
      BY DEF StaType, Installed
    <3>2. f.t = "m3" /\ \/ Drop /\ UNCHANGED hist
                        \/ /\ sta' = v \/ sta' = w
                           /\ f.rc > sta.ReplayCounter
                           /\ \/ toAp' = toAp
                              \/ toAp' \in Sent(toAp, Frame("m4", f.rc, 0, sta.PTK, 0))
      BY <2>2 DEF StaMsg3
    <3>3. /\ hist'.raced = hist.raced /\ hist'.crossed = hist.crossed
          /\ hist.nomem => hist'.nomem
      BY <2>2 DEF StaMsg3, OutOfMemory
    <3> HIDE DEF f, v, w
    <3> QED
      BY <3>1, <3>2, <3>3
  <2>3. CASE StaGroupMsg1
    <3> HIDE DEF f
    <3>1. f.t = "g1" /\ UNCHANGED hist /\
          \/ Drop
          \/ /\ f.rc > sta.ReplayCounter
             /\ sta' = [sta EXCEPT !.ReplayCounter = f.rc, !.gtk = f.g]
             /\ toAp' \in Sent(toAp, Frame("g2", f.rc, 0, sta.PTK, 0))
      BY <2>3 DEF StaGroupMsg1, f
    <3> QED
      BY <3>1 DEF StaType
  <2> QED
    BY <2>1, <2>2, <2>3 DEF Sta
<1> HIDE DEF f
<1>4. CASE UNCHANGED <<sta, toAp>>
  <2>1. AnswerOK' /\ NoneDelivered'
    BY <1>0, <1>1, <1>4 DEF GroupInv, AnswerOK, NoneDelivered, Answer
  <2>2. ASSUME Smooth' PROVE SmoothInv'
    <3>1. Smooth /\ SmoothInv
      BY <1>0, <1>3, <2>2 DEF GroupInv, Smooth
    <3>2. CarriedOK' /\ AnsweredOK' /\ EstablishedOK'
      BY <1>0, <1>1, <1>4, <3>1
         DEF SmoothInv, CarriedOK, AnsweredOK, EstablishedOK, HasKey, Answer,
             Due, Open
    <3> QED
      BY <1>0, <1>4, <3>1, <3>2
         DEF SmoothInv, OneThread, RetryOK, SettledOK, ArmedOK, Quiet, Settled,
             Open
  <2> QED
    BY <2>1, <2>2 DEF GroupInv
<1>5. CASE ~UNCHANGED <<sta, toAp>>
  <2>1. PICK g \in Frames : /\ toAp' = toAp \/ toAp' \in Sent(toAp, g)
                            /\ g.rc = f.rc
                            /\ g.t \in Answers => f.t \in Delivers
    BY <1>3, <1>5
  <2>2. /\ f.rc > sta.ReplayCounter /\ sta'.ReplayCounter = f.rc
        /\ f.t \in Delivers => sta'.gtk = f.g
    BY <1>3, <1>5
  <2>3. \A h : Answer(h)' => Answer(h) \/ h = g
    BY <1>0, <2>1, OnSent DEF Answer
  <2>4. AnswerOK'
    BY <1>0, <1>1, <2>1, <2>2, <2>3 DEF GroupInv, AnswerOK
  <2>5. NoneDelivered'
    <3>1. \A h : OnAir(h, toAp') => OnAir(h, toAp) \/ h = g
      BY <1>0, <2>1, OnSent
    <3> QED
      BY <1>0, <1>1, <2>1, <3>1 DEF GroupInv, NoneDelivered
  <2>6. ASSUME Smooth' PROVE SmoothInv'
    <3>1. Smooth /\ SmoothInv
      BY <1>0, <1>3, <2>6 DEF GroupInv, Smooth
    <3>2. f.rc <= ap.ReplayCounter /\ ap.ReplayCounter \in Nat
      BY <1>0, <1>1, <3>1, NoneAhead DEF Smooth
    <3>3. sta.ReplayCounter # ap.ReplayCounter
      BY <1>1, <2>2, <3>2
    <3>4. CarriedOK'
      BY <1>0, <1>1, <3>1 DEF SmoothInv, CarriedOK, Due
    <3>5. pc'["mlme"] \notin Accepted /\ ap.GTKState # "ESTABLISHED"
      BY <1>0, <3>1, <3>3 DEF SmoothInv, AnsweredOK, EstablishedOK, HasKey
    <3>6. AnsweredOK'
      <4>1. ASSUME NEW h \in Frames, Answer(h)', h.t \in Answers,
                   h.rc = ap.ReplayCounter
            PROVE  HasKey'
        <5>1. ~Answer(h)
          BY <3>1, <3>3, <4>1 DEF SmoothInv, AnsweredOK, HasKey
        <5>2. h = g /\ f.rc = ap.ReplayCounter /\ f.t \in Delivers
          BY <2>1, <2>3, <4>1, <5>1
        <5>3. f.g = group.gtk \/ Due
          BY <1>1, <3>1, <5>2 DEF SmoothInv, CarriedOK
        <5> QED
          BY <1>0, <2>2, <5>2, <5>3 DEF HasKey, Due
      <4> QED
        BY <1>0, <3>5, <4>1 DEF AnsweredOK
    <3> QED
      BY <1>0, <3>1, <3>4, <3>5, <3>6
         DEF SmoothInv, OneThread, RetryOK, SettledOK, ArmedOK, EstablishedOK,
             Quiet, Settled, Open
  <2> QED
    BY <2>4, <2>5, <2>6 DEF GroupInv
<1> QED
  BY <1>4, <1>5

LEMMA GroupStep == GroupInv /\ [Next]_vars => GroupInv'
<1> SUFFICES ASSUME GroupInv, [Next]_vars PROVE GroupInv'
  OBVIOUS
<1>1. KeysInv'
  BY KeysStep DEF GroupInv
<1>2. CASE UNCHANGED vars
  BY <1>1, <1>2, GroupSame DEF vars
<1>3. CASE Building("mlme") \/ Building("timer")
  BY <1>1, <1>3, GroupBuild DEF Threads
<1>4. CASE Mlme /\ ~Building("mlme")
  BY <1>1, <1>4, GroupStart, GroupTake, GroupDerive, GroupSanity, GroupCancel,
     GroupDone DEF Mlme
<1>5. CASE Timer /\ ~Building("timer")
  BY <1>1, <1>5, GroupFourWay, GroupBegins, GroupLooks, GroupRetry DEF Timer
<1>6. CASE GroupRekeyExec \/ RetryFires \/ Sta
  BY <1>1, <1>6, GroupNew, GroupFires, GroupSta
<1> QED
  BY <1>2, <1>3, <1>4, <1>5, <1>6 DEF Next

LEMMA GroupInit == Init => GroupInv
<1> SUFFICES ASSUME Init PROVE GroupInv
  OBVIOUS
<1>1. /\ ~ap.PortSecured /\ ap.GTKState = "NEGOTIATING" /\ ap.MsgType = "none"
      /\ pc = [t \in Threads |-> "idle"] /\ Quiet /\ ~group.armed
      /\ \A t \in Threads : buf[t].t = "none"
      /\ toSta = <<>> /\ toAp = <<>> /\ \A f : ~OnAir(f, <<>>)
  BY DEF Init, Quiet, OnAir, NoFrame, Frame
<1>2. AnswerOK /\ NoneDelivered
  BY <1>1 DEF AnswerOK, NoneDelivered, Answer, Looking, Accepted, Opening,
              Delivers, Threads
<1>3. SmoothInv
  BY <1>1 DEF SmoothInv, OneThread, RetryOK, Quiet, Alone, Builds, SettledOK,
              ArmedOK, CarriedOK, AnsweredOK, Answer, Looking, Accepted,
              EstablishedOK, Settled, Open, Opening, Threads
<1> QED
  BY <1>2, <1>3, KeysInit DEF GroupInv

\* A station whose group handshake is settled has the interface's group key,
\* for every number of keys and every retry limit.
THEOREM SettledHasGroupKey == Spec => []GroupKeyCurrent
<1>1. GroupInv => GroupKeyCurrent
  BY DEF GroupInv, SmoothInv, Smooth, SettledOK, Settled, Open, EstablishedOK,
         HasKey, Due, Resting, GroupKeyCurrent
<1> QED
  BY <1>1, GroupInit, GroupStep, PTL DEF Spec
=============================================================================
