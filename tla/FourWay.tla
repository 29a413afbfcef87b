------------------------------ MODULE FourWay ------------------------------
(***************************************************************************)
(* The pairwise and the group handshake of one associated station          *)
(* (embedded/security/cmm_wpa.c): the access point's half, run by two      *)
(* threads without a lock between them, and the AP client's half, which is *)
(* in the same file, at the other end of two channels that lose frames.    *)
(*                                                                         *)
(* The MLME thread takes the station's frames one after the other; the     *)
(* timer thread repeats what is not answered in time, gives the station    *)
(* up, and starts the group handshake after a new group key.  Each access  *)
(* to what both use is a step.  RSN with a pre-shared key, no FILS.        *)
(***************************************************************************)
EXTENDS Integers, Sequences

CONSTANTS
  MsgLimit,    \* PEER_MSG1_RETRY_LIMIT and PEER_MSG3_RETRY_LIMIT
  GroupLimit,  \* GROUP_MSG1_RETRY_LIMIT
  MaxRC,       \* bound: no retry once the replay counter is there
  Rekeys       \* bound: new group keys

ASSUME FourWayAssumption ==
  MsgLimit \in Nat /\ GroupLimit \in Nat /\ MaxRC \in Nat /\ Rekeys \in Nat

Threads == {"mlme", "timer"}

VARIABLES
  ap,     \* SecConfig of the station's entry, the pairwise key in hardware
          \* (hw), PortSecured, the request to delete the entry
  pc,     \* where each thread is
  buf,    \* the frame a thread is handling or building
  retry,  \* MsgRetryTimer: armed, times in the timer queue
  start,  \* StartFor4WayTimer, then EAPOL-Start in the MLME queue
  group,  \* the interface's GTK (a number), StartFor2WayTimer
  sta,    \* SecConfig of the AP client; its keys in hardware (hw, gtk)
  toSta, toAp,
  hist    \* history: what happened to the handshake

vars == <<ap, pc, buf, retry, start, group, sta, toSta, toAp, hist>>

(***************************************************************************)
(* A pairwise key is the pair of nonces it is derived from; nonces are     *)
(* numbered in the order they are drawn.  A frame has the replay counter,  *)
(* a nonce, the key its MIC is under and the group key it carries.         *)
(***************************************************************************)
NoKey == <<0, 0>>
Frame(t, rc, n, k, g) == [t |-> t, rc |-> rc, n |-> n, k |-> k, g |-> g]
NoFrame == Frame("none", 0, 0, NoKey, 0)

Init ==
  /\ ap = [WpaState |-> "INITPSK", GTKState |-> "NEGOTIATING",
           ReplayCounter |-> 0, ANonce |-> 0, PTK |-> NoKey,
           MsgType |-> "none", MsgRetryCounter |-> 0, hw |-> NoKey,
           PortSecured |-> FALSE, deleted |-> FALSE]
  /\ pc = [t \in Threads |-> "idle"]
  /\ buf = [t \in Threads |-> NoFrame]
  /\ retry = [armed |-> FALSE, queued |-> 0]
  /\ start = "armed"
  /\ group = [gtk |-> 1, left |-> Rekeys, armed |-> FALSE]
  /\ sta = [ReplayCounter |-> 0, ANonce |-> 0, SNonce |-> 0, PTK |-> NoKey,
            AllowInsPTK |-> FALSE, hw |-> NoKey, PortSecured |-> FALSE,
            gtk |-> 0]
  /\ toSta = <<>> /\ toAp = <<>>
  /\ hist = [raced |-> FALSE, crossed |-> FALSE, nomem |-> FALSE,
             again |-> FALSE]

Goto(t, p) == pc' = [pc EXCEPT ![t] = p]
SetAp(f, v) == ap' = [ap EXCEPT ![f] = v]

\* os_alloc_mem, the entries of the MLME queue and those of the timer queue.
\* Bound: one of a behaviour is not to be had.
HasMemory == UNCHANGED hist
OutOfMemory == ~hist.nomem /\ hist' = [hist EXCEPT !.nomem = TRUE]

\* A frame that is sent arrives behind those sent before, or never.
Sent(ch, f) == {ch, Append(ch, f)}

PTKSTARTorLess == {"INITPSK", "PTKSTART"}

(***************************************************************************)
(* WPABuildPairMsg1, WPABuildPairMsg3 and WPABuildGroupMsg1, on either     *)
(* thread; buf[t].t says which.  The replay counter is read, then written; *)
(* the frame is put together from what the fields hold by then.            *)
(***************************************************************************)
Build(t, m) ==
  /\ Goto(t, IF m = "m1" THEN "check" ELSE "read")
  /\ buf' = [buf EXCEPT ![t] = [NoFrame EXCEPT !.t = m]]

Done(t) == Goto(t, "idle") /\ buf' = [buf EXCEPT ![t] = NoFrame]

BuildCheck(t) ==
  /\ pc[t] = "check"
  /\ IF ap.WpaState \in PTKSTARTorLess
       THEN Goto(t, "read") /\ UNCHANGED buf
       ELSE Done(t)
  /\ UNCHANGED <<ap, retry, start, group, sta, toSta, toAp, hist>>

BuildRead(t) ==
  /\ pc[t] = "read"
  /\ \/ /\ Goto(t, "write")
        /\ buf' = [buf EXCEPT ![t].rc = ap.ReplayCounter + 1]
        /\ HasMemory
     \/ /\ buf[t].t # "m1"
        /\ OutOfMemory
        /\ Done(t)
  /\ UNCHANGED <<ap, retry, start, group, sta, toSta, toAp>>

BuildWrite(t) ==
  /\ pc[t] = "write"
  /\ SetAp("ReplayCounter", buf[t].rc)
  /\ Goto(t, CASE buf[t].t = "m1" -> "nonce"
               [] buf[t].t = "m3" -> "install"
               [] OTHER -> "mark")
  /\ UNCHANGED <<buf, retry, start, group, sta, toSta, toAp, hist>>

BuildNonce(t) ==
  /\ pc[t] = "nonce"
  /\ SetAp("ANonce", ap.ANonce + 1)
  /\ \/ HasMemory /\ Goto(t, "mark") /\ UNCHANGED buf
     \/ OutOfMemory /\ Done(t)
  /\ UNCHANGED <<retry, start, group, sta, toSta, toAp>>

BuildInstall(t) ==
  /\ pc[t] = "install"
  /\ SetAp("hw", ap.PTK)
  /\ Goto(t, "mark")
  /\ UNCHANGED <<buf, retry, start, group, sta, toSta, toAp, hist>>

BuildMark(t) ==
  /\ pc[t] = "mark"
  /\ SetAp("MsgType", buf[t].t)
  /\ Goto(t, "make")
  /\ UNCHANGED <<buf, retry, start, group, sta, toSta, toAp, hist>>

WPAConstructEapolMsg(m) ==
  CASE m = "m1" -> Frame(m, ap.ReplayCounter, ap.ANonce, NoKey, 0)
    [] m = "m3" -> Frame(m, ap.ReplayCounter, ap.ANonce, ap.PTK, group.gtk)
    [] OTHER    -> Frame(m, ap.ReplayCounter, 0, ap.PTK, group.gtk)

BuildMake(t) ==
  /\ pc[t] = "make"
  /\ buf' = [buf EXCEPT ![t] = WPAConstructEapolMsg(@.t)]
  /\ Goto(t, "send")
  /\ UNCHANGED <<ap, retry, start, group, sta, toSta, toAp, hist>>

BuildSend(t) ==
  /\ pc[t] = "send"
  /\ toSta' \in Sent(toSta, buf[t])
  /\ Goto(t, "arm")
  /\ UNCHANGED <<ap, buf, retry, start, group, sta, toAp, hist>>

ArmUnlessGroup(t) ==
  IF buf[t].t = "g1" THEN retry ELSE [retry EXCEPT !.armed = TRUE]
ArmOnMlmeOnly(t) == IF t = "mlme" THEN [retry EXCEPT !.armed = TRUE] ELSE retry
Armed(t) == [retry EXCEPT !.armed = TRUE]

BuildArm(t) ==
  /\ pc[t] = "arm"
  /\ retry' = Armed(t)
  /\ IF buf[t].t = "m1" THEN Goto(t, "state") /\ UNCHANGED buf ELSE Done(t)
  /\ UNCHANGED <<ap, start, group, sta, toSta, toAp, hist>>

BuildState(t) ==
  /\ pc[t] = "state"
  /\ ap' = [ap EXCEPT !.WpaState = "PTKSTART", !.GTKState = "NEGOTIATING"]
  /\ Done(t)
  /\ UNCHANGED <<retry, start, group, sta, toSta, toAp, hist>>

Building(t) ==
  \/ BuildCheck(t) \/ BuildRead(t) \/ BuildWrite(t) \/ BuildNonce(t)
  \/ BuildInstall(t) \/ BuildMark(t) \/ BuildMake(t) \/ BuildSend(t)
  \/ BuildArm(t) \/ BuildState(t)

(***************************************************************************)
(* RTMPCancelTimer: stops the timer and takes one entry of it out of the   *)
(* timer queue.  What the timer thread has already in its hands goes on.   *)
(***************************************************************************)
KeepTimer == UNCHANGED retry
RTMPCancelTimer ==
  retry' = [armed |-> FALSE,
            queued |-> IF retry.queued > 0 THEN retry.queued - 1 ELSE 0]

(***************************************************************************)
(* The MLME thread.                                                        *)
(***************************************************************************)
WpaEAPOLStartAction ==
  /\ pc["mlme"] = "idle" /\ start = "queued"
  /\ start' = "done"
  /\ IF ~ap.PortSecured /\ ap.WpaState = "INITPSK"
       THEN /\ ap' = [ap EXCEPT !.ReplayCounter = 0, !.MsgRetryCounter = 0]
            /\ Build("mlme", "m1")
       ELSE UNCHANGED <<ap, pc, buf>>
  /\ UNCHANGED <<retry, group, sta, toSta, toAp, hist>>

\* History: both threads are in the handshake of this station at once.  The
\* one that is about to look whom to tell of a new group key is in none.
Resting == {"idle", "rekey"}
Raced(other) == hist' = [hist EXCEPT !.raced = @ \/ pc[other] \notin Resting]

\* A frame of type m is handled when the state is one of S, else dropped.
Take(m, S, p) ==
  /\ pc["mlme"] = "idle"
  /\ toAp # <<>> /\ Head(toAp).t = m
  /\ toAp' = Tail(toAp)
  /\ IF ap.WpaState \in S
       THEN /\ Goto("mlme", p)
            /\ buf' = [buf EXCEPT !["mlme"] = Head(toAp)]
            /\ Raced("timer")
       ELSE UNCHANGED <<pc, buf, hist>>
  /\ UNCHANGED <<ap, retry, start, group, sta, toSta>>

PeerPairMsg2Action == Take("m2", {"PTKSTART", "NEGOTIATING"}, "m2derive")
PeerPairMsg4Action == Take("m4", {"NEGOTIATING"}, "m4sanity")
PeerGroupMsg2Action == Take("g2", {"PTKINITDONE"}, "g2sanity")

M2Derive ==
  /\ pc["mlme"] = "m2derive"
  /\ SetAp("PTK", <<ap.ANonce, buf["mlme"].n>>)
  /\ Goto("mlme", "m2sanity")
  /\ UNCHANGED <<buf, retry, start, group, sta, toSta, toAp, hist>>

\* WpaMessageSanity for the authenticator, which may also lack memory.
SanityToAp(f) == f.rc = ap.ReplayCounter /\ f.k = ap.PTK

Sanity(here, there) ==
  /\ pc["mlme"] = here
  /\ \/ /\ HasMemory
        /\ IF SanityToAp(buf["mlme"])
             THEN Goto("mlme", there) /\ UNCHANGED buf
             ELSE Done("mlme")
     \/ OutOfMemory /\ Done("mlme")
  /\ UNCHANGED <<ap, retry, start, group, sta, toSta, toAp>>

M2Sanity == Sanity("m2sanity", "m2cancel")
M4Sanity == Sanity("m4sanity", "m4cancel")
G2Sanity == Sanity("g2sanity", "g2cancel")

CancelThen(here, there) ==
  /\ pc["mlme"] = here
  /\ RTMPCancelTimer
  /\ Goto("mlme", there)
  /\ UNCHANGED <<ap, buf, start, group, sta, toSta, toAp, hist>>

M2Cancel == CancelThen("m2cancel", "m2reset")
M4Cancel == CancelThen("m4cancel", "m4state")
G2Cancel == CancelThen("g2cancel", "g2done")

M2Reset ==
  /\ pc["mlme"] = "m2reset"
  /\ SetAp("MsgRetryCounter", 0)
  /\ Goto("mlme", "m2state")
  /\ UNCHANGED <<buf, retry, start, group, sta, toSta, toAp, hist>>

M2State ==
  /\ pc["mlme"] = "m2state"
  /\ SetAp("WpaState", "NEGOTIATING")
  /\ Build("mlme", "m3")
  /\ UNCHANGED <<retry, start, group, sta, toSta, toAp, hist>>

M4State ==
  /\ pc["mlme"] = "m4state"
  /\ SetAp("WpaState", "PTKINITDONE")
  /\ Goto("mlme", "m4group")
  /\ UNCHANGED <<buf, retry, start, group, sta, toSta, toAp, hist>>

M4Group ==
  /\ pc["mlme"] = "m4group"
  /\ SetAp("GTKState", "ESTABLISHED")
  /\ Goto("mlme", "m4open")
  /\ UNCHANGED <<buf, retry, start, group, sta, toSta, toAp, hist>>

M4Open ==
  /\ pc["mlme"] = "m4open"
  /\ SetAp("PortSecured", TRUE)
  /\ Done("mlme")
  /\ UNCHANGED <<retry, start, group, sta, toSta, toAp, hist>>

G2Done ==
  /\ pc["mlme"] = "g2done"
  /\ SetAp("GTKState", "ESTABLISHED")
  /\ Done("mlme")
  /\ UNCHANGED <<retry, start, group, sta, toSta, toAp, hist>>

(***************************************************************************)
(* The timer thread: WPAStartFor4WayExec, GroupRekeyExec,                  *)
(* WPAStartFor2WayExec, WPAHandshakeMsgRetryExec with MlmeDeAuthAction.    *)
(***************************************************************************)
WPAStartFor4WayExec ==
  /\ pc["timer"] = "idle" /\ start = "armed"
  /\ \/ /\ start' = IF ap.WpaState = "INITPSK" THEN "queued" ELSE "done"
        /\ HasMemory
     \/ start' = "done" /\ OutOfMemory
  /\ UNCHANGED <<ap, pc, buf, retry, group, sta, toSta, toAp>>

\* The interface's key is changed, then the stations are looked at, of which
\* one that is still shaking hands is not told.  A station of an A4 link
\* never is; this one is none.
GroupRekeyExec ==
  /\ pc["timer"] = "idle" /\ group.left > 0
  /\ group' = [group EXCEPT !.gtk = @ + 1, !.left = @ - 1]
  /\ Goto("timer", "rekey")
  /\ UNCHANGED <<ap, buf, retry, start, sta, toSta, toAp, hist>>

ShakingHands ==
  /\ ap.WpaState # "INITPSK"
  /\ ap.WpaState = "PTKINITDONE" => ap.GTKState = "NEGOTIATING"

RekeyStation ==
  /\ pc["timer"] = "rekey"
  /\ group' = [group EXCEPT !.armed = @ \/ ap.WpaState = "PTKINITDONE"]
  /\ hist' = [hist EXCEPT !.crossed = @ \/ ShakingHands]
  /\ Goto("timer", "idle")
  /\ UNCHANGED <<ap, buf, retry, start, sta, toSta, toAp>>

\* History: the group handshake is begun, or passed over, while the other
\* thread is at work.
Crossed(other) == hist' = [hist EXCEPT !.crossed = @ \/ pc[other] # "idle"]

WPAStartFor2WayExec ==
  /\ pc["timer"] = "idle" /\ group.armed
  /\ group' = [group EXCEPT !.armed = FALSE]
  /\ \/ /\ ap.PortSecured /\ ap.GTKState # "NEGOTIATING"
        /\ ap' = [ap EXCEPT !.MsgRetryCounter = 0,
                            !.GTKState = "NEGOTIATING"]
        /\ Build("timer", "g1")
        /\ Crossed("mlme")
     \/ /\ ~(ap.PortSecured /\ ap.GTKState # "NEGOTIATING")
        /\ Crossed("mlme")
        /\ UNCHANGED <<ap, pc, buf>>
     \/ OutOfMemory /\ UNCHANGED <<ap, pc, buf>>
  /\ UNCHANGED <<retry, start, sta, toSta, toAp>>

\* An entry that finds no place in the timer queue is dropped.
RetryFires ==
  /\ retry.armed
  /\ \/ HasMemory /\ retry' = [armed |-> FALSE, queued |-> retry.queued + 1]
     \/ OutOfMemory /\ retry' = [retry EXCEPT !.armed = FALSE]
  /\ UNCHANGED <<ap, pc, buf, start, group, sta, toSta, toAp>>

WPAHandshakeMsgRetryExec ==
  /\ pc["timer"] = "idle" /\ retry.queued > 0
  /\ retry' = [retry EXCEPT !.queued = @ - 1]
  /\ Goto("timer", "count")
  /\ Raced("mlme")
  /\ UNCHANGED <<ap, buf, start, group, sta, toSta, toAp>>

RetryCount ==
  /\ pc["timer"] = "count"
  /\ SetAp("MsgRetryCounter", ap.MsgRetryCounter + 1)
  /\ Goto("timer", "again")
  /\ UNCHANGED <<buf, retry, start, group, sta, toSta, toAp, hist>>

Limit == IF ap.MsgType = "g1" THEN GroupLimit ELSE MsgLimit

RetryAgain ==
  /\ pc["timer"] = "again"
  /\ ap.MsgRetryCounter <= Limit /\ ap.ReplayCounter < MaxRC
  /\ Build("timer", ap.MsgType)
  /\ UNCHANGED <<ap, retry, start, group, sta, toSta, toAp, hist>>

RetryGroupSettles ==
  /\ pc["timer"] = "again"
  /\ ap.MsgRetryCounter > Limit /\ ap.MsgType = "g1"
  /\ SetAp("GTKState", "ESTABLISHED")
  /\ Done("timer")
  /\ UNCHANGED <<retry, start, group, sta, toSta, toAp, hist>>

RetryGroupFails ==
  /\ pc["timer"] = "again"
  /\ ap.MsgRetryCounter > Limit /\ ap.MsgType = "g1"
  /\ SetAp("GTKState", "FAILURE")
  /\ Done("timer")
  /\ UNCHANGED <<retry, start, group, sta, toSta, toAp, hist>>

RetryFails ==
  /\ pc["timer"] = "again"
  /\ ap.MsgRetryCounter > Limit /\ ap.MsgType # "g1"
  /\ ap' = [ap EXCEPT !.WpaState = "INITIALIZE", !.GTKState = "FAILURE"]
  /\ Goto("timer", "deauth")
  /\ UNCHANGED <<buf, retry, start, group, sta, toSta, toAp, hist>>

MlmeDeAuthAction ==
  /\ pc["timer"] = "deauth"
  /\ \/ HasMemory /\ SetAp("deleted", TRUE)
     \/ OutOfMemory /\ UNCHANGED ap
  /\ Done("timer")
  /\ UNCHANGED <<retry, start, group, sta, toSta, toAp>>

(***************************************************************************)
(* The AP client handles each frame in one go: its handshake has one       *)
(* thread and no timer.  A reply that cannot be allocated is one lost,     *)
(* except that of message 3, which is before the key is installed.         *)
(***************************************************************************)
Receive(m) ==
  /\ toSta # <<>> /\ Head(toSta).t = m
  /\ toSta' = Tail(toSta)
  /\ UNCHANGED <<ap, pc, buf, retry, start, group>>

Newer(f) == f.rc > sta.ReplayCounter
Genuine(f) == f.k = sta.PTK
Drop == UNCHANGED <<sta, toAp, hist>>

StaMsg1 ==
  LET f == Head(toSta)
      s == sta.SNonce + 1 IN
  /\ Receive("m1")
  /\ \/ /\ Newer(f)
        /\ sta' = [sta EXCEPT !.ReplayCounter = f.rc, !.ANonce = f.n,
                              !.SNonce = s, !.AllowInsPTK = TRUE,
                              !.PTK = <<f.n, s>>]
        /\ toAp' \in Sent(toAp, Frame("m2", f.rc, s, sta'.PTK, 0))
        /\ UNCHANGED hist
     \/ ~Newer(f) /\ Drop

InstalledWhenOpen(s) ==
  IF s.AllowInsPTK /\ s.PortSecured
    THEN [s EXCEPT !.hw = s.PTK, !.AllowInsPTK = FALSE] ELSE s
InstalledAgain(s) ==
  IF s.AllowInsPTK THEN [s EXCEPT !.hw = s.PTK] ELSE s
\* WPABuildPairMsg4 installs the pairwise key once.
Installed(s) ==
  IF s.AllowInsPTK THEN [s EXCEPT !.hw = s.PTK, !.AllowInsPTK = FALSE] ELSE s

StaMsg3 ==
  LET f == Head(toSta)
      ok == Newer(f) /\ Genuine(f)
      saved == [sta EXCEPT !.ReplayCounter = f.rc, !.gtk = f.g] IN
  /\ Receive("m3")
  /\ \/ ~ok /\ Drop
     \/ /\ ok /\ f.n # sta.ANonce
        /\ sta' = saved
        /\ UNCHANGED <<toAp, hist>>
     \/ /\ ok /\ f.n = sta.ANonce
        /\ sta' = [Installed(saved) EXCEPT !.PortSecured = TRUE]
        /\ toAp' \in Sent(toAp, Frame("m4", f.rc, 0, sta.PTK, 0))
        /\ hist' = [hist EXCEPT !.again =
                       @ \/ (sta.AllowInsPTK /\ sta.PTK[2] <= sta.hw[2])]
     \/ /\ ok /\ f.n = sta.ANonce
        /\ OutOfMemory
        /\ sta' = saved
        /\ UNCHANGED toAp

StaGroupMsg1 ==
  LET f == Head(toSta) IN
  /\ Receive("g1")
  /\ \/ /\ Newer(f) /\ Genuine(f)
        /\ sta' = [sta EXCEPT !.ReplayCounter = f.rc, !.gtk = f.g]
        /\ toAp' \in Sent(toAp, Frame("g2", f.rc, 0, sta.PTK, 0))
        /\ UNCHANGED hist
     \/ ~(Newer(f) /\ Genuine(f)) /\ Drop

Mlme ==
  \/ WpaEAPOLStartAction
  \/ PeerPairMsg2Action \/ M2Derive \/ M2Sanity \/ M2Cancel \/ M2Reset
  \/ M2State
  \/ PeerPairMsg4Action \/ M4Sanity \/ M4Cancel
  \/ M4State \/ M4Group \/ M4Open
  \/ PeerGroupMsg2Action \/ G2Sanity \/ G2Cancel \/ G2Done
  \/ Building("mlme")

Retry ==
  \/ WPAHandshakeMsgRetryExec \/ RetryCount \/ RetryAgain \/ RetryGroupFails
  \/ RetryFails \/ MlmeDeAuthAction \/ Building("timer")

Timer ==
  WPAStartFor4WayExec \/ WPAStartFor2WayExec \/ RekeyStation \/ Retry

Sta == StaMsg1 \/ StaMsg3 \/ StaGroupMsg1

Next == Mlme \/ Timer \/ GroupRekeyExec \/ RetryFires \/ Sta

\* The threads are scheduled, the timer expires, the client answers; frames
\* may all be lost.
Fairness ==
  /\ WF_vars(Mlme) /\ WF_vars(Timer) /\ WF_vars(RetryFires) /\ WF_vars(Sta)

Spec == Init /\ [][Next]_vars /\ Fairness
(***************************************************************************)
(* Properties.                                                             *)
(***************************************************************************)
Key == Nat \X Nat
APMessages == {"none", "m1", "m3", "g1"}
Messages == APMessages \cup {"m2", "m4", "g2"}
Frames == [t : Messages, rc : Nat, n : Nat, k : Key, g : Nat]
Places == {"idle", "check", "read", "write", "nonce", "install", "mark",
           "make", "send", "arm", "state", "m2derive", "m2sanity",
           "m2cancel", "m2reset", "m2state", "m4sanity", "m4cancel",
           "m4state", "m4group", "m4open", "g2sanity", "g2cancel", "g2done",
           "rekey", "count", "again", "deauth"}
WpaStates == {"INITPSK", "PTKSTART", "NEGOTIATING", "PTKINITDONE",
              "INITIALIZE"}
GTKStates == {"NEGOTIATING", "ESTABLISHED", "FAILURE"}

APType == [WpaState : WpaStates, GTKState : GTKStates, ReplayCounter : Nat,
           ANonce : Nat, PTK : Key, MsgType : APMessages,
           MsgRetryCounter : Nat, hw : Key, PortSecured : BOOLEAN,
           deleted : BOOLEAN]
StaType == [ReplayCounter : Nat, ANonce : Nat, SNonce : Nat, PTK : Key,
            AllowInsPTK : BOOLEAN, hw : Key, PortSecured : BOOLEAN, gtk : Nat]
RetryType == [armed : BOOLEAN, queued : Nat]
GroupType == [gtk : Nat, left : Nat, armed : BOOLEAN]
HistType == [raced : BOOLEAN, crossed : BOOLEAN, nomem : BOOLEAN,
             again : BOOLEAN]

\* The state and the key state are ones the enumerations have, the message a
\* retry repeats is one the access point sends, counters count up from zero.
TypeOK ==
  /\ ap \in APType
  /\ pc \in [Threads -> Places] /\ buf \in [Threads -> Frames]
  /\ retry \in RetryType /\ start \in {"armed", "queued", "done"}
  /\ group \in GroupType /\ sta \in StaType
  /\ toSta \in Seq(Frames) /\ toAp \in Seq(Frames)
  /\ hist \in HistType

\* When message 4 opens the port, the key the access point's hardware has is
\* the one the client installed, however many messages were lost, repeated
\* or answered late and although message 2 overwrites PTK before its MIC is
\* looked at; unless a retry and a frame were handled at the same time.
KeysAgree == ap.PortSecured /\ ~hist.raced => ap.hw = sta.hw

\* The client never installs a pairwise key it has installed before, however
\* often message 3 is repeated (AllowInsPTK).
InstallOnce == ~hist.again

\* The pairwise timeout does not befall a station whose handshake is done:
\* the comment over the event it sends calls it a "pairwise key handshaking
\* timeout".
TimesOut == ap.WpaState = "PTKINITDONE" /\ ap.WpaState' = "INITIALIZE"
TimeoutMeansUnfinished == [][~TimesOut]_ap

\* It does so only after a retry that was already in the timer thread's
\* hands when a frame was handled: cancelling the timer is otherwise enough.
FinishedStaysUp == [][TimesOut => hist.raced]_ap

\* A station whose group handshake is settled has the interface's group key,
\* however many messages were lost and keys it missed, unless that key was
\* changed, or its handshake begun or passed over, in the middle of another,
\* a retry and a frame were handled at the same time, or an allocation
\* failed: the answer to the message before would then count for the one
\* never sent.  Message 4 writes the state, the group key's state and the
\* port one after the other, and a new key may come between.
GroupKeyCurrent ==
  /\ ap.PortSecured /\ ap.GTKState = "ESTABLISHED"
  /\ ~group.armed /\ pc["timer"] # "rekey"
  /\ ~hist.crossed /\ ~hist.raced /\ ~hist.nomem
  => sta.gtk = group.gtk

\* Where the failed allocation or the bound on the replay counter ends it.
CutShort ==
  \/ hist.nomem
  \/ pc["timer"] = "again" /\ ap.MsgRetryCounter <= Limit /\ ap.ReplayCounter >= MaxRC

\* A handshake that is begun ends, with the port open or with the station
\* given up, whatever is lost and however the two threads interleave.
HandshakeEnds == <>(ap.PortSecured \/ ap.deleted \/ CutShort)

\* A group handshake ends, confirmed or failed, so that the next group key
\* is not withheld from the station (WPAStartFor2WayExec).
RekeyEnds ==
  ap.GTKState = "NEGOTIATING" ~>
    \/ ap.GTKState # "NEGOTIATING"
    \/ ap.deleted \/ hist.raced \/ CutShort
=============================================================================
