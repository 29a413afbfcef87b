---------------------------- MODULE HwCmd_proofs ----------------------------
(***************************************************************************)
(* Hardware control commands, for every set of commands and any number of  *)
(* openings: references are counted, so that whoever has a hold of a       *)
(* command finds it in memory and what nobody has a hold of is freed; a    *)
(* caller told SUCCESS has been dealt with; a closed interface's queue is  *)
(* empty.                                                                  *)
(***************************************************************************)
EXTENDS HwCmd, Lemmas

USE HwAssumption

-----------------------------------------------------------------------------
(***************************************************************************)
(* Types.                                                                  *)
(***************************************************************************)
CmdType == [mem : {"none", "live", "freed"}, ref : 0 .. 2,
            ack : BOOLEAN, fate : Fates]

\* Apart from the reference count, which is bounded because it is exact,
\* each field has its type whatever happens.
LooseCmd == [mem : {"none", "live", "freed"}, ref : Nat,
             ack : BOOLEAN, fate : Fates]
CallType == [pc : {"idle", "insert", "kick", "wait", "end", "done"},
             ret : {"SUCCESS", "FAILURE"}]
Types ==
  /\ call \in [Cmds -> CallType]
  /\ cmd \in [Cmds -> LooseCmd]
  /\ q \in Seq(Cmds)
  /\ qstate \in {"unknown", "inited", "running", "stoped"}
  /\ pc \in [Drainers -> TaskPcs \cup OwnerPcs]
  /\ pc["task"] \in TaskPcs /\ pc["owner"] \in OwnerPcs
  /\ hand \in [Drainers -> Cmds \cup {NoCmd}]
  /\ os \in [task : BOOLEAN, running : BOOLEAN, stop : BOOLEAN]
  /\ nic \in BOOLEAN /\ startUp \in BOOLEAN
  /\ flag \in [set : BOOLEAN, kick : BOOLEAN] /\ due \in BOOLEAN
  /\ opens \in 0 .. MaxOpens

\* Where a command may be.
EarlyPcs == {"gate", "run"}
LatePcs == {"complete", "put"}
Early(c) == \E d \in Drainers : hand[d] = c /\ pc[d] \in EarlyPcs
Late(c) == \E d \in Drainers : hand[d] = c /\ pc[d] \in LatePcs
Held(c) == InQueue(c) \/ Early(c) \/ Late(c)

Places ==
  /\ \A x : Single(q, x)
  /\ \A d \in Drainers :
       /\ hand[d] # NoCmd <=> pc[d] \in EarlyPcs \cup LatePcs
       /\ hand[d] # NoCmd => hand[d] \notin ToSet(q)
  /\ \A d, e \in Drainers : hand[d] = hand[e] /\ hand[d] # NoCmd => d = e

\* One reference for the call, one for the queue or whoever took it from
\* there; a command that was forgotten keeps the latter.
Refs(c) == (IF InCall(c) THEN 1 ELSE 0)
             + (IF Held(c) \/ cmd[c].fate = "dropped" THEN 1 ELSE 0)

Good(c) ==
  /\ cmd[c].fate = "queued" <=> InQueue(c) \/ Early(c)
  /\ Late(c) => cmd[c].fate = "settled"
  /\ Held(c) \/ InCall(c) => cmd[c].mem = "live"
  /\ cmd[c].ack => cmd[c].fate = "settled"
  /\ cmd[c].mem = "live" /\ cmd[c].fate # "unborn" =>
       /\ Held(c) \/ InCall(c) \/ cmd[c].fate = "dropped"
       /\ cmd[c].ref = Refs(c)
  /\ cmd[c].mem # "live" =>
       cmd[c].ref = 0 /\ cmd[c].fate \notin {"unborn", "dropped"}
  /\ cmd[c].fate = "unborn" =>
       cmd[c].ref = 0 /\ call[c].pc \in {"end", "done"}
  /\ cmd[c].mem = "none" => cmd[c].fate = "none"
  /\ call[c].pc = "idle" => cmd[c].mem = "none"
  /\ call[c].pc = "insert" => cmd[c].fate = "none"
  /\ c \in Waits /\ call[c].pc \in {"end", "done"} /\ call[c].ret = "SUCCESS"
       => cmd[c].fate = "settled"

Counted == Types /\ Places /\ \A c \in Cmds : Good(c)

LEMMA CmdFields == \A x \in LooseCmd :
  /\ x.mem \in {"none", "live", "freed"} /\ x.ref \in Nat
  /\ x.ack \in BOOLEAN /\ x.fate \in Fates
  /\ \A m \in {"none", "live", "freed"}, f \in Fates :
       [x EXCEPT !.mem = m, !.fate = f] \in LooseCmd
  /\ \A f \in Fates : [x EXCEPT !.fate = f] \in LooseCmd
  /\ \A m \in {"none", "live", "freed"}, n \in Nat :
       [x EXCEPT !.mem = m, !.ref = n] \in LooseCmd
  /\ Shared(x) \in LooseCmd /\ Put(x) \in LooseCmd
  /\ \A c : Complete(c, x) \in LooseCmd
<1> SUFFICES ASSUME NEW x \in LooseCmd
             PROVE  /\ x.mem \in {"none", "live", "freed"} /\ x.ref \in Nat
                    /\ x.ack \in BOOLEAN /\ x.fate \in Fates
                    /\ \A m \in {"none", "live", "freed"}, f \in Fates :
                         [x EXCEPT !.mem = m, !.fate = f] \in LooseCmd
                    /\ \A f \in Fates : [x EXCEPT !.fate = f] \in LooseCmd
                    /\ \A m \in {"none", "live", "freed"}, n \in Nat :
                         [x EXCEPT !.mem = m, !.ref = n] \in LooseCmd
                    /\ Shared(x) \in LooseCmd /\ Put(x) \in LooseCmd
                    /\ \A c : Complete(c, x) \in LooseCmd
  OBVIOUS
<1>1. /\ x.mem \in {"none", "live", "freed"} /\ x.ref \in Nat
      /\ x.ack \in BOOLEAN /\ x.fate \in Fates
  BY DEF LooseCmd
<1>2. \A m \in {"none", "live", "freed"}, n \in Nat, a \in BOOLEAN, f \in Fates :
        [mem |-> m, ref |-> n, ack |-> a, fate |-> f] \in LooseCmd
  BY DEF LooseCmd
<1>3. \A m \in {"none", "live", "freed"}, f \in Fates :
        [x EXCEPT !.mem = m, !.fate = f] \in LooseCmd
  BY DEF LooseCmd
<1>4. \A f \in Fates : [x EXCEPT !.fate = f] \in LooseCmd
  BY DEF LooseCmd
<1>5. \A m \in {"none", "live", "freed"}, n \in Nat :
        [x EXCEPT !.mem = m, !.ref = n] \in LooseCmd
  BY DEF LooseCmd
<1>6. Shared(x) \in LooseCmd
  <2>1. x.ref + 1 \in Nat /\ "queued" \in Fates
    BY <1>1 DEF Fates
  <2> QED
    BY <2>1 DEF LooseCmd, Shared
<1>7. Put(x) \in LooseCmd
  <2>1. x.ref > 1 => x.ref - 1 \in Nat
    BY <1>1
  <2>2. [x EXCEPT !.ref = 0, !.mem = "freed"] \in LooseCmd
    BY DEF LooseCmd
  <2>3. x.ref > 1 => [x EXCEPT !.ref = @ - 1] \in LooseCmd
    BY <2>1 DEF LooseCmd
  <2> QED
    BY <1>1, <2>2, <2>3 DEF Put
<1>8. \A c : Complete(c, x) \in LooseCmd
  <2> SUFFICES ASSUME NEW c PROVE Complete(c, x) \in LooseCmd
    OBVIOUS
  <2>1. (x.ack \/ c \in Waits) \in BOOLEAN
    BY <1>1
  <2> QED
    BY <2>1 DEF LooseCmd, Complete
<1> QED
  BY <1>1, <1>3, <1>4, <1>5, <1>6, <1>7, <1>8

LEMMA FlushedFields ==
  ASSUME NEW x \in LooseCmd, NEW c
  PROVE  Flushed(c, x) \in LooseCmd
<1>1. [x EXCEPT !.fate = "settled"] \in LooseCmd
  BY CmdFields DEF Fates
<1> QED
  BY <1>1, CmdFields DEF Flushed

\* The fields of Put and Flushed.
LEMMA PutFields ==
  ASSUME NEW x \in LooseCmd
  PROVE  /\ Put(x).ack = x.ack /\ Put(x).fate = x.fate
         /\ x.ref = 1 => Put(x).ref = 0 /\ Put(x).mem = "freed"
         /\ x.ref # 1 => Put(x).mem = x.mem
         /\ x.ref > 1 => Put(x).ref = x.ref - 1
         /\ x.ref = 0 => Put(x).ref = 0
BY DEF LooseCmd, Put

LEMMA FlushFields ==
  ASSUME NEW x \in LooseCmd, NEW c
  PROVE  /\ Flushed(c, x).fate = "settled"
         /\ x.ref = 1 => Flushed(c, x).ref = 0 /\ Flushed(c, x).mem = "freed"
         /\ x.ref # 1 => Flushed(c, x).mem = x.mem
         /\ x.ref > 1 => Flushed(c, x).ref = x.ref - 1
<1> DEFINE y == Complete(c, [x EXCEPT !.fate = "settled"])
<1>1. y \in LooseCmd /\ y.ref = x.ref /\ y.mem = x.mem /\ y.fate = "settled"
  BY DEF LooseCmd, Fates, Complete
<1> QED
  BY <1>1, PutFields DEF Flushed

\* The initial state, and steps that touch no command.
LEMMA CountedInit == Init => Counted
<1> SUFFICES ASSUME Init PROVE Counted
  OBVIOUS
<1>1. Types
  <2>1. call \in [Cmds -> CallType] /\ cmd \in [Cmds -> LooseCmd]
    BY DEF Init, CallType, LooseCmd, Fates
  <2>2. pc \in [Drainers -> TaskPcs \cup OwnerPcs]
    BY DEF Init, Drainers, TaskPcs, OwnerPcs
  <2>3. pc["task"] = "none" /\ pc["owner"] = "closed"
    BY DEF Init, Drainers
  <2>4. pc["task"] \in TaskPcs /\ pc["owner"] \in OwnerPcs
    BY <2>3 DEF TaskPcs, OwnerPcs
  <2>5. hand \in [Drainers -> Cmds \cup {NoCmd}] /\ q \in Seq(Cmds)
    BY EmptyFacts DEF Init
  <2>6. /\ os \in [task : BOOLEAN, running : BOOLEAN, stop : BOOLEAN]
        /\ flag \in [set : BOOLEAN, kick : BOOLEAN]
        /\ nic \in BOOLEAN /\ startUp \in BOOLEAN /\ due \in BOOLEAN
    BY DEF Init
  <2>7. /\ qstate \in {"unknown", "inited", "running", "stoped"}
        /\ opens \in 0 .. MaxOpens
    BY DEF Init
  <2> QED
    BY <2>1, <2>2, <2>4, <2>5, <2>6, <2>7 DEF Types
<1>2. /\ ToSet(q) = {} /\ \A x : Single(q, x)
      /\ \A d \in Drainers : hand[d] = NoCmd /\ pc[d] \in {"none", "closed"}
  BY EmptyFacts DEF Init
<1>3. Places
  BY <1>2 DEF Places, EarlyPcs, LatePcs
<1>4. ASSUME NEW c \in Cmds PROVE Good(c)
  <2>1. ~InQueue(c) /\ ~Early(c) /\ ~Late(c)
    BY <1>2 DEF InQueue, Early, Late
  <2>2. /\ call[c].pc = "idle" /\ cmd[c].mem = "none" /\ cmd[c].ref = 0
        /\ ~cmd[c].ack /\ cmd[c].fate = "none"
    BY DEF Init
  <2> QED
    BY <2>1, <2>2 DEF Good, Held, InCall
<1> QED
  BY <1>1, <1>3, <1>4 DEF Counted

\* A command whose call, memory and place a step leaves alone.
Untouched(c) ==
  /\ call'[c] = call[c] /\ cmd'[c] = cmd[c]
  /\ InQueue(c)' <=> InQueue(c)
  /\ Early(c)' <=> Early(c)
  /\ Late(c)' <=> Late(c)
LEMMA SameGood ==
  ASSUME NEW c \in Cmds, Good(c), Untouched(c)
  PROVE  Good(c)'
BY DEF Good, Untouched, Held, InCall, Refs

\* Steps of the task and the owner with no command in hand before or after.
Quiet ==
  /\ UNCHANGED <<call, cmd, q, hand>>
  /\ \A d \in Drainers :
       pc'[d] # pc[d] => pc[d] \notin EarlyPcs \cup LatePcs
                        /\ pc'[d] \notin EarlyPcs \cup LatePcs
LEMMA QuietStep ==
  ASSUME Counted, Quiet, Types'
  PROVE  Counted'
<1>1. Places'
  BY DEF Counted, Quiet, Places
<1>2. ASSUME NEW c \in Cmds PROVE Good(c)'
  <2>1. Untouched(c)
    BY DEF Quiet, Untouched, InQueue, Early, Late
  <2> QED
    BY <2>1, SameGood DEF Counted
<1> QED
  BY <1>1, <1>2 DEF Counted

PcOf(d, p) == IF d = "task" THEN p \in TaskPcs ELSE p \in OwnerPcs
LEMMA StepPc ==
  ASSUME Types, NEW d \in Drainers, NEW p, Step(d, p)
  PROVE  /\ pc'[d] = p
         /\ \A e \in Drainers : e # d => pc'[e] = pc[e]
         /\ PcOf(d, p) =>
              /\ pc' \in [Drainers -> TaskPcs \cup OwnerPcs]
              /\ pc'["task"] \in TaskPcs /\ pc'["owner"] \in OwnerPcs
BY DEF Types, Step, Drainers, PcOf

LEMMA DrainerPcs == \A p \in DrainPcs, d \in Drainers : PcOf(d, p)
BY DEF PcOf, TaskPcs, OwnerPcs

LEMMA AfterPcs ==
  ASSUME NEW d \in Drainers
  PROVE  PcOf(d, AfterDrain(d)) /\ AfterDrain(d) \notin EarlyPcs \cup LatePcs
BY DEF PcOf, AfterDrain, Drainers, TaskPcs, OwnerPcs, EarlyPcs, LatePcs

LEMMA TaskQuiet ==
  ASSUME Counted,
         Starts \/ WaitEnds \/ ClearRunning \/ TestFlag \/ CopyFlag
           \/ UpdateBegins \/ UpdateEnds
  PROVE  Counted'
<1>0. Types /\ "task" \in Drainers
  BY DEF Counted, Drainers
<1>1. PICK p \in {"dead", "wait", "clearing", "flush", "loop", "copy",
                  "update", "updating"} : Step("task", p)
  BY DEF Starts, WaitEnds, ClearRunning, TestFlag, CopyFlag, UpdateBegins,
         UpdateEnds
<1>2. pc["task"] \notin EarlyPcs \cup LatePcs
  BY DEF Starts, WaitEnds, ClearRunning, TestFlag, CopyFlag, UpdateBegins,
         UpdateEnds, EarlyPcs, LatePcs
<1>3. p \in TaskPcs /\ p \notin EarlyPcs \cup LatePcs
  BY DEF TaskPcs, DrainPcs, EarlyPcs, LatePcs
<1>4. UNCHANGED <<call, cmd, q, hand>>
  BY DEF Starts, WaitEnds, ClearRunning, TestFlag, CopyFlag, UpdateBegins,
         UpdateEnds, world
<1>5. Quiet
  BY <1>0, <1>1, <1>2, <1>3, <1>4, StepPc DEF Quiet
<1>6. /\ qstate' \in {"unknown", "inited", "running", "stoped"}
      /\ os' \in [task : BOOLEAN, running : BOOLEAN, stop : BOOLEAN]
      /\ nic' \in BOOLEAN /\ startUp' \in BOOLEAN
      /\ flag' \in [set : BOOLEAN, kick : BOOLEAN] /\ due' \in BOOLEAN
      /\ opens' \in 0 .. MaxOpens
  BY <1>0 DEF Types, Starts, WaitEnds, ClearRunning, TestFlag, CopyFlag,
              UpdateBegins, UpdateEnds, world
<1>7. /\ pc' \in [Drainers -> TaskPcs \cup OwnerPcs]
      /\ pc'["task"] \in TaskPcs /\ pc'["owner"] \in OwnerPcs
  BY <1>0, <1>1, <1>3, StepPc DEF PcOf
<1>8. Types'
  BY <1>0, <1>4, <1>6, <1>7 DEF Types
<1> QED
  BY <1>5, <1>8, QuietStep

\* When the queue takes no more commands it is empty; the task runs while
\* the state says so, and only while the owner knows of it.
Life ==
  /\ qstate \in {"unknown", "stoped"} => q = <<>>
  /\ qstate = "running" => pc["task"] \notin {"none", "born", "dead"}
  /\ ~os.task \/ pc["owner"] \in {"closed", "attach"}
       => pc["task"] \in {"none", "dead"}

LEMMA OwnerQuiet ==
  ASSUME Counted, Life, Attach \/ Close \/ Kill \/ Joined
  PROVE  Counted'
<1>0. Types /\ Drainers = {"task", "owner"}
  BY DEF Counted, Drainers
<1>1. /\ pc' \in [Drainers -> TaskPcs \cup OwnerPcs]
      /\ pc'["owner"] \in {"open", "loop", "join", "closed"}
      /\ \/ pc'["task"] = pc["task"]
         \/ pc["owner"] = "attach" /\ pc'["task"] \in {"born", "none"}
      /\ pc["owner"] \in {"attach", "open", "kill", "join"}
  BY <1>0 DEF Attach, Close, Kill, Joined, Step, Types, TaskPcs,
              OwnerPcs, DrainPcs
<1>2. pc'["task"] # pc["task"] => pc["task"] \in {"none", "dead"}
  BY <1>1 DEF Life
<1>3. UNCHANGED <<call, cmd, q, hand, qstate, nic, startUp, flag, due, opens>>
  BY DEF Attach, Close, Kill, Joined, world
<1>4. Quiet
  BY <1>0, <1>1, <1>2, <1>3 DEF Quiet, EarlyPcs, LatePcs
<1>5. os' \in [task : BOOLEAN, running : BOOLEAN, stop : BOOLEAN]
  BY <1>0 DEF Types, Attach, Close, Kill, Joined
<1>6. pc'["task"] \in TaskPcs /\ pc'["owner"] \in OwnerPcs
  BY <1>0, <1>1 DEF Types, TaskPcs, OwnerPcs, DrainPcs
<1> QED
  BY <1>0, <1>1, <1>3, <1>4, <1>5, <1>6, QuietStep DEF Types

LEMMA OtherQuiet ==
  ASSUME Counted, SetFlag \/ KickFlag \/ Adapter \/ UNCHANGED vars
  PROVE  Counted'
<1>0. Types
  BY DEF Counted
<1>1. UNCHANGED <<call, cmd, q, hand, qstate, pc, opens>>
  BY DEF SetFlag, KickFlag, Adapter, vars
<1>2. Quiet
  BY <1>1 DEF Quiet
<1>3. /\ os' \in [task : BOOLEAN, running : BOOLEAN, stop : BOOLEAN]
      /\ nic' \in BOOLEAN /\ startUp' \in BOOLEAN
      /\ flag' \in [set : BOOLEAN, kick : BOOLEAN] /\ due' \in BOOLEAN
  <2>1. CASE SetFlag
    BY <1>0, <2>1 DEF Types, SetFlag
  <2>2. CASE KickFlag
    BY <1>0, <2>2 DEF Types, KickFlag, Wake
  <2>3. CASE Adapter
    BY <1>0, <2>3 DEF Types, Adapter
  <2>4. CASE UNCHANGED vars
    BY <1>0, <2>4 DEF Types, vars
  <2> QED
    BY <2>1, <2>2, <2>3, <2>4
<1> QED
  BY <1>0, <1>1, <1>2, <1>3, QuietStep DEF Types

\* The queue handling of the drainers.
LEMMA DrainQuiet ==
  ASSUME Counted, NEW d \in Drainers, Loop(d) \/ (Take(d) /\ q = <<>>)
  PROVE  Counted'
<1>0. Types
  BY DEF Counted
<1>1. PICK p \in {"take", AfterDrain(d)} : Step(d, p)
  BY DEF Loop, Take
<1>2. pc[d] \in {"loop", "take"}
  BY DEF Loop, Take
<1>3. UNCHANGED <<call, cmd, q, hand, qstate, os, nic, startUp, flag, due, opens>>
  BY DEF Loop, Take, world
<1>4. PcOf(d, p) /\ p \notin EarlyPcs \cup LatePcs
  BY AfterPcs, DrainerPcs DEF DrainPcs, EarlyPcs, LatePcs
<1>5. Quiet
  BY <1>0, <1>1, <1>2, <1>3, <1>4, StepPc DEF Quiet, EarlyPcs, LatePcs
<1> QED
  BY <1>0, <1>1, <1>3, <1>4, <1>5, StepPc, QuietStep DEF Types

-----------------------------------------------------------------------------
(***************************************************************************)
(* Steps that touch one command.                                           *)
(***************************************************************************)
\* What is left alone when only c changes, and not where it is.
LEMMA OneCommand ==
  ASSUME Counted, NEW c \in Cmds, UNCHANGED <<q, hand, pc>>,
         call' \in [Cmds -> CallType], cmd' \in [Cmds -> LooseCmd],
         \A x \in Cmds : x # c => call'[x] = call[x] /\ cmd'[x] = cmd[x],
         Good(c)', UNCHANGED <<qstate, nic, startUp, flag, due, opens>>,
         os' \in [task : BOOLEAN, running : BOOLEAN, stop : BOOLEAN]
  PROVE  Counted'
<1>1. Types' /\ Places'
  BY DEF Counted, Types, Places
<1>2. ASSUME NEW x \in Cmds, x # c PROVE Good(x)'
  <2>1. Untouched(x)
    BY <1>2 DEF Untouched, InQueue, Early, Late
  <2> QED
    BY <1>2, <2>1, SameGood DEF Counted
<1> QED
  BY <1>1, <1>2 DEF Counted

\* Leave and Goto.
LEMMA CallStep ==
  ASSUME Types, NEW c \in Cmds,
         NEW p \in {"idle", "insert", "kick", "wait", "end", "done"},
         Goto(c, p) \/ \E r \in {"SUCCESS", "FAILURE"} : Leave(c, p, r)
  PROVE  /\ call' \in [Cmds -> CallType] /\ call'[c].pc = p
         /\ \A x \in Cmds : x # c => call'[x] = call[x]
         /\ Goto(c, p) => call'[c].ret = call[c].ret
         /\ \A r \in {"SUCCESS", "FAILURE"} :
              Leave(c, p, r) => call'[c].ret = r
<1>0. call \in [Cmds -> CallType]
  BY DEF Types
<1>1. ASSUME NEW r \in {"SUCCESS", "FAILURE"}, Leave(c, p, r)
      PROVE  /\ call' \in [Cmds -> CallType]
             /\ call'[c] = [pc |-> p, ret |-> r]
             /\ \A x \in Cmds : x # c => call'[x] = call[x]
  <2>1. [pc |-> p, ret |-> r] \in CallType
    BY DEF CallType
  <2> HIDE DEF CallType
  <2> QED
    BY <1>0, <1>1, <2>1 DEF Leave
<1>2. ASSUME Goto(c, p)
      PROVE  /\ call' \in [Cmds -> CallType]
             /\ call'[c] = [call[c] EXCEPT !.pc = p]
             /\ \A x \in Cmds : x # c => call'[x] = call[x]
  <2>1. [call[c] EXCEPT !.pc = p] \in CallType
    <3>1. call[c] \in CallType
      BY <1>0
    <3> QED
      BY <3>1 DEF CallType
  <2>2. call' = [call EXCEPT ![c] = [call[c] EXCEPT !.pc = p]]
    BY <1>2 DEF Goto
  <2> QED
    BY <1>0, <2>1, <2>2
<1>3. /\ [call[c] EXCEPT !.pc = p].pc = p
      /\ [call[c] EXCEPT !.pc = p].ret = call[c].ret
  <2>1. call[c] \in CallType
    BY <1>0
  <2>2. \A x \in CallType : [x EXCEPT !.pc = p].pc = p
                            /\ [x EXCEPT !.pc = p].ret = x.ret
    BY DEF CallType
  <2> QED
    BY <2>1, <2>2
<1>4. \A r \in {"SUCCESS", "FAILURE"} : Leave(c, p, r) =>
        /\ call' \in [Cmds -> CallType]
        /\ call'[c].pc = p /\ call'[c].ret = r
        /\ \A x \in Cmds : x # c => call'[x] = call[x]
  BY <1>1
<1>5. Goto(c, p) =>
        /\ call' \in [Cmds -> CallType]
        /\ call'[c].pc = p /\ call'[c].ret = call[c].ret
        /\ \A x \in Cmds : x # c => call'[x] = call[x]
  BY <1>2, <1>3
<1> QED
  BY <1>4, <1>5

LEMMA KickCounted ==
  ASSUME Counted, NEW c \in Cmds, Kick(c) \/ EndWait(c)
  PROVE  Counted'
<1>0. Types /\ Good(c)
  BY DEF Counted
<1>1. PICK p \in {"wait", "end"} :
        Goto(c, p) \/ \E r \in {"SUCCESS", "FAILURE"} : Leave(c, p, r)
  BY DEF Kick, EndWait
<1>2. /\ UNCHANGED <<cmd, q, hand, pc, qstate, nic, startUp, flag, due, opens>>
      /\ call[c].pc \in {"kick", "wait"}
  BY DEF Kick, EndWait, world
<1>3. /\ call' \in [Cmds -> CallType] /\ call'[c].pc = p
      /\ \A x \in Cmds : x # c => call'[x] = call[x]
  BY <1>0, <1>1, CallStep
<1>4. c \in Waits /\ p = "end" /\ call'[c].ret = "SUCCESS" => cmd[c].ack
  <2>1. CASE Kick(c)
    <3>1. c \in Waits => Goto(c, "wait")
      BY <2>1 DEF Kick
    <3>2. c \in Waits => call'[c].pc = "wait"
      BY <1>0, <3>1, CallStep
    <3> QED
      BY <1>3, <3>2
  <2>2. CASE EndWait(c)
    <3>1. ~cmd[c].ack => Leave(c, "end", "FAILURE")
      BY <2>2 DEF EndWait, InTime
    <3>2. ~cmd[c].ack => call'[c].ret = "FAILURE"
      BY <1>0, <3>1, CallStep
    <3> QED
      BY <3>2
  <2> QED
    BY <2>1, <2>2
<1>5. /\ InQueue(c)' <=> InQueue(c)
      /\ Early(c)' <=> Early(c)
      /\ Late(c)' <=> Late(c)
      /\ InCall(c)' /\ InCall(c)
      /\ cmd'[c] = cmd[c]
  BY <1>2, <1>3 DEF InQueue, Early, Late, InCall
<1>6. Good(c)'
  BY <1>0, <1>2, <1>3, <1>4, <1>5 DEF Good, Held, Refs
<1>7. os' \in [task : BOOLEAN, running : BOOLEAN, stop : BOOLEAN]
  BY <1>0 DEF Kick, EndWait, Wake, Types
<1> QED
  BY <1>0, <1>2, <1>3, <1>6, <1>7, OneCommand DEF Types

LEMMA CallCounted ==
  ASSUME Counted, NEW c \in Cmds, Call(c)
  PROVE  Counted'
<1>0. Types /\ Good(c) /\ cmd[c] \in LooseCmd /\ call[c] \in CallType
  BY DEF Counted, Types
<1>1. /\ UNCHANGED <<q, hand, pc, qstate, os, nic, startUp, flag, due, opens>>
      /\ call[c].pc = "idle"
  BY DEF Call, world
<1>2. /\ cmd[c].mem = "none" /\ cmd[c].ref = 0 /\ cmd[c].fate = "none"
      /\ ~cmd[c].ack /\ ~InQueue(c) /\ ~Early(c) /\ ~Late(c)
  BY <1>0, <1>1 DEF Good, Held
<1>3. PICK p \in {"done", "end", "insert"} :
        Goto(c, p) \/ \E r \in {"SUCCESS", "FAILURE"} : Leave(c, p, r)
  BY DEF Call
<1>4. /\ call' \in [Cmds -> CallType] /\ call'[c].pc = p
      /\ \A x \in Cmds : x # c => call'[x] = call[x]
  BY <1>0, <1>3, CallStep
<1>5. ~InQueue(c)' /\ ~Early(c)' /\ ~Late(c)'
  BY <1>1, <1>2 DEF InQueue, Early, Late
<1>6. CASE Leave(c, "done", "FAILURE") /\ UNCHANGED cmd
  <2>1. call'[c].pc = "done" /\ call'[c].ret = "FAILURE"
    BY <1>0, <1>6, CallStep
  <2>2. Good(c)'
    BY <1>2, <1>5, <1>6, <2>1 DEF Good, Held, InCall
  <2> QED
    BY <1>0, <1>1, <1>4, <1>6, <2>2, OneCommand DEF Types
<1>7. CASE /\ Leave(c, "end", "FAILURE")
           /\ cmd' = [cmd EXCEPT ![c].mem = "live", ![c].fate = "unborn"]
  <2>1. call'[c].pc = "end" /\ call'[c].ret = "FAILURE"
    BY <1>0, <1>7, CallStep
  <2>2. /\ cmd' \in [Cmds -> LooseCmd]
        /\ \A x \in Cmds : x # c => cmd'[x] = cmd[x]
        /\ cmd'[c] = [cmd[c] EXCEPT !.mem = "live", !.fate = "unborn"]
    BY <1>0, <1>7, CmdFields DEF Types, Fates
  <2>3. /\ cmd'[c].mem = "live" /\ cmd'[c].fate = "unborn"
        /\ cmd'[c].ref = 0 /\ ~cmd'[c].ack
    BY <1>0, <1>2, <2>2 DEF LooseCmd
  <2>4. Good(c)'
    BY <1>5, <2>1, <2>3 DEF Good, Held, InCall
  <2> QED
    BY <1>0, <1>1, <1>4, <2>2, <2>4, OneCommand DEF Types
<1>8. CASE /\ Goto(c, "insert")
           /\ cmd' = [cmd EXCEPT ![c].mem = "live", ![c].ref = 1]
  <2>1. call'[c].pc = "insert"
    BY <1>0, <1>8, CallStep
  <2>2. /\ cmd' \in [Cmds -> LooseCmd]
        /\ \A x \in Cmds : x # c => cmd'[x] = cmd[x]
        /\ cmd'[c] = [cmd[c] EXCEPT !.mem = "live", !.ref = 1]
    BY <1>0, <1>8, CmdFields DEF Types
  <2>3. /\ cmd'[c].mem = "live" /\ cmd'[c].fate = "none"
        /\ cmd'[c].ref = 1 /\ ~cmd'[c].ack
    BY <1>0, <1>2, <2>2 DEF LooseCmd
  <2>4. Good(c)'
    BY <1>5, <2>1, <2>3 DEF Good, Held, InCall, Refs
  <2> QED
    BY <1>0, <1>1, <1>4, <2>2, <2>4, OneCommand DEF Types
<1> QED
  BY <1>6, <1>7, <1>8 DEF Call

LEMMA ReturnCounted ==
  ASSUME Counted, NEW c \in Cmds, Return(c)
  PROVE  Counted'
<1>0. Types /\ Good(c) /\ cmd[c] \in LooseCmd /\ call[c].pc = "end"
  BY DEF Counted, Types, Return
<1>1. /\ UNCHANGED <<q, hand, pc, qstate, os, nic, startUp, flag, due, opens>>
      /\ Goto(c, "done")
  BY DEF Return, world
<1>2. /\ call' \in [Cmds -> CallType] /\ call'[c].pc = "done"
      /\ \A x \in Cmds : x # c => call'[x] = call[x]
      /\ call'[c].ret = call[c].ret
  BY <1>0, <1>1, CallStep
<1>3. /\ cmd' \in [Cmds -> LooseCmd]
      /\ \A x \in Cmds : x # c => cmd'[x] = cmd[x]
      /\ cmd'[c] = Put(cmd[c])
  BY <1>0, CmdFields DEF Types, Return
<1>4. /\ InQueue(c)' <=> InQueue(c)
      /\ Early(c)' <=> Early(c)
      /\ Late(c)' <=> Late(c)
      /\ ~InCall(c)' /\ InCall(c)
  BY <1>0, <1>1, <1>2 DEF InQueue, Early, Late, InCall
<1>5. /\ cmd'[c].ack = cmd[c].ack /\ cmd'[c].fate = cmd[c].fate
      /\ cmd[c].mem = "live"
  BY <1>0, <1>3, <1>4, PutFields DEF Good
<1>6. CASE cmd[c].fate = "unborn"
  <2>1. cmd'[c].ref = 0 /\ cmd'[c].mem = "live"
    BY <1>0, <1>3, <1>5, <1>6, PutFields DEF Good
  <2> QED
    BY <1>0, <1>2, <1>4, <1>5, <1>6, <2>1, <1>1, <1>3, OneCommand
       DEF Good, Held, Types
<1>7. CASE cmd[c].fate # "unborn" /\ (Held(c) \/ cmd[c].fate = "dropped")
  <2>1. cmd[c].ref = 2
    BY <1>0, <1>4, <1>5, <1>7 DEF Good, Refs
  <2>2. cmd'[c].ref = 1 /\ cmd'[c].mem = "live"
    BY <1>0, <1>3, <1>5, <2>1, PutFields
  <2>3. Good(c)'
    BY <1>0, <1>2, <1>4, <1>5, <1>7, <2>2 DEF Good, Held, Refs
  <2> QED
    BY <1>0, <1>1, <1>2, <1>3, <2>3, OneCommand DEF Types
<1>8. CASE cmd[c].fate # "unborn" /\ ~(Held(c) \/ cmd[c].fate = "dropped")
  <2>1. cmd[c].ref = 1
    BY <1>0, <1>4, <1>5, <1>8 DEF Good, Refs
  <2>2. cmd'[c].ref = 0 /\ cmd'[c].mem = "freed"
    BY <1>0, <1>3, <2>1, PutFields
  <2>3. Good(c)'
    BY <1>0, <1>2, <1>4, <1>5, <1>8, <2>2 DEF Good, Held, Refs
  <2> QED
    BY <1>0, <1>1, <1>2, <1>3, <2>3, OneCommand DEF Types
<1> QED
  BY <1>6, <1>7, <1>8

\* Steps of a drainer, with the command it takes, holds or lets go.
LEMMA MovedCommand ==
  ASSUME Counted, NEW c \in Cmds, NEW d \in Drainers, Types', Places', Good(c)',
         call' = call \/ \A x \in Cmds : x # c => call'[x] = call[x],
         \A x \in Cmds : x # c => cmd'[x] = cmd[x] /\ (InQueue(x)' <=> InQueue(x)),
         \A e \in Drainers : e # d => hand'[e] = hand[e] /\ pc'[e] = pc[e],
         hand[d] \in {c, NoCmd}, hand'[d] \in {c, NoCmd}
  PROVE  Counted'
<1>1. ASSUME NEW x \in Cmds, x # c PROVE Good(x)'
  <2>1. hand[d] # x /\ hand'[d] # x
    BY <1>1
  <2>2. Untouched(x)
    BY <1>1, <2>1 DEF Untouched, Early, Late
  <2> QED
    BY <1>1, <2>2, SameGood DEF Counted
<1> QED
  BY <1>1 DEF Counted

\* Nobody else has what a drainer has in its hand.
LEMMA InHandFacts ==
  ASSUME Counted, NEW d \in Drainers, pc[d] \in EarlyPcs \cup LatePcs
  PROVE  /\ hand[d] \in Cmds /\ hand[d] # NoCmd /\ ~InQueue(hand[d])
         /\ Good(hand[d]) /\ cmd[hand[d]] \in LooseCmd
         /\ Early(hand[d]) <=> pc[d] \in EarlyPcs
         /\ Late(hand[d]) <=> pc[d] \in LatePcs
         /\ \A e \in Drainers : e # d => hand[e] # hand[d]
BY DEF Counted, Types, Places, InQueue, Early, Late

LEMMA InsertCounted ==
  ASSUME Counted, NEW c \in Cmds, Insert(c)
  PROVE  Counted'
<1>0. Types /\ Places /\ Good(c) /\ cmd[c] \in LooseCmd
  BY DEF Counted, Types
<1>1. /\ UNCHANGED <<hand, pc, qstate, os, nic, startUp, flag, due, opens>>
      /\ call[c].pc = "insert"
  BY DEF Insert, world
<1>2. /\ cmd[c].fate = "none" /\ cmd[c].mem = "live" /\ ~cmd[c].ack
      /\ ~InQueue(c) /\ ~Early(c) /\ ~Late(c) /\ cmd[c].ref = 1
  BY <1>0, <1>1 DEF Good, Held, InCall, Refs
<1>3. CASE CanInsert
  <2>1. /\ cmd' = [cmd EXCEPT ![c] = Shared(@)]
        /\ q' = Append(q, c) /\ Goto(c, "kick")
    BY <1>3 DEF Insert
  <2>2. /\ call' \in [Cmds -> CallType] /\ call'[c].pc = "kick"
        /\ \A x \in Cmds : x # c => call'[x] = call[x]
    BY <1>0, <2>1, CallStep
  <2>3. /\ cmd' \in [Cmds -> LooseCmd] /\ cmd'[c] = Shared(cmd[c])
        /\ \A x \in Cmds : x # c => cmd'[x] = cmd[x]
    BY <1>0, <2>1, CmdFields DEF Types
  <2>4. /\ cmd'[c].mem = "live" /\ cmd'[c].ref = 2 /\ ~cmd'[c].ack
        /\ cmd'[c].fate = "queued"
    BY <1>0, <1>2, <2>3 DEF LooseCmd, Shared
  <2>5. /\ q' \in Seq(Cmds) /\ ToSet(q') = ToSet(q) \cup {c}
        /\ \A x : Single(q', x)
    <3>1. q \in Seq(Cmds) /\ c \notin ToSet(q) /\ \A x : Single(q, x)
      BY <1>0, <1>2 DEF Types, Places, InQueue
    <3> QED
      BY <2>1, <3>1, AppendFacts
  <2>6. InQueue(c)' /\ ~Early(c)' /\ ~Late(c)' /\ InCall(c)'
    BY <1>1, <1>2, <2>2, <2>5 DEF InQueue, Early, Late, InCall
  <2>7. Types'
    BY <1>0, <1>1, <2>2, <2>3, <2>5 DEF Types
  <2>8. Places'
    <3>1. \A d \in Drainers : hand[d] # c
      BY <1>0, <1>2 DEF Places, Early, Late
    <3> QED
      BY <1>0, <1>1, <2>5, <3>1 DEF Places
  <2>9. Good(c)'
    BY <2>2, <2>4, <2>6 DEF Good, Held, Refs
  <2>10. ASSUME NEW x \in Cmds, x # c PROVE Good(x)'
    <3>1. Untouched(x)
      BY <1>1, <2>2, <2>3, <2>5, <2>10 DEF Untouched, InQueue, Early, Late
    <3> QED
      BY <3>1, SameGood DEF Counted
  <2> QED
    BY <2>7, <2>8, <2>9, <2>10 DEF Counted
<1>4. CASE ~CanInsert
  <2>1. Leave(c, "end", "FAILURE") /\ UNCHANGED <<cmd, q>>
    BY <1>4 DEF Insert
  <2>2. /\ call' \in [Cmds -> CallType] /\ call'[c].pc = "end"
        /\ call'[c].ret = "FAILURE"
        /\ \A x \in Cmds : x # c => call'[x] = call[x]
    BY <1>0, <2>1, CallStep
  <2>3. ~InQueue(c)' /\ ~Early(c)' /\ ~Late(c)' /\ InCall(c)'
    BY <1>1, <1>2, <2>1, <2>2 DEF InQueue, Early, Late, InCall
  <2>4. Good(c)'
    BY <1>2, <2>1, <2>2, <2>3 DEF Good, Held, Refs
  <2> QED
    BY <1>0, <1>1, <2>1, <2>2, <2>4, OneCommand DEF Types
<1> QED
  BY <1>3, <1>4

LEMMA TakeCounted ==
  ASSUME Counted, NEW d \in Drainers, Take(d), q # <<>>
  PROVE  Counted'
<1>0. Types /\ Places
  BY DEF Counted
<1> PICK c \in Cmds : c = Head(q)
  BY <1>0, TailFacts DEF Types
<1>1. /\ UNCHANGED <<call, cmd, qstate, os, nic, startUp, flag, due, opens>>
      /\ hand' = [hand EXCEPT ![d] = c] /\ q' = Tail(q)
      /\ Step(d, "gate") /\ pc[d] = "take"
  BY DEF Take, world
<1>2. /\ c \in Cmds /\ q' \in Seq(Cmds) /\ ToSet(q) = ToSet(q') \cup {c}
      /\ c \notin ToSet(q') /\ \A x : Single(q', x)
  BY <1>0, <1>1, TailFacts DEF Types, Places
<1>3. /\ pc' \in [Drainers -> TaskPcs \cup OwnerPcs]
      /\ pc'["task"] \in TaskPcs /\ pc'["owner"] \in OwnerPcs
      /\ pc'[d] = "gate" /\ \A e \in Drainers : e # d => pc'[e] = pc[e]
  BY <1>0, <1>1, StepPc, DrainerPcs DEF DrainPcs
<1>4. /\ hand' \in [Drainers -> Cmds \cup {NoCmd}] /\ hand'[d] = c
      /\ \A e \in Drainers : e # d => hand'[e] = hand[e]
      /\ hand[d] = NoCmd /\ c # NoCmd
  BY <1>0, <1>1, <1>2 DEF Types, Places, EarlyPcs, LatePcs
<1>5. \A e \in Drainers : hand[e] # c
  BY <1>0, <1>2, <1>4 DEF Places
<1>6. Types'
  BY <1>0, <1>1, <1>2, <1>3, <1>4 DEF Types
<1>7. Places'
  <2>1. \A e \in Drainers :
          /\ hand'[e] # NoCmd <=> pc'[e] \in EarlyPcs \cup LatePcs
          /\ hand'[e] # NoCmd => hand'[e] \notin ToSet(q')
    BY <1>0, <1>2, <1>3, <1>4 DEF Places, EarlyPcs, LatePcs
  <2>2. \A e, f \in Drainers : hand'[e] = hand'[f] /\ hand'[e] # NoCmd => e = f
    BY <1>0, <1>4, <1>5 DEF Places
  <2> QED
    BY <1>2, <2>1, <2>2 DEF Places
<1>8. Good(c)'
  <2>1. InQueue(c) /\ ~Early(c) /\ ~Late(c)
    BY <1>2, <1>5 DEF InQueue, Early, Late
  <2>2. ~InQueue(c)' /\ Early(c)'
    BY <1>2, <1>3, <1>4 DEF InQueue, Early, EarlyPcs
  <2>3. ~Late(c)'
    BY <1>3, <1>4, <1>5 DEF Late, LatePcs
  <2>4. Good(c) /\ (InCall(c)' <=> InCall(c))
    BY <1>1, <1>2 DEF Counted, InCall
  <2> QED
    BY <1>1, <2>1, <2>2, <2>3, <2>4 DEF Good, Held, Refs
<1> QED
  BY <1>1, <1>2, <1>3, <1>4, <1>6, <1>7, <1>8, MovedCommand DEF InQueue

\* A step that changes the command in hand and goes on.
LEMMA OnwardPlaces ==
  ASSUME Counted, NEW d \in Drainers, NEW p \in EarlyPcs \cup LatePcs,
         pc[d] \in EarlyPcs \cup LatePcs, Step(d, p), UNCHANGED <<q, hand>>,
         UNCHANGED <<call, qstate, os, world>>, cmd' \in [Cmds -> LooseCmd]
  PROVE  /\ Types' /\ Places' /\ pc'[d] = p
         /\ \A e \in Drainers : e # d => pc'[e] = pc[e]
<1>0. Types /\ Places
  BY DEF Counted
<1>1. p \in DrainPcs
  BY DEF EarlyPcs, LatePcs, DrainPcs
<1>2. /\ pc' \in [Drainers -> TaskPcs \cup OwnerPcs]
      /\ pc'["task"] \in TaskPcs /\ pc'["owner"] \in OwnerPcs
      /\ pc'[d] = p /\ \A e \in Drainers : e # d => pc'[e] = pc[e]
  BY <1>0, <1>1, StepPc, DrainerPcs
<1>3. Places'
  BY <1>0, <1>2 DEF Places
<1>4. Types'
  BY <1>0, <1>2 DEF Types, world
<1> QED
  BY <1>2, <1>3, <1>4

LEMMA SettleCounted ==
  ASSUME Counted, NEW d \in Drainers, Gate(d) \/ Ran(d)
  PROVE  Counted'
<1>0. Types /\ pc[d] \in EarlyPcs
  BY DEF Counted, Gate, Ran, EarlyPcs
<1> PICK c \in Cmds : c = hand[d]
  BY <1>0, InHandFacts
<1>1. /\ Good(c) /\ cmd[c] \in LooseCmd /\ ~InQueue(c) /\ Early(c) /\ ~Late(c)
      /\ \A e \in Drainers : e # d => hand[e] # c
  BY <1>0, InHandFacts DEF EarlyPcs, LatePcs
<1>2. UNCHANGED <<call, q, hand, qstate, os, world>>
  BY DEF Gate, Ran, world
<1>3. CASE Step(d, "run") /\ UNCHANGED cmd
  <2>1. cmd' \in [Cmds -> LooseCmd]
    BY <1>0, <1>3 DEF Types
  <2>2. /\ Types' /\ Places' /\ pc'[d] = "run"
        /\ \A e \in Drainers : e # d => pc'[e] = pc[e]
    BY <1>0, <1>2, <1>3, <2>1, OnwardPlaces DEF EarlyPcs
  <2>3. Untouched(c)
    BY <1>1, <1>2, <1>3, <2>2
       DEF Untouched, InQueue, Early, Late, EarlyPcs, LatePcs
  <2>4. Good(c)'
    BY <1>1, <2>3, SameGood
  <2> QED
    BY <1>2, <1>3, <2>2, <2>4, MovedCommand DEF InQueue
<1>4. CASE /\ Step(d, "complete")
           /\ cmd' = [cmd EXCEPT ![hand[d]].fate = "settled"]
  <2>0. cmd' = [cmd EXCEPT ![c] = [cmd[c] EXCEPT !.fate = "settled"]]
    BY <1>4
  <2>1. /\ cmd' \in [Cmds -> LooseCmd]
        /\ cmd'[c] = [cmd[c] EXCEPT !.fate = "settled"]
        /\ \A x \in Cmds : x # c => cmd'[x] = cmd[x]
    BY <1>0, <1>1, <2>0, CmdFields DEF Types, Fates
  <2>2. /\ Types' /\ Places' /\ pc'[d] = "complete"
        /\ \A e \in Drainers : e # d => pc'[e] = pc[e]
    BY <1>0, <1>2, <1>4, <2>1, OnwardPlaces DEF LatePcs
  <2>3. ~InQueue(c)' /\ ~Early(c)' /\ Late(c)' /\ (InCall(c)' <=> InCall(c))
    BY <1>1, <1>2, <2>2 DEF InQueue, Early, Late, EarlyPcs, LatePcs, InCall
  <2>4. /\ cmd'[c].mem = cmd[c].mem /\ cmd'[c].ref = cmd[c].ref
        /\ cmd'[c].ack = cmd[c].ack /\ cmd'[c].fate = "settled"
    BY <1>1, <2>1 DEF LooseCmd
  <2>5. Good(c)'
    BY <1>1, <1>2, <2>3, <2>4 DEF Good, Held, Refs
  <2> QED
    BY <1>2, <2>1, <2>2, <2>5, MovedCommand DEF InQueue
<1> QED
  BY <1>3, <1>4 DEF Gate, Ran

LEMMA CompletesCounted ==
  ASSUME Counted, NEW d \in Drainers, Completes(d)
  PROVE  Counted'
<1>0. Types /\ pc[d] \in LatePcs
  BY DEF Counted, Completes, LatePcs
<1> PICK c \in Cmds : c = hand[d]
  BY <1>0, InHandFacts
<1>1. /\ Good(c) /\ cmd[c] \in LooseCmd /\ ~InQueue(c) /\ ~Early(c) /\ Late(c)
      /\ \A e \in Drainers : e # d => hand[e] # c
  BY <1>0, InHandFacts DEF EarlyPcs, LatePcs
<1>2. /\ UNCHANGED <<call, q, hand, qstate, os, world>> /\ Step(d, "put")
      /\ cmd' = [cmd EXCEPT ![c] = Complete(c, cmd[c])]
  BY DEF Completes, world
<1>3. /\ cmd' \in [Cmds -> LooseCmd] /\ cmd'[c] = Complete(c, cmd[c])
      /\ \A x \in Cmds : x # c => cmd'[x] = cmd[x]
  BY <1>0, <1>1, <1>2, CmdFields DEF Types
<1>4. /\ Types' /\ Places' /\ pc'[d] = "put"
      /\ \A e \in Drainers : e # d => pc'[e] = pc[e]
  BY <1>0, <1>2, <1>3, OnwardPlaces DEF LatePcs
<1>5. ~InQueue(c)' /\ ~Early(c)' /\ Late(c)' /\ (InCall(c)' <=> InCall(c))
  BY <1>1, <1>2, <1>4 DEF InQueue, Early, Late, EarlyPcs, LatePcs, InCall
<1>6. /\ cmd'[c].mem = cmd[c].mem /\ cmd'[c].ref = cmd[c].ref
      /\ cmd'[c].fate = cmd[c].fate
  BY <1>1, <1>3 DEF LooseCmd, Complete
<1>7. Good(c)'
  BY <1>1, <1>2, <1>5, <1>6 DEF Good, Held, Refs
<1> QED
  BY <1>2, <1>3, <1>4, <1>7, MovedCommand DEF InQueue

LEMMA ReleaseCounted ==
  ASSUME Counted, NEW d \in Drainers, Release(d)
  PROVE  Counted'
<1>0. Types /\ Places /\ pc[d] \in LatePcs
  BY DEF Counted, Release, LatePcs
<1> PICK c \in Cmds : c = hand[d]
  BY <1>0, InHandFacts
<1>1. /\ Good(c) /\ cmd[c] \in LooseCmd /\ ~InQueue(c) /\ ~Early(c) /\ Late(c)
      /\ \A e \in Drainers : e # d => hand[e] # c
  BY <1>0, InHandFacts DEF EarlyPcs, LatePcs
<1>2. /\ UNCHANGED <<call, q, qstate, os, world>> /\ Step(d, "loop")
      /\ cmd' = [cmd EXCEPT ![c] = Put(cmd[c])]
      /\ hand' = [hand EXCEPT ![d] = NoCmd]
  BY DEF Release, world
<1>3. /\ cmd' \in [Cmds -> LooseCmd] /\ cmd'[c] = Put(cmd[c])
      /\ \A x \in Cmds : x # c => cmd'[x] = cmd[x]
  BY <1>0, <1>1, <1>2, CmdFields DEF Types
<1>4. /\ pc' \in [Drainers -> TaskPcs \cup OwnerPcs]
      /\ pc'["task"] \in TaskPcs /\ pc'["owner"] \in OwnerPcs
      /\ pc'[d] = "loop" /\ \A e \in Drainers : e # d => pc'[e] = pc[e]
  BY <1>0, <1>2, StepPc, DrainerPcs DEF DrainPcs
<1>5. /\ hand' \in [Drainers -> Cmds \cup {NoCmd}] /\ hand'[d] = NoCmd
      /\ \A e \in Drainers : e # d => hand'[e] = hand[e]
  BY <1>0, <1>2 DEF Types
<1>6. Types'
  BY <1>0, <1>2, <1>3, <1>4, <1>5 DEF Types, world
<1>7. Places'
  <2>1. pc'[d] \notin EarlyPcs \cup LatePcs
    BY <1>4 DEF EarlyPcs, LatePcs
  <2>2. \A x : Single(q', x)
    BY <1>0, <1>2 DEF Places
  <2>3. ASSUME NEW e \in Drainers
        PROVE  /\ hand'[e] # NoCmd <=> pc'[e] \in EarlyPcs \cup LatePcs
               /\ hand'[e] # NoCmd => hand'[e] \notin ToSet(q')
               /\ \A f \in Drainers :
                    hand'[e] = hand'[f] /\ hand'[e] # NoCmd => e = f
    BY <1>0, <1>2, <1>4, <1>5, <2>1 DEF Places
  <2> QED
    BY <2>2, <2>3 DEF Places
<1>8. ~InQueue(c)' /\ ~Early(c)' /\ ~Late(c)' /\ (InCall(c)' <=> InCall(c))
  BY <1>1, <1>2, <1>4, <1>5 DEF InQueue, Early, Late, EarlyPcs, LatePcs, InCall
<1>9. /\ cmd[c].fate = "settled" /\ cmd[c].mem = "live"
      /\ cmd'[c].fate = "settled"
      /\ cmd[c].ref = IF InCall(c) THEN 2 ELSE 1
  BY <1>1, <1>3, PutFields DEF Good, Held, Refs
<1>10. Good(c)'
  <2>1. CASE InCall(c)
    <3>1. cmd'[c].ref = 1 /\ cmd'[c].mem = "live"
      BY <1>1, <1>3, <1>9, <2>1, PutFields
    <3> QED
      BY <1>1, <1>2, <1>8, <1>9, <2>1, <3>1 DEF Good, Held, Refs
  <2>2. CASE ~InCall(c)
    <3>1. cmd'[c].ref = 0 /\ cmd'[c].mem = "freed"
      BY <1>1, <1>3, <1>9, <2>2, PutFields
    <3> QED
      BY <1>1, <1>2, <1>8, <1>9, <2>2, <3>1 DEF Good, Held, Refs
  <2> QED
    BY <2>1, <2>2
<1> QED
  BY <1>2, <1>3, <1>4, <1>5, <1>6, <1>7, <1>10, MovedCommand DEF InQueue

-----------------------------------------------------------------------------
(***************************************************************************)
(* Steps that touch every command in the queue.                            *)
(***************************************************************************)
\* The queue is emptied by a drainer with nothing in hand, before or after.
LEMMA EmptiedPlaces ==
  ASSUME Counted, NEW d \in Drainers, NEW p, Step(d, p), q' = <<>>,
         UNCHANGED hand, pc[d] \notin EarlyPcs \cup LatePcs,
         p \notin EarlyPcs \cup LatePcs
  PROVE  /\ Places'
         /\ \A c \in Cmds : /\ ~InQueue(c)'
                            /\ Early(c)' <=> Early(c)
                            /\ Late(c)' <=> Late(c)
<1>0. Types /\ Places
  BY DEF Counted
<1>1. pc'[d] = p /\ \A e \in Drainers : e # d => pc'[e] = pc[e]
  BY <1>0, StepPc
<1>2. ToSet(q') = {} /\ \A x : Single(q', x)
  BY EmptyFacts
<1>3. Places'
  BY <1>0, <1>1, <1>2 DEF Places
<1> QED
  BY <1>1, <1>2, <1>3 DEF InQueue, Early, Late

LEMMA QueuedFacts ==
  ASSUME Counted, NEW c \in Cmds, InQueue(c)
  PROVE  /\ Good(c) /\ cmd[c] \in LooseCmd /\ ~Early(c) /\ ~Late(c)
         /\ cmd[c].fate = "queued" /\ cmd[c].mem = "live" /\ ~cmd[c].ack
         /\ cmd[c].ref = IF InCall(c) THEN 2 ELSE 1
<1>1. Good(c) /\ cmd[c] \in LooseCmd
  BY DEF Counted, Types
<1>2. ~Early(c) /\ ~Late(c)
  BY DEF Counted, Types, Places, InQueue, Early, Late
<1> QED
  BY <1>1, <1>2 DEF Good, Held, Refs

LEMMA FlushCounted == Counted /\ Flush => Counted'
<1> SUFFICES ASSUME Counted, Flush PROVE Counted'
  OBVIOUS
<1>0. Types /\ "task" \in Drainers
  BY DEF Counted, Drainers
<1>1. /\ UNCHANGED <<call, hand, os, nic, startUp, flag, due, opens>>
      /\ q' = <<>> /\ qstate' = "stoped" /\ Step("task", "dead")
      /\ pc["task"] = "flush"
      /\ cmd' = [c \in Cmds |-> IF c \in ToSet(q) THEN Flushed(c, cmd[c])
                                                  ELSE cmd[c]]
  BY DEF Flush, world
<1>2. /\ Places'
      /\ \A c \in Cmds : /\ ~InQueue(c)'
                         /\ Early(c)' <=> Early(c)
                         /\ Late(c)' <=> Late(c)
  BY <1>0, <1>1, EmptiedPlaces DEF EarlyPcs, LatePcs
<1>3. cmd' \in [Cmds -> LooseCmd]
  BY <1>0, <1>1, FlushedFields DEF Types
<1>4. Types'
  <2>1. /\ pc' \in [Drainers -> TaskPcs \cup OwnerPcs]
        /\ pc'["task"] \in TaskPcs /\ pc'["owner"] \in OwnerPcs
    BY <1>0, <1>1, StepPc DEF PcOf, TaskPcs
  <2> QED
    BY <1>0, <1>1, <1>3, <2>1, EmptyFacts DEF Types
<1>5. ASSUME NEW c \in Cmds PROVE Good(c)'
  <2>0. /\ InCall(c)' <=> InCall(c)
        /\ call'[c] = call[c]
    BY <1>1 DEF InCall
  <2>1. CASE InQueue(c)
    <3>1. cmd'[c] = Flushed(c, cmd[c])
      BY <1>1, <2>1 DEF InQueue
    <3>2. cmd'[c].fate = "settled" /\ ~Held(c)'
      BY <1>2, <2>1, <3>1, QueuedFacts, FlushFields DEF Held
    <3>3. CASE InCall(c)
      <4>1. cmd'[c].ref = 1 /\ cmd'[c].mem = "live"
        BY <2>1, <3>1, <3>3, QueuedFacts, FlushFields
      <4>2. call[c].pc # "idle" /\ call[c].pc # "insert"
        BY <2>1, QueuedFacts DEF Good
      <4> QED
        BY <1>2, <2>0, <2>1, <3>2, <3>3, <4>1, <4>2, QueuedFacts
           DEF Good, Refs, Held
    <3>4. CASE ~InCall(c)
      <4>1. cmd'[c].ref = 0 /\ cmd'[c].mem = "freed"
        BY <2>1, <3>1, <3>4, QueuedFacts, FlushFields
      <4>2. call[c].pc # "idle" /\ call[c].pc # "insert"
        BY <2>1, QueuedFacts DEF Good
      <4> QED
        BY <1>2, <2>0, <2>1, <3>2, <3>4, <4>1, <4>2, QueuedFacts
           DEF Good, Refs, Held
    <3> QED
      BY <3>3, <3>4
  <2>2. CASE ~InQueue(c)
    <3>1. cmd'[c] = cmd[c]
      BY <1>1, <2>2 DEF InQueue
    <3> QED
      BY <1>2, <2>0, <2>2, <3>1, SameGood DEF Untouched, Counted
  <2> QED
    BY <2>1, <2>2
<1> QED
  BY <1>2, <1>4, <1>5 DEF Counted

LEMMA OpenCounted == Counted /\ Open => Counted'
<1> SUFFICES ASSUME Counted, Open PROVE Counted'
  OBVIOUS
<1>0. Types /\ "owner" \in Drainers
  BY DEF Counted, Drainers
<1>1. /\ UNCHANGED <<call, hand, os, flag, due>>
      /\ q' = <<>> /\ qstate' = "inited" /\ Step("owner", "attach")
      /\ pc["owner"] = "closed" /\ nic' = FALSE /\ startUp' = FALSE
      /\ cmd' = [c \in Cmds |-> IF c \in ToSet(q)
                                  THEN [cmd[c] EXCEPT !.fate = "dropped"]
                                  ELSE cmd[c]]
  BY DEF Open
<1>2. /\ Places'
      /\ \A c \in Cmds : /\ ~InQueue(c)'
                         /\ Early(c)' <=> Early(c)
                         /\ Late(c)' <=> Late(c)
  BY <1>0, <1>1, EmptiedPlaces DEF EarlyPcs, LatePcs
<1>3. cmd' \in [Cmds -> LooseCmd]
  BY <1>0, <1>1, CmdFields DEF Types, Fates
<1>4. opens' \in 0 .. MaxOpens
  BY <1>0 DEF Open, Types
<1>5. Types'
  <2>1. /\ pc' \in [Drainers -> TaskPcs \cup OwnerPcs]
        /\ pc'["task"] \in TaskPcs /\ pc'["owner"] \in OwnerPcs
    BY <1>0, <1>1, StepPc DEF PcOf, OwnerPcs
  <2> QED
    BY <1>0, <1>1, <1>3, <1>4, <2>1, EmptyFacts DEF Types
<1>6. ASSUME NEW c \in Cmds PROVE Good(c)'
  <2>0. /\ InCall(c)' <=> InCall(c)
        /\ call'[c] = call[c]
    BY <1>1 DEF InCall
  <2>1. CASE InQueue(c)
    <3>1. cmd'[c] = [cmd[c] EXCEPT !.fate = "dropped"]
      BY <1>1, <2>1 DEF InQueue
    <3>2. /\ cmd'[c].fate = "dropped" /\ ~Held(c)' /\ cmd'[c].mem = "live"
          /\ cmd'[c].ref = cmd[c].ref /\ ~cmd'[c].ack
      BY <1>2, <2>1, <3>1, QueuedFacts DEF Held, LooseCmd
    <3> QED
      BY <1>2, <2>0, <2>1, <3>2, QueuedFacts DEF Good, Refs, Held
  <2>2. CASE ~InQueue(c)
    <3>1. cmd'[c] = cmd[c]
      BY <1>1, <2>2 DEF InQueue
    <3> QED
      BY <1>2, <2>0, <2>2, <3>1, SameGood DEF Untouched, Counted
  <2> QED
    BY <2>1, <2>2
<1> QED
  BY <1>2, <1>5, <1>6 DEF Counted

-----------------------------------------------------------------------------
(***************************************************************************)
(* The life of the task.                                                   *)
(***************************************************************************)
Alive == TaskPcs \ {"none", "born", "dead"}

LEMMA LifeInit == Init => Life
BY DEF Init, Life, Drainers

\* Steps of the task once it runs, and of anyone else while it stays put.
LEMMA AliveStep ==
  ASSUME Life, Types, pc["task"] \in Alive, pc'["task"] \in Alive,
         pc'["owner"] = pc["owner"], os'.task = os.task, qstate' = qstate,
         q = <<>> => q' = <<>>
  PROVE  Life'
BY DEF Life, Alive

LEMMA StayStep ==
  ASSUME Life, Types, pc'["task"] = pc["task"], os'.task = os.task,
         pc'["owner"] \in {"closed", "attach"}
           => pc["owner"] \in {"closed", "attach"} \/ ~os.task,
         qstate' = qstate, q = <<>> => q' = <<>> \/ CanInsert
  PROVE  Life'
BY DEF Life, CanInsert

\* What a step of HwCtrlCmdHandler leaves alone.
LEMMA DrainStep ==
  ASSUME Types, NEW d \in Drainers, Drain(d)
  PROVE  /\ UNCHANGED <<call, qstate, os, world>>
         /\ q = <<>> => q' = <<>>
         /\ pc[d] \in DrainPcs /\ pc'[d] \in DrainPcs \cup {AfterDrain(d)}
         /\ \A e \in Drainers : e # d => pc'[e] = pc[e]
<1>1. PICK p \in DrainPcs \cup {AfterDrain(d)} : Step(d, p)
  BY DEF Drain, Loop, Take, Gate, Ran, Completes, Release, DrainPcs
<1>2. pc[d] \in DrainPcs
  BY DEF Drain, Loop, Take, Gate, Ran, Completes, Release, DrainPcs
<1>3. UNCHANGED <<call, qstate, os, world>> /\ (q = <<>> => q' = <<>>)
  BY DEF Drain, Loop, Take, Gate, Ran, Completes, Release, world
<1> QED
  BY <1>1, <1>2, <1>3, StepPc

LEMMA LifeStep == Types /\ Life /\ [Next]_vars => Life'
<1> SUFFICES ASSUME Types, Life, [Next]_vars PROVE Life'
  OBVIOUS
<1>0. /\ "task" \in Drainers /\ "owner" \in Drainers /\ "owner" # "task"
      /\ \A d \in Drainers : d = "task" \/ d = "owner"
      /\ os \in [task : BOOLEAN, running : BOOLEAN, stop : BOOLEAN]
      /\ pc \in [Drainers -> TaskPcs \cup OwnerPcs]
  BY DEF Drainers, Types
<1>1. ASSUME NEW c \in Cmds, Caller(c) PROVE Life'
  <2>1. UNCHANGED <<pc, qstate>> /\ (q = <<>> => q' = <<>> \/ CanInsert)
    BY <1>1 DEF Caller, Call, Insert, Kick, EndWait, Return
  <2>2. os'.task = os.task
    BY <1>0, <1>1 DEF Caller, Call, Insert, Kick, EndWait, Return, Wake
  <2> QED
    BY <2>1, <2>2, StayStep
<1>2. CASE Drain("task")
  <2>1. pc["task"] \in Alive /\ pc'["task"] \in Alive
    BY <1>0, <1>2, DrainStep DEF Alive, DrainPcs, TaskPcs, AfterDrain
  <2> QED
    BY <1>0, <1>2, <2>1, DrainStep, AliveStep
<1>3. CASE Starts
  <2>1. os.task /\ pc["owner"] \notin {"closed", "attach"} /\ qstate # "running"
    BY <1>3 DEF Starts, Life
  <2>2. /\ UNCHANGED <<q, os>> /\ pc'["owner"] = pc["owner"]
        /\ \/ pc'["task"] = "dead" /\ qstate' = qstate
           \/ pc'["task"] = "wait" /\ qstate' = "running"
    BY <1>0, <1>3 DEF Starts, Step
  <2> QED
    BY <2>1, <2>2 DEF Life
<1>4. CASE WaitEnds \/ ClearRunning \/ TestFlag \/ CopyFlag \/ UpdateBegins
             \/ UpdateEnds
  <2>1. PICK p \in Alive : Step("task", p)
    BY <1>4 DEF WaitEnds, ClearRunning, TestFlag, CopyFlag, UpdateBegins,
                UpdateEnds, Alive, TaskPcs, DrainPcs
  <2>2. pc'["task"] \in Alive /\ pc'["owner"] = pc["owner"]
    BY <1>0, <2>1, StepPc
  <2>3. pc["task"] \in Alive
    BY <1>4 DEF WaitEnds, ClearRunning, TestFlag, CopyFlag, UpdateBegins,
                UpdateEnds, Alive, TaskPcs, DrainPcs
  <2>4. UNCHANGED <<q, qstate>> /\ os'.task = os.task
    BY <1>0, <1>4 DEF WaitEnds, ClearRunning, TestFlag, CopyFlag,
                      UpdateBegins, UpdateEnds, world
  <2> QED
    BY <2>2, <2>3, <2>4, AliveStep
<1>5. CASE Flush
  <2>1. /\ q' = <<>> /\ qstate' = "stoped" /\ pc'["task"] = "dead"
    BY <1>0, <1>5 DEF Flush, Step
  <2> QED
    BY <2>1 DEF Life
<1>6. CASE Drain("owner")
  <2>1. /\ pc'["owner"] \notin {"closed", "attach"} /\ pc'["task"] = pc["task"]
        /\ UNCHANGED <<qstate, os>> /\ (q = <<>> => q' = <<>>)
    BY <1>0, <1>6, DrainStep DEF DrainPcs, AfterDrain
  <2> QED
    BY <2>1, StayStep
<1>7. CASE Open
  <2>1. /\ q' = <<>> /\ qstate' = "inited" /\ pc'["task"] = pc["task"]
        /\ pc["owner"] = "closed"
    BY <1>0, <1>7 DEF Open, Step
  <2> QED
    BY <2>1 DEF Life
<1>8. CASE Attach
  <2>1. pc["task"] \in {"none", "dead"} /\ qstate # "running"
    BY <1>8 DEF Attach, Life
  <2>2. /\ UNCHANGED <<q, qstate>>
        /\ \/ pc'["owner"] = "open" /\ pc'["task"] = "born" /\ os'.task
           \/ pc'["owner"] = "loop" /\ pc'["task"] = "none"
    BY <1>0, <1>8 DEF Attach
  <2> QED
    BY <2>1, <2>2 DEF Life
<1>9. CASE Close \/ Kill
  <2>1. /\ UNCHANGED <<q, qstate>> /\ pc'["task"] = pc["task"]
        /\ pc'["owner"] \in {"closed", "attach"} => ~os.task
    BY <1>0, <1>9 DEF Close, Kill, Step
  <2>2. os'.task = os.task
    BY <1>0, <1>9 DEF Close, Kill
  <2> QED
    BY <2>1, <2>2, StayStep
<1>10. CASE Joined
  <2>1. UNCHANGED <<q, qstate>> /\ pc'["task"] = pc["task"]
        /\ pc["task"] = "dead"
    BY <1>0, <1>10 DEF Joined, Step
  <2> QED
    BY <2>1 DEF Life
<1>11. CASE SetFlag \/ KickFlag \/ Adapter \/ UNCHANGED vars
  <2>1. UNCHANGED <<q, qstate, pc>>
    BY <1>11 DEF SetFlag, KickFlag, Adapter, vars
  <2>2. os'.task = os.task
    BY <1>0, <1>11 DEF SetFlag, KickFlag, Adapter, vars, Wake
  <2> QED
    BY <2>1, <2>2, StayStep
<1> QED
  BY <1>1, <1>2, <1>3, <1>4, <1>5, <1>6, <1>7, <1>8, <1>9, <1>10, <1>11
     DEF Next, Task, Owner

-----------------------------------------------------------------------------
LEMMA CountedStep == Counted /\ Life /\ [Next]_vars => Counted'
<1> SUFFICES ASSUME Counted, Life, [Next]_vars PROVE Counted'
  OBVIOUS
<1>1. ASSUME NEW c \in Cmds, Caller(c) PROVE Counted'
  BY <1>1, CallCounted, InsertCounted, KickCounted, ReturnCounted DEF Caller
<1>2. ASSUME NEW d \in Drainers, Drain(d) PROVE Counted'
  <2>1. CASE Loop(d) \/ (Take(d) /\ q = <<>>)
    BY <2>1, DrainQuiet
  <2>2. CASE Take(d) /\ q # <<>>
    BY <2>2, TakeCounted
  <2>3. CASE Gate(d) \/ Ran(d)
    BY <2>3, SettleCounted
  <2>4. CASE Completes(d)
    BY <2>4, CompletesCounted
  <2>5. CASE Release(d)
    BY <2>5, ReleaseCounted
  <2> QED
    BY <1>2, <2>1, <2>2, <2>3, <2>4, <2>5 DEF Drain
<1>3. CASE Starts \/ WaitEnds \/ ClearRunning \/ TestFlag \/ CopyFlag
             \/ UpdateBegins \/ UpdateEnds
  BY <1>3, TaskQuiet
<1>4. CASE Flush \/ Open
  BY <1>4, FlushCounted, OpenCounted
<1>5. CASE Attach \/ Close \/ Kill \/ Joined
  BY <1>5, OwnerQuiet
<1>6. CASE SetFlag \/ KickFlag \/ Adapter \/ UNCHANGED vars
  BY <1>6, OtherQuiet
<1> QED
  BY <1>1, <1>2, <1>3, <1>4, <1>5, <1>6 DEF Next, Task, Owner, Drainers

LEMMA HwInvariant == Spec => [](Counted /\ Life)
<1>1. Init => Counted /\ Life
  BY CountedInit, LifeInit
<1>2. Counted /\ Life /\ [Next]_vars => Counted' /\ Life'
  BY CountedStep, LifeStep DEF Counted
<1> QED
  BY <1>1, <1>2, PTL DEF Spec

(***************************************************************************)
(* HwCtrlEnqueueCmd, HwCtrlThread, HwCtrlInit and HwCtrlExit keep their    *)
(* variables within their types, the reference count of a command between  *)
(* 0 and 2 included.                                                       *)
(***************************************************************************)
THEOREM HwTypeCorrect == Spec => []TypeOK
<1>1. Counted => TypeOK
  <2> SUFFICES ASSUME Counted PROVE TypeOK
    OBVIOUS
  <2>1. Types /\ \A c \in Cmds : Good(c) /\ cmd[c] \in LooseCmd
    BY DEF Counted, Types
  <2>2. \A c \in Cmds : cmd[c].ref \in 0 .. 2
    BY <2>1 DEF Good, Refs
  <2>3. \A c \in Cmds : cmd[c] \in CmdType
    BY <2>1, <2>2 DEF CmdType, LooseCmd
  <2>4. cmd \in [Cmds -> CmdType]
    BY <2>1, <2>3 DEF Types
  <2> QED
    BY <2>1, <2>4 DEF Types, TypeOK, CmdType, CallType
<1> QED
  BY <1>1, HwInvariant, PTL

(***************************************************************************)
(* Whoever has a hold of a command finds it in memory: the references that *)
(* os_kref_get and os_kref_put count in HwCtrlEnqueueCmd, HwCtrlCmdHandler *)
(* and at the end of HwCtrlThread are those of the call and of the queue,  *)
(* the latter handed on to whoever takes the command from there.           *)
(***************************************************************************)
THEOREM HwHeldIsLive == Spec => []HeldIsLive
<1>1. Counted => HeldIsLive
  <2> SUFFICES ASSUME Counted, NEW c \in Cmds,
                      InCall(c) \/ InQueue(c) \/ InHand(c)
               PROVE  cmd[c].mem = "live"
    BY DEF HeldIsLive
  <2>1. InHand(c) => Early(c) \/ Late(c)
    BY DEF Counted, Places, InHand, Early, Late
  <2> QED
    BY <2>1 DEF Counted, Good, Held
<1> QED
  BY <1>1, HwInvariant, PTL

(***************************************************************************)
(* What nobody has a hold of is freed, except the command whose buffer     *)
(* HwCtrlEnqueueCmd could not allocate, before os_kref_init, and one that  *)
(* HwCtrlInit finds in the queue.                                          *)
(***************************************************************************)
THEOREM HwNoOtherLeak == Spec => []NoOtherLeak
<1>1. Counted => NoOtherLeak
  <2> SUFFICES ASSUME Counted, NEW c \in Cmds, cmd[c].mem = "live",
                      cmd[c].fate \notin {"unborn", "dropped"}
               PROVE  InCall(c) \/ InQueue(c) \/ InHand(c)
    BY DEF NoOtherLeak
  <2>1. Early(c) \/ Late(c) => InHand(c)
    BY DEF InHand, Early, Late
  <2> QED
    BY <2>1 DEF Counted, Good, Held
<1> QED
  BY <1>1, HwInvariant, PTL

(***************************************************************************)
(* A caller of HwCtrlEnqueueCmd that waits and is told SUCCESS has been    *)
(* dealt with; nobody writes its answer buffer later.                      *)
(***************************************************************************)
THEOREM HwSuccessMeansSettled == Spec => []SuccessMeansSettled
<1>1. Counted => SuccessMeansSettled
  BY DEF Counted, Good, SuccessMeansSettled
<1> QED
  BY <1>1, HwInvariant, PTL

(***************************************************************************)
(* When HwCtrlExit has returned and HwCtrlThread has come to its end, the  *)
(* queue is empty and stays so, and nobody has a command in hand.          *)
(***************************************************************************)
THEOREM HwClosedIsEmpty == Spec => []ClosedIsEmpty
<1>1. Counted /\ Life => ClosedIsEmpty
  <2> SUFFICES ASSUME Counted, Life, pc["owner"] = "closed", qstate # "inited"
               PROVE  q = <<>> /\ \A d \in Drainers : hand[d] = NoCmd
    BY DEF ClosedIsEmpty
  <2>1. pc["task"] \in {"none", "dead"} /\ q = <<>>
    BY DEF Life, Counted, Types
  <2>2. \A d \in Drainers : pc[d] \notin EarlyPcs \cup LatePcs
    BY <2>1 DEF Drainers, EarlyPcs, LatePcs
  <2> QED
    BY <2>1, <2>2 DEF Counted, Places
<1> QED
  BY <1>1, HwInvariant, PTL
=============================================================================
