---------------------------- MODULE MlmeMailbox ----------------------------
(***************************************************************************)
(* What the MLME queue of the MT7615 driver promises to its users: a       *)
(* bounded first-in first-out mailbox.  Any thread may post a message, one *)
(* MLME thread takes the oldest message and handles it, and an interface   *)
(* that goes down sweeps the mailbox: it lifts messages one at a time and  *)
(* either throws them away or posts them again at the back.                *)
(*                                                                         *)
(* MlmeQueue implements this specification with a ring of MaxLen slots,    *)
(* three counters and one Occupied bit per slot.                           *)
(***************************************************************************)
EXTENDS Naturals, Sequences

CONSTANTS
  Msgs,       \* the messages the threads may post
  NoMsg,      \* no message in a hand
  Cap         \* how many messages the mailbox holds

VARIABLES
  box,        \* the accepted messages nobody has taken yet, oldest first
  handling,   \* the message the MLME thread is handling
  lifted,     \* the message the sweep of a closing interface holds
  fate        \* what became of each message

vars == <<box, handling, lifted, fate>>

Fates == {"unsent", "sending", "refused", "pending", "handled", "swept",
          "lost"}

Init ==
  /\ box = <<>>
  /\ handling = NoMsg
  /\ lifted = NoMsg
  /\ fate = [m \in Msgs |-> "unsent"]

\* A thread decides to send m, or finds out at once that it cannot.
Offer(m) ==
  /\ fate[m] = "unsent"
  /\ \E f \in {"sending", "refused"} : fate' = [fate EXCEPT ![m] = f]
  /\ UNCHANGED <<box, handling, lifted>>

\* The message of m's sender enters the mailbox, or is turned away.
Post(m) ==
  /\ fate[m] = "sending"
  /\ Len(box) < Cap
  /\ box' = Append(box, m)
  /\ fate' = [fate EXCEPT ![m] = "pending"]
  /\ UNCHANGED <<handling, lifted>>

Refuse(m) ==
  /\ fate[m] = "sending"
  /\ \E f \in {"refused", "lost"} : fate' = [fate EXCEPT ![m] = f]
  /\ UNCHANGED <<box, handling, lifted>>

\* The MLME thread takes the oldest message, and finishes with it.
Take ==
  /\ handling = NoMsg
  /\ box # <<>>
  /\ handling' = Head(box)
  /\ box' = Tail(box)
  /\ UNCHANGED <<lifted, fate>>

Finish ==
  /\ handling # NoMsg
  /\ fate' = [fate EXCEPT ![handling] = "handled"]
  /\ handling' = NoMsg
  /\ UNCHANGED <<box, lifted>>

\* The sweep lifts the oldest message, then throws it away or puts it back.
Lift ==
  /\ lifted = NoMsg
  /\ box # <<>>
  /\ lifted' = Head(box)
  /\ box' = Tail(box)
  /\ UNCHANGED <<handling, fate>>

PutBack ==
  /\ lifted # NoMsg
  /\ Len(box) < Cap
  /\ box' = Append(box, lifted)
  /\ lifted' = NoMsg
  /\ UNCHANGED <<handling, fate>>

ThrowAway ==
  /\ lifted # NoMsg
  /\ \E f \in {"swept", "lost"} : fate' = [fate EXCEPT ![lifted] = f]
  /\ lifted' = NoMsg
  /\ UNCHANGED <<box, handling>>

\* The driver is taken down: whatever the mailbox still holds is lost.
Destroy ==
  /\ handling = NoMsg
  /\ lifted = NoMsg
  /\ box' = <<>>
  /\ fate' = [m \in Msgs |-> IF fate[m] = "pending" THEN "lost" ELSE fate[m]]
  /\ UNCHANGED <<handling, lifted>>

Next ==
  \/ \E m \in Msgs : Offer(m) \/ Post(m) \/ Refuse(m)
  \/ Take \/ Finish
  \/ Lift \/ PutBack \/ ThrowAway
  \/ Destroy

Spec == Init /\ [][Next]_vars
=============================================================================
