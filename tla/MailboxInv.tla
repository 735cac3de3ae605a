----------------------------- MODULE MailboxInv -----------------------------
(***************************************************************************)
(* The inductive invariant behind the properties of module Mailbox: the    *)
(* positions of a ring, its two queues and the calls of the tasks, between *)
(* any two system calls.                                                   *)
(***************************************************************************)
EXTENDS Mailbox

SendCalls == {<<"send", b, msg>> : b \in Mailboxes, msg \in Messages}
RecvCalls == {<<"recv", b, n>> : b \in Mailboxes, n \in Lengths}

MboxTypeOK ==
  /\ where \in [Tasks -> Wheres]
  /\ call \in [Tasks -> {None} \cup SendCalls \cup RecvCalls]
  /\ apply_times \in [Mailboxes -> Nat] /\ name \in [Mailboxes -> Names \cup {NoName}]
  /\ begin \in [Mailboxes -> Positions] /\ end \in [Mailboxes -> Positions]
  /\ data \in [Mailboxes -> [Positions -> Nat]]
  /\ recv_queue \in [Mailboxes -> Seq(Tasks)] /\ send_queue \in [Mailboxes -> Seq(Tasks)]
  /\ mbox_ocp \in [Tasks -> SUBSET Mailboxes] /\ opened \in [Tasks -> SUBSET Mailboxes]
  /\ stranded \subseteq Tasks /\ delivered \in Seq(Nat)

\* A blocked task is in a call, and nobody wakes a task that a close has dropped.
WaitingCalls == \A t \in Tasks : where[t] = "blocked" => call[t] # None
StrandedStay == \A t \in stranded : where[t] \in {"blocked", "dead"}

MailboxInv ==
  /\ MboxTypeOK /\ WaitingCalls /\ StrandedStay
  /\ MboxWaitersLinked /\ MboxWaitersServed
=============================================================================
