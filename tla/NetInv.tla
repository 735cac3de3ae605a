-------------------------------- MODULE NetInv --------------------------------
(***************************************************************************)
(* The inductive invariant behind the properties of module Net: how far    *)
(* the driver and the card are apart in a ring, what the interrupts that   *)
(* are enabled and pending have to do with it, and who waits.              *)
(***************************************************************************)
EXTENDS Net

Causes == {"TXQE", "RXDMT0"}

TxTypeOK ==
  /\ tdh \in TxRing /\ tdt \in TxRing
  /\ tx_dd \in [TxRing -> BOOLEAN] /\ tx_pkt \in [TxRing -> Nat]
  /\ accepted \in Nat /\ wire \in Nat
RxTypeOK ==
  /\ rdh \in RxRing /\ rdt \in RxRing
  /\ rx_dd \in [RxRing -> BOOLEAN] /\ rx_pkt \in [RxRing -> Nat]
  /\ arrived \in Nat /\ polled \in Nat /\ rx_stale \in BOOLEAN
QueueTypeOK ==
  /\ where \in [Tasks -> Wheres]
  /\ call \in [Tasks -> {"none", "send", "recv", "stream"} \X Nat]
  /\ send_queue \in Seq(Tasks) /\ recv_queue \in Seq(Tasks) /\ stream_queue \in Seq(Tasks)

NetTypeOK == TxTypeOK /\ RxTypeOK /\ QueueTypeOK /\ icr \subseteq Causes /\ ims \subseteq Causes

\* The tail is as far behind the head as there are packets that the card has not
\* sent, so head and tail meet when there is none and when the ring is full.
TxPending ==
  /\ wire <= accepted /\ accepted - wire <= TXDESCS
  /\ tdt = (tdh + (accepted - wire)) % TXDESCS

\* No task is in two queues, or twice in one, and the queues have the blocked tasks.
QueuesApart ==
  /\ IsInjective(send_queue) /\ IsInjective(recv_queue) /\ IsInjective(stream_queue)
  /\ \A t \in Tasks :
       /\ ~(Contains(send_queue, t) /\ Contains(recv_queue, t))
       /\ ~(Contains(send_queue, t) /\ Contains(stream_queue, t))
       /\ ~(Contains(recv_queue, t) /\ Contains(stream_queue, t))
       /\ where[t] = "blocked" <=> \/ Contains(send_queue, t)
                                   \/ Contains(recv_queue, t)
                                   \/ Contains(stream_queue, t)

NetInv ==
  /\ NetTypeOK /\ TxPending /\ TxInOrder /\ RxInOrder
  /\ SendersServed /\ RxWaitersServed /\ QueuesApart
=============================================================================
