---------------------------------- MODULE Net ----------------------------------
(***************************************************************************)
(* Sending and receiving packets (kernel/net/net.c) and the card's         *)
(* interrupts.  A call runs under giant_lock with interrupts off, but the  *)
(* card goes on, so each look at a ring is a step of its own.              *)
(***************************************************************************)
EXTENDS Waiting, E1000

CONSTANT PktNums        \* the numbers of packets that programs ask for

ASSUME PktNumsAssumption == PktNums \subseteq Nat

VARIABLES send_queue, recv_queue, stream_queue
        \* send_block_queue, recv_block_queue and recv_stream_block_queue

queueVars == <<where, call, send_queue, recv_queue, stream_queue>>
netVars == <<queueVars, txVars, rxVars, icr, ims>>

NetInit ==
  /\ where = [t \in Tasks |-> "user"]
  /\ call = [t \in Tasks |-> None]
  /\ send_queue = <<>> /\ recv_queue = <<>> /\ stream_queue = <<>>
  /\ e1000_init

\* Nobody is in the kernel: a task may call it, run on in it, die or be interrupted.
KernelFree == \A t \in Tasks : where[t] # "kernel"

-----------------------------------------------------------------------------

do_net_send(t) ==
  /\ KernelFree
  /\ InUser(t) \/ Resumes(t, <<"send", 1>>)
  /\ \/ e1000_transmit(TRUE) /\ Return(t) /\ UNCHANGED <<send_queue, ims>>
     \/ /\ e1000_transmit(FALSE)
        /\ ims' = ims \cup {"TXQE"}
        /\ Block(t, <<"send", 1>>)
        /\ send_queue' = Append(send_queue, t)
  /\ UNCHANGED <<recv_queue, stream_queue, rxVars, icr>>

Enter(t, n) ==
  /\ KernelFree
  /\ InUser(t) \/ Resumes(t, <<"recv", n>>)
  /\ where' = [where EXCEPT ![t] = "kernel"]
  /\ call' = [call EXCEPT ![t] = <<"recv", n>>]
  /\ UNCHANGED <<send_queue, recv_queue, stream_queue, txVars, rxVars, icr, ims>>

\* One turn of the loop of do_net_recv, with n packets to go.
Poll(t, n) ==
  /\ where[t] = "kernel" /\ call[t] = <<"recv", n>>
  /\ \/ /\ e1000_poll(TRUE) /\ n > 1
        /\ call' = [call EXCEPT ![t] = <<"recv", n - 1>>]
        /\ UNCHANGED <<where, recv_queue, ims>>
     \/ /\ e1000_poll(TRUE) /\ n = 1
        /\ ims' = ims \cup {"RXDMT0"}
        /\ Return(t)
        /\ UNCHANGED recv_queue
     \/ /\ e1000_poll(FALSE)
        /\ ims' = ims \cup {"RXDMT0"}
        /\ Block(t, <<"recv", n>>)
        /\ recv_queue' = Append(recv_queue, t)
  /\ UNCHANGED <<send_queue, stream_queue, txVars, icr>>

do_net_recv(t, n) == Enter(t, n) \/ Poll(t, n)

\* What do_net_recv_stream does with the rings; module RecvStream has the rest.
\* It sends responses, and does not look whether the ring has room for them.
send_resp_pkt == \E ok \in BOOLEAN : e1000_transmit(ok)

\* It begins, or was woken: it then asks for what is missing if there is no packet.
EnterStream(t) ==
  /\ KernelFree
  /\ \/ InUser(t) /\ UNCHANGED txVars
     \/ /\ Resumes(t, <<"stream", 0>>)
        /\ IF rx_dd[RxNext] THEN UNCHANGED txVars ELSE send_resp_pkt
  /\ where' = [where EXCEPT ![t] = "kernel"]
  /\ call' = [call EXCEPT ![t] = <<"stream", 0>>]
  /\ UNCHANGED <<send_queue, recv_queue, stream_queue, rxVars, icr, ims>>

\* One turn of its loop: with a packet it goes on, is done or gives up.
PollStream(t) ==
  /\ where[t] = "kernel" /\ call[t] = <<"stream", 0>>
  /\ \/ /\ e1000_poll(TRUE)
        /\ UNCHANGED <<where, call, stream_queue, ims, txVars>>
     \/ /\ e1000_poll(TRUE)
        /\ Return(t)
        /\ \/ send_resp_pkt /\ ims' = ims \cup {"RXDMT0"}
           \/ UNCHANGED <<txVars, ims>>
        /\ UNCHANGED stream_queue
     \/ /\ e1000_poll(FALSE)
        /\ send_resp_pkt \/ UNCHANGED txVars
        /\ ims' = ims \cup {"RXDMT0"}
        /\ Block(t, <<"stream", 0>>)
        /\ stream_queue' = Append(stream_queue, t)
  /\ UNCHANGED <<send_queue, recv_queue, icr>>

do_net_recv_stream(t) == EnterStream(t) \/ PollStream(t)

-----------------------------------------------------------------------------

\* Defect: only the first task of the queue is made ready.
clear_block_queue_one(q) == [woken |-> First(q), left |-> Rest(q)]

clear_block_queue(q) == [woken |-> ToSet(q), left |-> <<>>]

\* Wakes the senders if there are any, and then wants no more of these interrupts.
e1000_handle_txqe(on) ==
  send_queue' = IF on THEN clear_block_queue(send_queue).left ELSE send_queue

\* Those who wait for packets, in either queue.
Receivers == recv_queue \o stream_queue

\* Wakes the receivers; when there are none the packets are dropped.
e1000_handle_rxdmt0(on) ==
  /\ recv_queue' = IF on THEN clear_block_queue(recv_queue).left ELSE recv_queue
  /\ stream_queue' = IF on THEN clear_block_queue(stream_queue).left ELSE stream_queue
  /\ \/ on /\ Receivers = <<>> /\ e1000_clear_recv_pkts
     \/ ~(on /\ Receivers = <<>>) /\ UNCHANGED rxVars

\* Reading the causes clears them, also those that are not enabled; both are
\* handled, and each handler disables its interrupt, the receiver's only when
\* somebody waited.
net_handle_irq ==
  LET tx == "TXQE" \in icr
      rx == "RXDMT0" \in icr
      Woken(on, q) == IF on THEN clear_block_queue(q).woken ELSE {}
      receivers == Woken(rx, recv_queue) \cup Woken(rx, stream_queue)
  IN /\ KernelFree
     /\ icr \cap ims # {}
     /\ icr' = {}
     /\ e1000_handle_txqe(tx) /\ e1000_handle_rxdmt0(rx)
     /\ where' = Unblock(Woken(tx, send_queue) \cup receivers)
     /\ ims' = ims \ ({x \in {"TXQE"} : tx}
                      \cup {x \in {"RXDMT0"} : rx /\ Receivers # <<>>})
     /\ UNCHANGED <<call, txVars>>

\* Defect: the receivers stay in the queue.
check_recv_stream_kept(late) ==
  /\ KernelFree
  /\ late \subseteq ToSet(stream_queue)
  /\ where' = Unblock(late)
  /\ UNCHANGED <<call, send_queue, recv_queue, stream_queue, txVars, rxVars, icr, ims>>

\* A tick of the timer: of the receivers of streams those whose time has come.
check_recv_stream(late) ==
  /\ KernelFree
  /\ late \subseteq ToSet(stream_queue)
  /\ stream_queue' = Leaving(stream_queue, late)
  /\ where' = Unblock(late)
  /\ UNCHANGED <<call, send_queue, recv_queue, txVars, rxVars, icr, ims>>

\* A process is killed, or exits: it is unlinked from where it waits.
die(t) ==
  /\ KernelFree /\ Alive(t)
  /\ where' = [where EXCEPT ![t] = "dead"]
  /\ call' = [call EXCEPT ![t] = None]
  /\ send_queue' = unlink(send_queue, t)
  /\ recv_queue' = unlink(recv_queue, t)
  /\ stream_queue' = unlink(stream_queue, t)
  /\ UNCHANGED <<txVars, rxVars, icr, ims>>

Card == (Transmit \/ Arrive) /\ UNCHANGED queueVars

NetNext ==
  \/ Card \/ net_handle_irq
  \/ \E t \in Tasks : \/ do_net_send(t) \/ do_net_recv_stream(t) \/ die(t)
                     \/ \E n \in PktNums : do_net_recv(t, n)
  \/ \E late \in SUBSET Tasks : check_recv_stream(late)

NetSpec == NetInit /\ [][NetNext]_netVars

-----------------------------------------------------------------------------

\* do_net_send: "wait until the transmit queue is not full".  While a sender waits
\* its interrupt is enabled, and is pending or will be when the card has sent what it
\* has; unless all of the ring is filled, for then the tail is at the head, and the
\* card sends nothing.
SendersServed ==
  send_queue # <<>> =>
    /\ "TXQE" \in ims
    /\ "TXQE" \in icr \/ tdh # tdt \/ accepted - wire = TXDESCS

\* A receiver that waits will be woken: its interrupt is enabled, and is pending or
\* will be when half of the ring is used; unless the tail was moved too far before.
\* It does not matter who else was woken by the interrupt or the timer meanwhile.
RxWaitersServed ==
  Receivers # <<>> =>
    \/ "RXDMT0" \in ims /\ ("RXDMT0" \in icr \/ RxFree > RXDESCS \div 2)
    \/ rx_stale

\* A task is blocked exactly when one of the queues has it, and once: whoever wakes
\* it, a handler or the timer, or kills it, takes it out.
BlockedQueued ==
  LET waiting == send_queue \o recv_queue \o stream_queue
  IN /\ ToSet(waiting) = {t \in Tasks : where[t] = "blocked"}
     /\ IsInjective(waiting)
=============================================================================
