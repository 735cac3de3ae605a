------------------------------- MODULE Mailbox -------------------------------
(***************************************************************************)
(* Mailboxes (kernel/syscall/ipc.c): a ring of MAX_MBOX_LENGTH bytes, with *)
(* a queue of tasks that wait for data and one of tasks that wait for room.*)
(* One byte of the ring stays free: begin = end means empty.               *)
(***************************************************************************)
EXTENDS Waiting

CONSTANTS MBOX_NUM, MAX_MBOX_LENGTH,
          Names, Messages, Lengths      \* what programs open, send and ask for

\* A ring has at least one byte; a message is a sequence of bytes.
ASSUME MailboxAssumption == /\ MAX_MBOX_LENGTH \in Nat \ {0}
                            /\ Messages \subseteq Seq(Nat) /\ Lengths \subseteq Nat

Mailboxes == 1 .. MBOX_NUM
Positions == 0 .. MAX_MBOX_LENGTH - 1
NoName    == "none"

VARIABLES
  apply_times, name, begin, end, data, recv_queue, send_queue,  \* of mailboxes
  mbox_ocp,     \* pcb.mbox_ocp, as a set: it only grows while a process lives
  opened,       \* history: the mailboxes that a program has opened and not closed
  stranded,     \* history: tasks that a close has dropped from a queue
  delivered     \* history: the bytes that the last receive copied out

mboxVars == <<where, call, apply_times, name, begin, end, data, recv_queue,
              send_queue, mbox_ocp, opened, stranded, delivered>>

MailboxInit ==
  /\ where = [t \in Tasks |-> "user"]
  /\ call = [t \in Tasks |-> None]
  /\ apply_times = [b \in Mailboxes |-> 0]
  /\ name = [b \in Mailboxes |-> NoName]
  /\ begin = [b \in Mailboxes |-> 0]
  /\ end = [b \in Mailboxes |-> 0]
  /\ data = [b \in Mailboxes |-> [i \in Positions |-> 0]]
  /\ recv_queue = [b \in Mailboxes |-> <<>>]
  /\ send_queue = [b \in Mailboxes |-> <<>>]
  /\ mbox_ocp = [t \in Tasks |-> {}]
  /\ opened = [t \in Tasks |-> {}]
  /\ stranded = {}
  /\ delivered = <<>>

\* The bytes in the ring, and the room left in it.
Used(b) == IF begin[b] <= end[b] THEN end[b] - begin[b]
           ELSE end[b] - begin[b] + MAX_MBOX_LENGTH
Room(b) == IF begin[b] <= end[b] THEN begin[b] - end[b] - 1 + MAX_MBOX_LENGTH
           ELSE begin[b] - end[b] - 1

-----------------------------------------------------------------------------

\* The mailbox that do_mbox_open finds: the one of that name, or the first unused.
IsBox(b, n) ==
  LET same == {x \in Mailboxes : name[x] = n}
      free == {x \in Mailboxes : apply_times[x] = 0}
      in   == IF same # {} THEN same ELSE free
  IN b \in in /\ \A x \in in : b <= x

\* An unused mailbox gets the name; its ring is taken over as it is.
do_mbox_open(t, n) ==
  /\ InUser(t)
  /\ \E b \in Mailboxes :
       /\ IsBox(b, n) /\ b \notin opened[t]
       /\ name' = [name EXCEPT ![b] = IF apply_times[b] = 0 THEN n ELSE @]
       /\ apply_times' = [apply_times EXCEPT ![b] = @ + 1]
       /\ mbox_ocp' = [mbox_ocp EXCEPT ![t] = @ \cup {b}]
       /\ opened' = [opened EXCEPT ![t] = @ \cup {b}]
  /\ UNCHANGED <<where, call, begin, end, data, recv_queue, send_queue, stranded, delivered>>

\* The ring and the queues are reset only by one close too many, which is what
\* the close of a process becomes after another one has died and so destroyed
\* the mailbox for both.
do_mbox_close(t, b) ==
  /\ InUser(t) /\ b \in opened[t]
  /\ opened' = [opened EXCEPT ![t] = @ \ {b}]
  /\ \/ /\ apply_times[b] > 0
        /\ apply_times' = [apply_times EXCEPT ![b] = @ - 1]
        /\ UNCHANGED <<name, begin, end, data, recv_queue, send_queue, stranded>>
     \/ /\ apply_times[b] = 0
        /\ stranded' = stranded \cup ToSet(recv_queue[b]) \cup ToSet(send_queue[b])
        /\ recv_queue' = [recv_queue EXCEPT ![b] = <<>>]
        /\ send_queue' = [send_queue EXCEPT ![b] = <<>>]
        /\ data' = [data EXCEPT ![b][0] = 0]
        /\ begin' = [begin EXCEPT ![b] = 0]
        /\ end' = [end EXCEPT ![b] = 0]
        /\ name' = [name EXCEPT ![b] = NoName]
        /\ UNCHANGED apply_times
  /\ UNCHANGED <<where, call, mbox_ocp, delivered>>

-----------------------------------------------------------------------------

\* Defect: the second part of a message that wraps is copied to position 1.
data_in_mbox_off(b, msg) ==
  [i \in Positions |->
     LET k == IF i >= end[b] THEN i - end[b] + 1 ELSE i + MAX_MBOX_LENGTH - end[b]
     IN IF k \in 1 .. Len(msg) THEN msg[k] ELSE data[b][i]]

\* The ring after msg is copied in at end, in two parts when it wraps.
data_in_mbox(b, msg) ==
  [i \in Positions |->
     LET k == IF i >= end[b] THEN i - end[b] + 1 ELSE i + MAX_MBOX_LENGTH - end[b] + 1
     IN IF k \in 1 .. Len(msg) THEN msg[k] ELSE data[b][i]]

\* The n bytes from begin, in two parts when they wrap.
data_out_mbox(b, n) ==
  [k \in 1 .. n |->
     LET i == begin[b] + k - 1
     IN data[b][IF i < MAX_MBOX_LENGTH THEN i ELSE i - MAX_MBOX_LENGTH]]

\* A call of f starts, or goes on after do_block; the loop looks again each time.
Calls(t, b, f) == (InUser(t) /\ b \in opened[t]) \/ Resumes(t, f)

do_mbox_send(t, b, msg) ==
  /\ Calls(t, b, <<"send", b, msg>>)
  /\ Len(msg) <= MAX_MBOX_LENGTH
  /\ \/ /\ Len(msg) > Room(b)
        /\ Block(t, <<"send", b, msg>>)
        /\ send_queue' = [send_queue EXCEPT ![b] = Append(@, t)]
        /\ UNCHANGED <<data, end, recv_queue>>
     \/ /\ Len(msg) <= Room(b)
        /\ data' = [data EXCEPT ![b] = data_in_mbox(b, msg)]
        /\ end' = [end EXCEPT ![b] = (@ + Len(msg)) % MAX_MBOX_LENGTH]
        /\ where' = [Unblock(ToSet(recv_queue[b])) EXCEPT ![t] = "user"]
        /\ call' = [call EXCEPT ![t] = None]
        /\ recv_queue' = [recv_queue EXCEPT ![b] = <<>>]
        /\ UNCHANGED send_queue
  /\ UNCHANGED <<apply_times, name, begin, mbox_ocp, opened, stranded, delivered>>

\* Defect: only the first of the senders that wait for room is woken.
do_mbox_recv_one(t, b, n) ==
  /\ Calls(t, b, <<"recv", b, n>>)
  /\ n <= MAX_MBOX_LENGTH
  /\ \/ /\ n > Used(b)
        /\ Block(t, <<"recv", b, n>>)
        /\ recv_queue' = [recv_queue EXCEPT ![b] = Append(@, t)]
        /\ UNCHANGED <<begin, send_queue, delivered>>
     \/ /\ n <= Used(b)
        /\ delivered' = data_out_mbox(b, n)
        /\ begin' = [begin EXCEPT ![b] = (@ + n) % MAX_MBOX_LENGTH]
        /\ where' = [Unblock(First(send_queue[b])) EXCEPT ![t] = "user"]
        /\ call' = [call EXCEPT ![t] = None]
        /\ send_queue' = [send_queue EXCEPT ![b] = Rest(@)]
        /\ UNCHANGED recv_queue
  /\ UNCHANGED <<apply_times, name, data, end, mbox_ocp, opened, stranded>>

do_mbox_recv(t, b, n) ==
  /\ Calls(t, b, <<"recv", b, n>>)
  /\ n <= MAX_MBOX_LENGTH
  /\ \/ /\ n > Used(b)
        /\ Block(t, <<"recv", b, n>>)
        /\ recv_queue' = [recv_queue EXCEPT ![b] = Append(@, t)]
        /\ UNCHANGED <<begin, send_queue, delivered>>
     \/ /\ n <= Used(b)
        /\ delivered' = data_out_mbox(b, n)
        /\ begin' = [begin EXCEPT ![b] = (@ + n) % MAX_MBOX_LENGTH]
        /\ where' = [Unblock(ToSet(send_queue[b])) EXCEPT ![t] = "user"]
        /\ call' = [call EXCEPT ![t] = None]
        /\ send_queue' = [send_queue EXCEPT ![b] = <<>>]
        /\ UNCHANGED recv_queue
  /\ UNCHANGED <<apply_times, name, data, end, mbox_ocp, opened, stranded>>

\* Defect: only the receivers are woken.
DestroyWakes_recv(D) == UNION {ToSet(recv_queue[b]) : b \in D}

\* The tasks that do_mbox_destroy wakes.
DestroyWakes(D) == UNION {ToSet(recv_queue[b]) \cup ToSet(send_queue[b]) : b \in D}

\* pcb_clear of a process that dies: it leaves the queue it waits in, and every
\* mailbox that it ever opened is destroyed (do_mbox_destroy), whoever uses it.
pcb_clear(t) ==
  LET D == mbox_ocp[t]
      zero(f) == [b \in Mailboxes |-> IF b \in D THEN 0 ELSE f[b]]
      left(q) == [b \in Mailboxes |-> IF b \in D THEN <<>> ELSE unlink(q[b], t)]
  IN /\ Alive(t)
     /\ where' = [Unblock(DestroyWakes(D)) EXCEPT ![t] = "dead"]
     /\ call' = [call EXCEPT ![t] = None]
     /\ apply_times' = zero(apply_times) /\ begin' = zero(begin) /\ end' = zero(end)
     /\ name' = [b \in Mailboxes |-> IF b \in D THEN NoName ELSE name[b]]
     /\ data' = [b \in Mailboxes |->
                   IF b \in D THEN [data[b] EXCEPT ![0] = 0] ELSE data[b]]
     /\ recv_queue' = left(recv_queue) /\ send_queue' = left(send_queue)
     /\ mbox_ocp' = [mbox_ocp EXCEPT ![t] = {}]
     /\ opened' = [opened EXCEPT ![t] = {}]
     /\ UNCHANGED <<stranded, delivered>>

\* Every process has died or waits for one that never comes.
Stuck == (\A t \in Tasks : where[t] \in {"blocked", "dead"}) /\ UNCHANGED mboxVars

MailboxNext ==
  \/ \E t \in Tasks :
       \/ \E n \in Names : do_mbox_open(t, n)
       \/ \E b \in Mailboxes :
            \/ do_mbox_close(t, b)
            \/ \E msg \in Messages : do_mbox_send(t, b, msg)
            \/ \E n \in Lengths : do_mbox_recv(t, b, n)
       \/ pcb_clear(t)
  \/ Stuck

MailboxSpec == MailboxInit /\ [][MailboxNext]_mboxVars

-----------------------------------------------------------------------------

\* The ring implements the abstract pipe: whatever the positions of begin and
\* end and however a copy wraps, bytes come out in the order they went in, and
\* messages of several senders never mix.
Ring == [b \in Mailboxes |->
           [k \in 1 .. Used(b) |-> data[b][(begin[b] + k - 1) % MAX_MBOX_LENGTH]]]
Abstract == INSTANCE Pipe WITH Boxes <- Mailboxes, Capacity <- MAX_MBOX_LENGTH - 1,
                               pending <- Ring
PipeHolds == Abstract!PipeSpec

\* Nobody waits for what is there: a task that is still blocked in recv asks for
\* more bytes than the ring holds, and one blocked in send has more than fit,
\* except the tasks that a close has dropped from their queue.
MboxWaitersServed ==
  \A t \in Tasks \ stranded : where[t] = "blocked" =>
    LET b == call[t][2] IN
    IF call[t][1] = "send" THEN Len(call[t][3]) > Room(b) ELSE call[t][3] > Used(b)

\* A waiting task is in exactly one queue, that of its mailbox and direction, and
\* only waiting tasks are: a wake-up reaches everyone, and never a task that died.
MboxWaitersLinked ==
  LET waits(dir) == {t \in Tasks \ stranded : where[t] = "blocked" /\ call[t][1] = dir}
      At(dir, b) == {t \in waits(dir) : call[t][2] = b}
  IN /\ \A t \in Tasks \ stranded : where[t] = "blocked" =>
          t \in waits("send") \cup waits("recv") /\ call[t][2] \in Mailboxes
     /\ \A b \in Mailboxes :
          /\ IsInjective(recv_queue[b]) /\ ToSet(recv_queue[b]) = At("recv", b)
          /\ IsInjective(send_queue[b]) /\ ToSet(send_queue[b]) = At("send", b)
=============================================================================
