---------------------------- MODULE MailboxProof ----------------------------
(***************************************************************************)
(* MailboxInv is an invariant of module Mailbox, and its rings implement   *)
(* the pipes of module Pipe, for any number of tasks and mailboxes and any *)
(* length of the rings.                                                    *)
(***************************************************************************)
EXTENDS MailboxInv, ListLemmas

(* Positions in a ring.                                                     *)

LEMMA Modulo ==
  \A x \in Nat : x < MAX_MBOX_LENGTH + MAX_MBOX_LENGTH =>
    (x % MAX_MBOX_LENGTH) = IF x < MAX_MBOX_LENGTH THEN x ELSE x - MAX_MBOX_LENGTH
BY RingIndex, MailboxAssumption, Zenon

\* The number of bytes from position x up to position y.
UsedOf(x, y) == IF x <= y THEN y - x ELSE y - x + MAX_MBOX_LENGTH

LEMMA UsedBounds ==
  ASSUME NEW x \in Positions, NEW y \in Positions
  PROVE  /\ UsedOf(x, y) \in Nat /\ UsedOf(x, y) <= MAX_MBOX_LENGTH - 1
         /\ UsedOf(x, x) = 0
BY MailboxAssumption DEF UsedOf, Positions

\* n bytes go in at y, or out at x.
LEMMA PutIn ==
  ASSUME NEW x \in Positions, NEW y \in Positions, NEW n \in Nat,
         UsedOf(x, y) + n <= MAX_MBOX_LENGTH - 1
  PROVE  /\ ((y + n) % MAX_MBOX_LENGTH) \in Positions
         /\ UsedOf(x, (y + n) % MAX_MBOX_LENGTH) = UsedOf(x, y) + n
<1>1. /\ MAX_MBOX_LENGTH \in Nat \ {0} /\ x \in Nat /\ y \in Nat
      /\ x < MAX_MBOX_LENGTH /\ y < MAX_MBOX_LENGTH
  BY MailboxAssumption DEF Positions
<1>2. y + n \in Nat /\ y + n < MAX_MBOX_LENGTH + MAX_MBOX_LENGTH
  BY <1>1 DEF UsedOf
<1>. DEFINE z == (y + n) % MAX_MBOX_LENGTH
<1>3. z = IF y + n < MAX_MBOX_LENGTH THEN y + n ELSE y + n - MAX_MBOX_LENGTH
  BY <1>1, <1>2, Modulo
<1>. HIDE DEF z
<1>4. z \in Positions
  BY <1>1, <1>2, <1>3 DEF Positions
<1>5. UsedOf(x, z) = UsedOf(x, y) + n
  BY <1>1, <1>2, <1>3 DEF UsedOf
<1>. QED
  BY <1>4, <1>5 DEF z

LEMMA TakeOut ==
  ASSUME NEW x \in Positions, NEW y \in Positions, NEW n \in Nat, n <= UsedOf(x, y)
  PROVE  /\ ((x + n) % MAX_MBOX_LENGTH) \in Positions
         /\ UsedOf((x + n) % MAX_MBOX_LENGTH, y) = UsedOf(x, y) - n
<1>1. /\ MAX_MBOX_LENGTH \in Nat \ {0} /\ x \in Nat /\ y \in Nat
      /\ x < MAX_MBOX_LENGTH /\ y < MAX_MBOX_LENGTH
  BY MailboxAssumption DEF Positions
<1>2. x + n \in Nat /\ x + n < MAX_MBOX_LENGTH + MAX_MBOX_LENGTH
  BY <1>1 DEF UsedOf
<1>. DEFINE z == (x + n) % MAX_MBOX_LENGTH
<1>3. z = IF x + n < MAX_MBOX_LENGTH THEN x + n ELSE x + n - MAX_MBOX_LENGTH
  BY <1>1, <1>2, Modulo
<1>. HIDE DEF z
<1>4. z \in Positions
  BY <1>1, <1>2, <1>3 DEF Positions
<1>5. UsedOf(z, y) = UsedOf(x, y) - n
  BY <1>1, <1>2, <1>3 DEF UsedOf
<1>. QED
  BY <1>4, <1>5 DEF z

\* What a ring holds and what still fits in make MAX_MBOX_LENGTH - 1 bytes.
LEMMA RoomIsLeft ==
  MboxTypeOK => \A b \in Mailboxes :
    /\ Used(b) = UsedOf(begin[b], end[b])
    /\ Used(b) \in Nat /\ Used(b) <= MAX_MBOX_LENGTH - 1
    /\ Room(b) = MAX_MBOX_LENGTH - 1 - Used(b)
<1>. SUFFICES ASSUME MboxTypeOK, NEW b \in Mailboxes
     PROVE  /\ Used(b) = UsedOf(begin[b], end[b])
            /\ Used(b) \in Nat /\ Used(b) <= MAX_MBOX_LENGTH - 1
            /\ Room(b) = MAX_MBOX_LENGTH - 1 - Used(b)
  OBVIOUS
<1>1. begin[b] \in Positions /\ end[b] \in Positions /\ MAX_MBOX_LENGTH \in Nat \ {0}
  BY MailboxAssumption DEF MboxTypeOK
<1>2. Used(b) = UsedOf(begin[b], end[b])
  BY DEF Used, UsedOf
<1>3. Used(b) \in Nat /\ Used(b) <= MAX_MBOX_LENGTH - 1
  BY <1>1, <1>2, UsedBounds
<1>4. Room(b) = MAX_MBOX_LENGTH - 1 - Used(b)
  BY <1>1 DEF Room, Used, Positions
<1>. QED
  BY <1>2, <1>3, <1>4

LEMMA RoomIsLeftNext ==
  MboxTypeOK' => \A b \in Mailboxes :
    /\ Used(b)' = UsedOf(begin'[b], end'[b])
    /\ Used(b)' \in Nat /\ Used(b)' <= MAX_MBOX_LENGTH - 1
    /\ Room(b)' = MAX_MBOX_LENGTH - 1 - Used(b)'
<1>1. (MboxTypeOK => \A b \in Mailboxes :
         /\ Used(b) = UsedOf(begin[b], end[b])
         /\ Used(b) \in Nat /\ Used(b) <= MAX_MBOX_LENGTH - 1
         /\ Room(b) = MAX_MBOX_LENGTH - 1 - Used(b))'
  BY RoomIsLeft, PTL
<1>. QED
  BY <1>1 DEF UsedOf

-----------------------------------------------------------------------------
(* The queues.                                                              *)

\* Task u waits for mailbox b in direction d, when w and c are where the tasks are and
\* their calls, and r the stranded tasks.
WaitsFor(u, d, b, w, c, r) == u \notin r /\ w[u] = "blocked" /\ c[u][1] = d /\ c[u][2] = b

LinkedAs(q, d, b, w, c, r) ==
  /\ q \in Seq(Tasks) /\ IsInjective(q)
  /\ \A u \in Tasks : Contains(q, u) <=> WaitsFor(u, d, b, w, c, r)

QueuesLinked(rq, sq, w, c, r) ==
  \A b \in Mailboxes : /\ LinkedAs(rq[b], "recv", b, w, c, r)
                       /\ LinkedAs(sq[b], "send", b, w, c, r)

LEMMA CallKinds ==
  MboxTypeOK => \A u \in Tasks :
    \/ call[u] = None
    \/ \E b \in Mailboxes, msg \in Messages : call[u] = <<"send", b, msg>>
    \/ \E b \in Mailboxes, n \in Lengths : call[u] = <<"recv", b, n>>
BY DEF MboxTypeOK, SendCalls, RecvCalls

LEMMA LinkedParts ==
  MboxTypeOK /\ WaitingCalls =>
    (MboxWaitersLinked <=> QueuesLinked(recv_queue, send_queue, where, call, stranded))
<1>. SUFFICES ASSUME MboxTypeOK, WaitingCalls
     PROVE  MboxWaitersLinked
              <=> QueuesLinked(recv_queue, send_queue, where, call, stranded)
  OBVIOUS
<1>. DEFINE waits(dir) == {t \in Tasks \ stranded : where[t] = "blocked" /\ call[t][1] = dir}
            At(dir, b) == {t \in waits(dir) : call[t][2] = b}
            Good(q, dir, b) == IsInjective(q) /\ ToSet(q) = At(dir, b)
<1>1. \A t \in Tasks \ stranded : where[t] = "blocked" =>
         t \in waits("send") \cup waits("recv") /\ call[t][2] \in Mailboxes
  BY CallKinds DEF WaitingCalls
<1>2. MboxWaitersLinked <=>
        \A b \in Mailboxes : Good(recv_queue[b], "recv", b) /\ Good(send_queue[b], "send", b)
  BY <1>1 DEF MboxWaitersLinked
<1>3. ASSUME NEW q \in Seq(Tasks), NEW dir, NEW b
      PROVE  LinkedAs(q, dir, b, where, call, stranded) <=> Good(q, dir, b)
  <2>1. ToSet(q) \subseteq Tasks /\ \A x : x \in ToSet(q) <=> Contains(q, x)
    BY SetOfElements
  <2>2. ToSet(q) = At(dir, b)
          <=> \A u \in Tasks : Contains(q, u) <=> WaitsFor(u, dir, b, where, call, stranded)
    BY <2>1 DEF WaitsFor
  <2>. QED
    BY <2>2 DEF LinkedAs
<1>4. \A b \in Mailboxes : recv_queue[b] \in Seq(Tasks) /\ send_queue[b] \in Seq(Tasks)
  BY DEF MboxTypeOK
<1>. HIDE DEF Good
<1>. QED
  BY <1>2, <1>3, <1>4 DEF QueuesLinked

LEMMA LinkedPartsNext ==
  MboxTypeOK' /\ WaitingCalls' =>
    (MboxWaitersLinked' <=> QueuesLinked(recv_queue', send_queue', where', call', stranded'))
<1>1. (MboxTypeOK /\ WaitingCalls =>
        (MboxWaitersLinked <=> QueuesLinked(recv_queue, send_queue, where, call, stranded)))'
  BY LinkedParts, PTL
<1>. QED
  BY <1>1 DEF QueuesLinked, LinkedAs, WaitsFor

\* The queue of one mailbox and direction after a step.
LEMMA LinkedSame ==
  ASSUME NEW q, NEW d, NEW b, LinkedAs(q, d, b, where, call, stranded),
         \A u \in Tasks : WaitsFor(u, d, b, where', call', stranded')
                            <=> WaitsFor(u, d, b, where, call, stranded)
  PROVE  LinkedAs(q, d, b, where', call', stranded')
BY DEF LinkedAs

LEMMA LinkedJoined ==
  ASSUME NEW q, NEW d, NEW b, NEW t \in Tasks, LinkedAs(q, d, b, where, call, stranded),
         ~WaitsFor(t, d, b, where, call, stranded),
         \A u \in Tasks : WaitsFor(u, d, b, where', call', stranded')
                            <=> u = t \/ WaitsFor(u, d, b, where, call, stranded)
  PROVE  LinkedAs(Append(q, t), d, b, where', call', stranded')
<1>1. /\ q \in Seq(Tasks) /\ IsInjective(q) /\ ~Contains(q, t)
      /\ \A u \in Tasks : Contains(q, u) <=> WaitsFor(u, d, b, where, call, stranded)
  BY DEF LinkedAs
<1>2. /\ Append(q, t) \in Seq(Tasks) /\ IsInjective(Append(q, t))
      /\ \A x : Contains(Append(q, t), x) <=> Contains(q, x) \/ x = t
  BY <1>1, AppendElements
<1>. QED
  BY <1>1, <1>2 DEF LinkedAs

LEMMA LinkedLeft ==
  ASSUME NEW q, NEW d, NEW b, NEW t \in Tasks, LinkedAs(q, d, b, where, call, stranded),
         \A u \in Tasks : WaitsFor(u, d, b, where', call', stranded')
                            <=> u # t /\ WaitsFor(u, d, b, where, call, stranded)
  PROVE  LinkedAs(unlink(q, t), d, b, where', call', stranded')
<1>1. /\ q \in Seq(Tasks) /\ IsInjective(q)
      /\ \A u \in Tasks : Contains(q, u) <=> WaitsFor(u, d, b, where, call, stranded)
  BY DEF LinkedAs
<1>2. /\ unlink(q, t) \in Seq(Tasks) /\ IsInjective(unlink(q, t))
      /\ \A x : Contains(unlink(q, t), x) => Contains(q, x)
      /\ \A x : Contains(q, x) /\ x # t => Contains(unlink(q, t), x)
      /\ ~Contains(unlink(q, t), t)
  BY <1>1, UnlinkElements, UnlinkInjective
<1>. QED
  BY <1>1, <1>2 DEF LinkedAs

LEMMA LinkedEmpty ==
  ASSUME NEW d, NEW b, \A u \in Tasks : ~WaitsFor(u, d, b, where', call', stranded')
  PROVE  LinkedAs(<<>>, d, b, where', call', stranded')
<1>1. /\ <<>> \in Seq(Tasks) /\ IsInjective(<<>>)
      /\ \A u : ~Contains(<<>>, u)
  BY DEF IsInjective, Contains
<1>. QED
  BY <1>1 DEF LinkedAs

LEMMA LinkedSet ==
  ASSUME NEW q, NEW d, NEW b, LinkedAs(q, d, b, where, call, stranded)
  PROVE  /\ ToSet(q) \subseteq Tasks
         /\ \A u \in Tasks : u \in ToSet(q) <=> WaitsFor(u, d, b, where, call, stranded)
BY SetOfElements DEF LinkedAs

-----------------------------------------------------------------------------
(* The steps.                                                               *)

\* Call f asks for more than there is.
Short(f) == IF f[1] = "send" THEN Len(f[3]) > Room(f[2]) ELSE f[3] > Used(f[2])

LEMMA ServedMeans ==
  MboxWaitersServed <=> \A u \in Tasks \ stranded : where[u] = "blocked" => Short(call[u])
BY DEF MboxWaitersServed, Short

LEMMA ServedMeansNext ==
  MboxWaitersServed' <=> \A u \in Tasks \ stranded' : where'[u] = "blocked" => Short(call[u])'
<1>1. (MboxWaitersServed
         <=> \A u \in Tasks \ stranded : where[u] = "blocked" => Short(call[u]))'
  BY ServedMeans, PTL
<1>. QED
  BY <1>1 DEF Short, Room, Used

\* The rings that a step leaves alone.
LEMMA RingSame ==
  ASSUME NEW b, begin'[b] = begin[b], end'[b] = end[b]
  PROVE  Used(b)' = Used(b) /\ Room(b)' = Room(b)
BY DEF Used, Room

LEMMA Parts ==
  MailboxInv => /\ MboxTypeOK /\ WaitingCalls /\ StrandedStay
                /\ QueuesLinked(recv_queue, send_queue, where, call, stranded)
                /\ \A u \in Tasks \ stranded : where[u] = "blocked" => Short(call[u])
BY LinkedParts, ServedMeans DEF MailboxInv

LEMMA Assembled ==
  ASSUME MboxTypeOK', WaitingCalls', StrandedStay',
         QueuesLinked(recv_queue', send_queue', where', call', stranded'),
         \A u \in Tasks \ stranded' : where'[u] = "blocked" => Short(call[u])'
  PROVE  MailboxInv'
<1>1. MboxWaitersLinked'
  BY LinkedPartsNext
<1>2. MboxWaitersServed'
  BY ServedMeansNext
<1>. QED
  BY <1>1, <1>2 DEF MailboxInv

\* The types that the copies into and out of a ring have.
LEMMA CopyTypes ==
  ASSUME MboxTypeOK, NEW b \in Mailboxes
  PROVE  /\ \A msg \in Messages : data_in_mbox(b, msg) \in [Positions -> Nat]
         /\ \A n \in Nat : n <= Used(b) => data_out_mbox(b, n) \in Seq(Nat)
<1>1. /\ data[b] \in [Positions -> Nat] /\ begin[b] \in Positions /\ end[b] \in Positions
      /\ MAX_MBOX_LENGTH \in Nat \ {0}
  BY MailboxAssumption DEF MboxTypeOK
<1>2. ASSUME NEW msg \in Messages PROVE data_in_mbox(b, msg) \in [Positions -> Nat]
  <2>1. msg \in Seq(Nat)
    BY MailboxAssumption
  <2>2. \A k \in 1 .. Len(msg) : msg[k] \in Nat
    BY <2>1
  <2>. QED
    BY <1>1, <2>2 DEF data_in_mbox
<1>3. ASSUME NEW n \in Nat, n <= Used(b) PROVE data_out_mbox(b, n) \in Seq(Nat)
  <2>1. n <= MAX_MBOX_LENGTH - 1
    BY <1>1, <1>3, RoomIsLeft
  <2>2. data_out_mbox(b, n) \in [1 .. n -> Nat]
    BY <1>1, <2>1 DEF data_out_mbox, Positions
  <2>. QED
    BY <2>2, SeqDef
<1>. QED
  BY <1>2, <1>3

LEMMA Opens ==
  ASSUME MailboxInv, NEW t \in Tasks, NEW n \in Names, do_mbox_open(t, n)
  PROVE  MailboxInv'
<1>1. /\ MboxTypeOK /\ WaitingCalls /\ StrandedStay
      /\ QueuesLinked(recv_queue, send_queue, where, call, stranded)
      /\ \A u \in Tasks \ stranded : where[u] = "blocked" => Short(call[u])
  BY Parts
<1>2. PICK b \in Mailboxes :
        /\ name' = [name EXCEPT ![b] = IF apply_times[b] = 0 THEN n ELSE @]
        /\ apply_times' = [apply_times EXCEPT ![b] = @ + 1]
        /\ mbox_ocp' = [mbox_ocp EXCEPT ![t] = @ \cup {b}]
        /\ opened' = [opened EXCEPT ![t] = @ \cup {b}]
  BY DEF do_mbox_open
<1>3. UNCHANGED <<where, call, begin, end, data, recv_queue, send_queue, stranded, delivered>>
  BY DEF do_mbox_open
<1>4. MboxTypeOK'
  BY <1>1, <1>2, <1>3 DEF MboxTypeOK
<1>5. WaitingCalls' /\ StrandedStay'
  BY <1>1, <1>3 DEF WaitingCalls, StrandedStay
<1>6. QueuesLinked(recv_queue', send_queue', where', call', stranded')
  BY <1>1, <1>3
<1>7. \A u \in Tasks \ stranded' : where'[u] = "blocked" => Short(call[u])'
  BY <1>1, <1>3 DEF Short, Room, Used
<1>. QED
  BY <1>4, <1>5, <1>6, <1>7, Assembled

\* A close that resets the ring strands who waits for it.
LEMMA Closes ==
  ASSUME MailboxInv, NEW t \in Tasks, NEW b \in Mailboxes, do_mbox_close(t, b)
  PROVE  MailboxInv'
<1>1. /\ MboxTypeOK /\ WaitingCalls /\ StrandedStay
      /\ QueuesLinked(recv_queue, send_queue, where, call, stranded)
      /\ \A u \in Tasks \ stranded : where[u] = "blocked" => Short(call[u])
  BY Parts
<1>2. /\ opened' = [opened EXCEPT ![t] = @ \ {b}]
      /\ UNCHANGED <<where, call, mbox_ocp, delivered>>
  BY DEF do_mbox_close
<1>3. CASE /\ apply_times[b] > 0
           /\ apply_times' = [apply_times EXCEPT ![b] = @ - 1]
           /\ UNCHANGED <<name, begin, end, data, recv_queue, send_queue, stranded>>
  <2>1. MboxTypeOK'
    BY <1>1, <1>2, <1>3 DEF MboxTypeOK
  <2>2. WaitingCalls' /\ StrandedStay'
    BY <1>1, <1>2, <1>3 DEF WaitingCalls, StrandedStay
  <2>3. QueuesLinked(recv_queue', send_queue', where', call', stranded')
    BY <1>1, <1>2, <1>3
  <2>4. \A u \in Tasks \ stranded' : where'[u] = "blocked" => Short(call[u])'
    BY <1>1, <1>2, <1>3 DEF Short, Room, Used
  <2>. QED
    BY <2>1, <2>2, <2>3, <2>4, Assembled
<1>4. CASE /\ stranded' = stranded \cup ToSet(recv_queue[b]) \cup ToSet(send_queue[b])
           /\ recv_queue' = [recv_queue EXCEPT ![b] = <<>>]
           /\ send_queue' = [send_queue EXCEPT ![b] = <<>>]
           /\ data' = [data EXCEPT ![b][0] = 0]
           /\ begin' = [begin EXCEPT ![b] = 0]
           /\ end' = [end EXCEPT ![b] = 0]
           /\ name' = [name EXCEPT ![b] = NoName]
           /\ UNCHANGED apply_times
  <2>1. /\ ToSet(recv_queue[b]) \subseteq Tasks /\ ToSet(send_queue[b]) \subseteq Tasks
        /\ \A u \in Tasks : /\ u \in ToSet(recv_queue[b])
                                 <=> WaitsFor(u, "recv", b, where, call, stranded)
                            /\ u \in ToSet(send_queue[b])
                                 <=> WaitsFor(u, "send", b, where, call, stranded)
    BY <1>1, LinkedSet DEF QueuesLinked
  <2>2. MboxTypeOK'
    <3>1. 0 \in Positions /\ <<>> \in Seq(Tasks)
      BY MailboxAssumption DEF Positions
    <3>2. data' \in [Mailboxes -> [Positions -> Nat]]
      BY <1>1, <1>4, <3>1 DEF MboxTypeOK
    <3>3. stranded' \subseteq Tasks
      BY <1>1, <1>4, <2>1 DEF MboxTypeOK
    <3>. QED
      BY <1>1, <1>2, <1>4, <3>1, <3>2, <3>3 DEF MboxTypeOK
  <2>3. WaitingCalls' /\ StrandedStay'
    <3>1. \A u \in stranded' : u \in stranded \/ where[u] = "blocked"
      BY <1>4, <2>1 DEF WaitsFor
    <3>. QED
      BY <1>1, <1>2, <3>1 DEF WaitingCalls, StrandedStay
  <2>4. \A u \in Tasks : u \in stranded'
          <=> \/ u \in stranded
              \/ WaitsFor(u, "recv", b, where, call, stranded)
              \/ WaitsFor(u, "send", b, where, call, stranded)
    BY <1>4, <2>1
  <2>5. ASSUME NEW x \in Mailboxes, NEW d \in {"recv", "send"}, NEW u \in Tasks
        PROVE  WaitsFor(u, d, x, where', call', stranded')
                 <=> x # b /\ WaitsFor(u, d, x, where, call, stranded)
    BY <1>2, <2>4 DEF WaitsFor
  <2>6. ASSUME NEW x \in Mailboxes
        PROVE  /\ LinkedAs(recv_queue'[x], "recv", x, where', call', stranded')
               /\ LinkedAs(send_queue'[x], "send", x, where', call', stranded')
    <3>1. CASE x = b
      <4>1. recv_queue'[x] = <<>> /\ send_queue'[x] = <<>>
        BY <1>1, <1>4, <3>1 DEF MboxTypeOK
      <4>. QED
        BY <2>5, <3>1, <4>1, LinkedEmpty
    <3>2. CASE x # b
      <4>1. recv_queue'[x] = recv_queue[x] /\ send_queue'[x] = send_queue[x]
        BY <1>1, <1>4, <3>2 DEF MboxTypeOK
      <4>2. /\ LinkedAs(recv_queue[x], "recv", x, where, call, stranded)
            /\ LinkedAs(send_queue[x], "send", x, where, call, stranded)
        BY <1>1 DEF QueuesLinked
      <4>. QED
        BY <2>5, <3>2, <4>1, <4>2, LinkedSame
    <3>. QED
      BY <3>1, <3>2
  <2>7. QueuesLinked(recv_queue', send_queue', where', call', stranded')
    BY <2>6 DEF QueuesLinked
  <2>8. ASSUME NEW u \in Tasks \ stranded', where'[u] = "blocked"
        PROVE  Short(call[u])'
    <3>1. u \notin stranded /\ where[u] = "blocked" /\ call'[u] = call[u] /\ Short(call[u])
      BY <1>1, <1>2, <2>4, <2>8
    <3>2. call[u][2] \in Mailboxes /\ call[u][1] \in {"recv", "send"}
      BY <1>1, <3>1, CallKinds DEF WaitingCalls
    <3>3. call[u][2] # b
      BY <2>4, <2>8, <3>1, <3>2 DEF WaitsFor
    <3>4. begin'[call[u][2]] = begin[call[u][2]] /\ end'[call[u][2]] = end[call[u][2]]
      BY <1>1, <1>4, <3>2, <3>3 DEF MboxTypeOK
    <3>. QED
      BY <3>1, <3>4 DEF Short, Room, Used
  <2>. QED
    BY <2>2, <2>3, <2>7, <2>8, Assembled
<1>. QED
  BY <1>3, <1>4 DEF do_mbox_close

\* A call of a task that is not blocked, nor out of reach.
LEMMA Caller ==
  ASSUME MailboxInv, NEW t \in Tasks, NEW b, NEW f, Calls(t, b, f)
  PROVE  where[t] \in {"user", "woken"} /\ t \notin stranded
BY Parts DEF Calls, InUser, Resumes, StrandedStay

\* do_block of a task in the queue of mailbox b.
LEMMA BlockedPlaces ==
  ASSUME MailboxInv, NEW t \in Tasks, where[t] \in {"user", "woken"}, t \notin stranded,
         NEW f \in SendCalls \cup RecvCalls, Block(t, f), UNCHANGED stranded
  PROVE  /\ where' \in [Tasks -> Wheres]
         /\ call' \in [Tasks -> {None} \cup SendCalls \cup RecvCalls]
         /\ WaitingCalls' /\ StrandedStay'
         /\ \A u \in Tasks : /\ where'[u] = IF u = t THEN "blocked" ELSE where[u]
                             /\ call'[u] = IF u = t THEN f ELSE call[u]
<1>1. MboxTypeOK /\ WaitingCalls /\ StrandedStay
  BY Parts
<1>2. \A u \in Tasks : /\ where'[u] = IF u = t THEN "blocked" ELSE where[u]
                       /\ call'[u] = IF u = t THEN f ELSE call[u]
  BY <1>1 DEF MboxTypeOK, Block
<1>3. /\ where' \in [Tasks -> Wheres]
      /\ call' \in [Tasks -> {None} \cup SendCalls \cup RecvCalls]
  BY <1>1 DEF MboxTypeOK, Block, Wheres
<1>4. f # None
  BY DEF SendCalls, RecvCalls, None
<1>. QED
  BY <1>1, <1>2, <1>3, <1>4 DEF WaitingCalls, StrandedStay, MboxTypeOK

\* The tasks of W are unblocked, and t goes to place p outside its call.
LEMMA MovedPlaces ==
  ASSUME MailboxInv, NEW t \in Tasks, NEW p \in {"user", "dead"},
         t \in stranded => p = "dead",
         NEW W, \A u \in W : u \in Tasks \ stranded /\ where[u] = "blocked",
         where' = [Unblock(W) EXCEPT ![t] = p], call' = [call EXCEPT ![t] = None],
         UNCHANGED stranded
  PROVE  /\ where' \in [Tasks -> Wheres]
         /\ call' \in [Tasks -> {None} \cup SendCalls \cup RecvCalls]
         /\ WaitingCalls' /\ StrandedStay'
         /\ \A u \in Tasks :
              /\ where'[u] = IF u = t THEN p ELSE IF u \in W THEN "woken" ELSE where[u]
              /\ call'[u] = IF u = t THEN None ELSE call[u]
<1>1. MboxTypeOK /\ WaitingCalls /\ StrandedStay
  BY Parts
<1>2. \A u \in Tasks :
        /\ where'[u] = IF u = t THEN p ELSE IF u \in W THEN "woken" ELSE where[u]
        /\ call'[u] = IF u = t THEN None ELSE call[u]
  BY <1>1 DEF MboxTypeOK, Unblock
<1>3. /\ where' \in [Tasks -> Wheres]
      /\ call' \in [Tasks -> {None} \cup SendCalls \cup RecvCalls]
  BY <1>1 DEF MboxTypeOK, Unblock, Wheres
<1>4. WaitingCalls'
  BY <1>1, <1>2 DEF WaitingCalls
<1>5. StrandedStay'
  <2>1. \A u \in stranded : u \in Tasks /\ where[u] \in {"blocked", "dead"}
    BY <1>1 DEF StrandedStay, MboxTypeOK
  <2>. QED
    BY <1>2, <2>1 DEF StrandedStay
<1>. QED
  BY <1>2, <1>3, <1>4, <1>5

LEMMA SendBlocks ==
  ASSUME MailboxInv, NEW t \in Tasks, NEW b \in Mailboxes, NEW msg \in Messages,
         Calls(t, b, <<"send", b, msg>>), Len(msg) > Room(b), Block(t, <<"send", b, msg>>),
         send_queue' = [send_queue EXCEPT ![b] = Append(@, t)],
         UNCHANGED <<data, end, recv_queue, apply_times, name, begin, mbox_ocp, opened,
                     stranded, delivered>>
  PROVE  MailboxInv'
<1>. DEFINE f == <<"send", b, msg>>
<1>1. /\ MboxTypeOK /\ QueuesLinked(recv_queue, send_queue, where, call, stranded)
      /\ \A u \in Tasks \ stranded : where[u] = "blocked" => Short(call[u])
  BY Parts
<1>2. where[t] \in {"user", "woken"} /\ t \notin stranded
  BY Caller
<1>3. f \in SendCalls
  BY DEF SendCalls
<1>4. /\ where' \in [Tasks -> Wheres]
      /\ call' \in [Tasks -> {None} \cup SendCalls \cup RecvCalls]
      /\ WaitingCalls' /\ StrandedStay'
      /\ \A u \in Tasks : /\ where'[u] = IF u = t THEN "blocked" ELSE where[u]
                          /\ call'[u] = IF u = t THEN f ELSE call[u]
  BY <1>2, <1>3, BlockedPlaces
<1>5. MboxTypeOK'
  <2>1. Append(send_queue[b], t) \in Seq(Tasks)
    BY <1>1 DEF MboxTypeOK
  <2>. QED
    BY <1>1, <1>4, <2>1 DEF MboxTypeOK
<1>6. \A x, d : \A u \in Tasks :
        WaitsFor(u, d, x, where', call', stranded')
          <=> IF u = t THEN d = "send" /\ x = b ELSE WaitsFor(u, d, x, where, call, stranded)
  BY <1>2, <1>4 DEF WaitsFor
<1>7. \A x, d : ~WaitsFor(t, d, x, where, call, stranded)
  BY <1>2 DEF WaitsFor
<1>8. ASSUME NEW x \in Mailboxes
      PROVE  /\ LinkedAs(recv_queue'[x], "recv", x, where', call', stranded')
             /\ LinkedAs(send_queue'[x], "send", x, where', call', stranded')
  <2>1. /\ LinkedAs(recv_queue[x], "recv", x, where, call, stranded)
        /\ LinkedAs(send_queue[x], "send", x, where, call, stranded)
    BY <1>1 DEF QueuesLinked
  <2>2. LinkedAs(recv_queue[x], "recv", x, where', call', stranded')
    BY <1>6, <1>7, <2>1, LinkedSame
  <2>3. CASE x = b
    <3>1. send_queue'[x] = Append(send_queue[x], t)
      BY <1>1, <2>3 DEF MboxTypeOK
    <3>2. LinkedAs(Append(send_queue[x], t), "send", x, where', call', stranded')
      BY <1>6, <1>7, <2>1, <2>3, LinkedJoined
    <3>. QED
      BY <2>2, <3>1, <3>2
  <2>4. CASE x # b
    <3>1. send_queue'[x] = send_queue[x]
      BY <1>1, <2>4 DEF MboxTypeOK
    <3>2. LinkedAs(send_queue[x], "send", x, where', call', stranded')
      BY <1>6, <1>7, <2>1, <2>4, LinkedSame
    <3>. QED
      BY <2>2, <3>1, <3>2
  <2>. QED
    BY <2>3, <2>4
<1>9. QueuesLinked(recv_queue', send_queue', where', call', stranded')
  BY <1>8 DEF QueuesLinked
<1>10. \A u \in Tasks \ stranded' : where'[u] = "blocked" => Short(call[u])'
  <2>1. Short(f)
    BY DEF Short
  <2>. HIDE DEF f
  <2>2. ASSUME NEW u \in Tasks \ stranded', where'[u] = "blocked"
        PROVE  Short(call[u])'
    <3>1. Short(call'[u])
      BY <1>1, <1>4, <2>1, <2>2
    <3>. QED
      BY <3>1 DEF Short, Room, Used
  <2>. QED
    BY <2>2
<1>. QED
  BY <1>4, <1>5, <1>9, <1>10, Assembled

LEMMA RecvBlocks ==
  ASSUME MailboxInv, NEW t \in Tasks, NEW b \in Mailboxes, NEW n \in Lengths,
         Calls(t, b, <<"recv", b, n>>), n > Used(b), Block(t, <<"recv", b, n>>),
         recv_queue' = [recv_queue EXCEPT ![b] = Append(@, t)],
         UNCHANGED <<data, end, send_queue, apply_times, name, begin, mbox_ocp, opened,
                     stranded, delivered>>
  PROVE  MailboxInv'
<1>. DEFINE f == <<"recv", b, n>>
<1>1. /\ MboxTypeOK /\ QueuesLinked(recv_queue, send_queue, where, call, stranded)
      /\ \A u \in Tasks \ stranded : where[u] = "blocked" => Short(call[u])
  BY Parts
<1>2. where[t] \in {"user", "woken"} /\ t \notin stranded
  BY Caller
<1>3. f \in RecvCalls
  BY DEF RecvCalls
<1>4. /\ where' \in [Tasks -> Wheres]
      /\ call' \in [Tasks -> {None} \cup SendCalls \cup RecvCalls]
      /\ WaitingCalls' /\ StrandedStay'
      /\ \A u \in Tasks : /\ where'[u] = IF u = t THEN "blocked" ELSE where[u]
                          /\ call'[u] = IF u = t THEN f ELSE call[u]
  BY <1>2, <1>3, BlockedPlaces
<1>5. MboxTypeOK'
  <2>1. Append(recv_queue[b], t) \in Seq(Tasks)
    BY <1>1 DEF MboxTypeOK
  <2>. QED
    BY <1>1, <1>4, <2>1 DEF MboxTypeOK
<1>6. \A x, d : \A u \in Tasks :
        WaitsFor(u, d, x, where', call', stranded')
          <=> IF u = t THEN d = "recv" /\ x = b ELSE WaitsFor(u, d, x, where, call, stranded)
  BY <1>2, <1>4 DEF WaitsFor
<1>7. \A x, d : ~WaitsFor(t, d, x, where, call, stranded)
  BY <1>2 DEF WaitsFor
<1>8. ASSUME NEW x \in Mailboxes
      PROVE  /\ LinkedAs(recv_queue'[x], "recv", x, where', call', stranded')
             /\ LinkedAs(send_queue'[x], "send", x, where', call', stranded')
  <2>1. /\ LinkedAs(recv_queue[x], "recv", x, where, call, stranded)
        /\ LinkedAs(send_queue[x], "send", x, where, call, stranded)
    BY <1>1 DEF QueuesLinked
  <2>2. LinkedAs(send_queue[x], "send", x, where', call', stranded')
    BY <1>6, <1>7, <2>1, LinkedSame
  <2>3. CASE x = b
    <3>1. recv_queue'[x] = Append(recv_queue[x], t)
      BY <1>1, <2>3 DEF MboxTypeOK
    <3>2. LinkedAs(Append(recv_queue[x], t), "recv", x, where', call', stranded')
      BY <1>6, <1>7, <2>1, <2>3, LinkedJoined
    <3>. QED
      BY <2>2, <3>1, <3>2
  <2>4. CASE x # b
    <3>1. recv_queue'[x] = recv_queue[x]
      BY <1>1, <2>4 DEF MboxTypeOK
    <3>2. LinkedAs(recv_queue[x], "recv", x, where', call', stranded')
      BY <1>6, <1>7, <2>1, <2>4, LinkedSame
    <3>. QED
      BY <2>2, <3>1, <3>2
  <2>. QED
    BY <2>3, <2>4
<1>9. QueuesLinked(recv_queue', send_queue', where', call', stranded')
  BY <1>8 DEF QueuesLinked
<1>10. \A u \in Tasks \ stranded' : where'[u] = "blocked" => Short(call[u])'
  <2>1. Short(f)
    BY DEF Short
  <2>. HIDE DEF f
  <2>2. ASSUME NEW u \in Tasks \ stranded', where'[u] = "blocked"
        PROVE  Short(call[u])'
    <3>1. Short(call'[u])
      BY <1>1, <1>4, <2>1, <2>2
    <3>. QED
      BY <3>1 DEF Short, Room, Used
  <2>. QED
    BY <2>2
<1>. QED
  BY <1>4, <1>5, <1>9, <1>10, Assembled

\* The message goes in, and all receivers of the mailbox are woken.
LEMMA SendPuts ==
  ASSUME MailboxInv, NEW t \in Tasks, NEW b \in Mailboxes, NEW msg \in Messages,
         Calls(t, b, <<"send", b, msg>>), Len(msg) <= Room(b),
         data' = [data EXCEPT ![b] = data_in_mbox(b, msg)],
         end' = [end EXCEPT ![b] = (@ + Len(msg)) % MAX_MBOX_LENGTH],
         where' = [Unblock(ToSet(recv_queue[b])) EXCEPT ![t] = "user"],
         call' = [call EXCEPT ![t] = None],
         recv_queue' = [recv_queue EXCEPT ![b] = <<>>],
         UNCHANGED <<send_queue, apply_times, name, begin, mbox_ocp, opened, stranded,
                     delivered>>
  PROVE  MailboxInv' /\ Used(b)' = Used(b) + Len(msg)
<1>. DEFINE W == ToSet(recv_queue[b])
<1>1. /\ MboxTypeOK /\ QueuesLinked(recv_queue, send_queue, where, call, stranded)
      /\ \A u \in Tasks \ stranded : where[u] = "blocked" => Short(call[u])
      /\ WaitingCalls
  BY Parts
<1>2. where[t] \in {"user", "woken"} /\ t \notin stranded
  BY Caller
<1>3. /\ W \subseteq Tasks
      /\ \A u \in Tasks : u \in W <=> WaitsFor(u, "recv", b, where, call, stranded)
  BY <1>1, LinkedSet DEF QueuesLinked
<1>4. \A u \in W : u \in Tasks \ stranded /\ where[u] = "blocked"
  BY <1>3 DEF WaitsFor
<1>. HIDE DEF W
<1>5. where' = [Unblock(W) EXCEPT ![t] = "user"]
  BY DEF W
<1>6. /\ where' \in [Tasks -> Wheres]
      /\ call' \in [Tasks -> {None} \cup SendCalls \cup RecvCalls]
      /\ WaitingCalls' /\ StrandedStay'
      /\ \A u \in Tasks :
           /\ where'[u] = IF u = t THEN "user" ELSE IF u \in W THEN "woken" ELSE where[u]
           /\ call'[u] = IF u = t THEN None ELSE call[u]
  BY <1>2, <1>4, <1>5, MovedPlaces
<1>7. /\ begin[b] \in Positions /\ end[b] \in Positions /\ Len(msg) \in Nat
      /\ MAX_MBOX_LENGTH \in Nat
  BY <1>1, MailboxAssumption DEF MboxTypeOK
<1>8. /\ ((end[b] + Len(msg)) % MAX_MBOX_LENGTH) \in Positions
      /\ UsedOf(begin[b], (end[b] + Len(msg)) % MAX_MBOX_LENGTH) = Used(b) + Len(msg)
  <2>1. /\ Used(b) = UsedOf(begin[b], end[b]) /\ Used(b) \in Nat
        /\ Room(b) = MAX_MBOX_LENGTH - 1 - Used(b)
    BY <1>1, RoomIsLeft
  <2>2. UsedOf(begin[b], end[b]) + Len(msg) <= MAX_MBOX_LENGTH - 1
    BY <1>7, <2>1
  <2>. QED
    BY <1>7, <2>1, <2>2, PutIn
<1>9. MboxTypeOK'
  <2>1. data_in_mbox(b, msg) \in [Positions -> Nat]
    BY <1>1, CopyTypes
  <2>2. data' \in [Mailboxes -> [Positions -> Nat]]
    BY <1>1, <2>1 DEF MboxTypeOK
  <2>3. end' \in [Mailboxes -> Positions]
    BY <1>1, <1>8 DEF MboxTypeOK
  <2>4. recv_queue' \in [Mailboxes -> Seq(Tasks)]
    BY <1>1 DEF MboxTypeOK
  <2>. QED
    BY <1>1, <1>6, <2>2, <2>3, <2>4 DEF MboxTypeOK
<1>10. /\ begin' = begin /\ end'[b] = (end[b] + Len(msg)) % MAX_MBOX_LENGTH
       /\ \A x \in Mailboxes : x # b => end'[x] = end[x]
  BY <1>1 DEF MboxTypeOK
<1>11. Used(b)' = Used(b) + Len(msg)
  BY <1>8, <1>9, <1>10, RoomIsLeftNext
<1>12. \A x \in Mailboxes : Room(x)' <= Room(x) /\ (x # b => Used(x)' = Used(x))
  <2>. SUFFICES ASSUME NEW x \in Mailboxes
                PROVE  Room(x)' <= Room(x) /\ (x # b => Used(x)' = Used(x))
    OBVIOUS
  <2>1. /\ Used(x) \in Nat /\ Room(x) = MAX_MBOX_LENGTH - 1 - Used(x)
        /\ Used(x)' \in Nat /\ Room(x)' = MAX_MBOX_LENGTH - 1 - Used(x)'
    BY <1>1, <1>9, RoomIsLeft, RoomIsLeftNext
  <2>2. CASE x = b
    BY <1>7, <1>11, <2>1, <2>2
  <2>3. CASE x # b
    BY <1>7, <1>10, <2>1, <2>3, RingSame
  <2>. QED
    BY <2>2, <2>3
<1>13. \A x : \A u \in Tasks :
         /\ WaitsFor(u, "send", x, where', call', stranded')
              <=> WaitsFor(u, "send", x, where, call, stranded)
         /\ WaitsFor(u, "recv", x, where', call', stranded')
              <=> x # b /\ WaitsFor(u, "recv", x, where, call, stranded)
  BY <1>2, <1>3, <1>6 DEF WaitsFor
<1>14. ASSUME NEW x \in Mailboxes
       PROVE  /\ LinkedAs(recv_queue'[x], "recv", x, where', call', stranded')
              /\ LinkedAs(send_queue'[x], "send", x, where', call', stranded')
  <2>1. /\ LinkedAs(recv_queue[x], "recv", x, where, call, stranded)
        /\ LinkedAs(send_queue[x], "send", x, where, call, stranded)
    BY <1>1 DEF QueuesLinked
  <2>2. LinkedAs(send_queue[x], "send", x, where', call', stranded')
    BY <1>13, <2>1, LinkedSame
  <2>3. CASE x = b
    <3>1. recv_queue'[x] = <<>>
      BY <1>1, <2>3 DEF MboxTypeOK
    <3>. QED
      BY <1>13, <2>2, <2>3, <3>1, LinkedEmpty
  <2>4. CASE x # b
    <3>1. recv_queue'[x] = recv_queue[x]
      BY <1>1, <2>4 DEF MboxTypeOK
    <3>. QED
      BY <1>13, <2>1, <2>2, <2>4, <3>1, LinkedSame
  <2>. QED
    BY <2>3, <2>4
<1>15. QueuesLinked(recv_queue', send_queue', where', call', stranded')
  BY <1>14 DEF QueuesLinked
<1>16. ASSUME NEW u \in Tasks \ stranded', where'[u] = "blocked"
       PROVE  Short(call[u])'
  <2>1. u # t /\ u \notin W /\ where[u] = "blocked" /\ call'[u] = call[u] /\ u \notin stranded
    BY <1>6, <1>16
  <2>2. Short(call[u])
    BY <1>1, <2>1
  <2>3. \/ \E x \in Mailboxes, m \in Messages : call[u] = <<"send", x, m>>
        \/ \E x \in Mailboxes, n \in Lengths : call[u] = <<"recv", x, n>>
    BY <1>1, <2>1, CallKinds DEF WaitingCalls
  <2>4. CASE \E x \in Mailboxes, m \in Messages : call[u] = <<"send", x, m>>
    <3>1. PICK x \in Mailboxes, m \in Messages : call[u] = <<"send", x, m>>
      BY <2>4
    <3>2. Len(m) \in Nat /\ Room(x) \in Int /\ Room(x)' \in Int
      BY <1>1, <1>9, RoomIsLeft, RoomIsLeftNext, MailboxAssumption
    <3>3. Len(m) > Room(x) /\ Room(x)' <= Room(x)
      BY <1>12, <2>2, <3>1 DEF Short
    <3>4. Len(m) > Room(x)'
      BY <3>2, <3>3
    <3>. QED
      BY <2>1, <3>1, <3>4 DEF Short
  <2>5. CASE \E x \in Mailboxes, n \in Lengths : call[u] = <<"recv", x, n>>
    <3>1. PICK x \in Mailboxes, n \in Lengths : call[u] = <<"recv", x, n>>
      BY <2>5
    <3>2. x # b
      BY <1>3, <2>1, <3>1 DEF WaitsFor
    <3>3. n > Used(x)'
      BY <1>12, <2>2, <3>1, <3>2 DEF Short
    <3>. QED
      BY <2>1, <3>1, <3>3 DEF Short
  <2>. QED
    BY <2>3, <2>4, <2>5
<1>. QED
  BY <1>6, <1>9, <1>11, <1>15, <1>16, Assembled

\* n bytes come out, and all senders to the mailbox are woken.
LEMMA RecvTakes ==
  ASSUME MailboxInv, NEW t \in Tasks, NEW b \in Mailboxes, NEW n \in Lengths,
         Calls(t, b, <<"recv", b, n>>), n <= Used(b),
         delivered' = data_out_mbox(b, n),
         begin' = [begin EXCEPT ![b] = (@ + n) % MAX_MBOX_LENGTH],
         where' = [Unblock(ToSet(send_queue[b])) EXCEPT ![t] = "user"],
         call' = [call EXCEPT ![t] = None],
         send_queue' = [send_queue EXCEPT ![b] = <<>>],
         UNCHANGED <<recv_queue, apply_times, name, data, end, mbox_ocp, opened, stranded>>
  PROVE  MailboxInv' /\ Used(b)' = Used(b) - n
<1>. DEFINE W == ToSet(send_queue[b])
<1>1. /\ MboxTypeOK /\ QueuesLinked(recv_queue, send_queue, where, call, stranded)
      /\ \A u \in Tasks \ stranded : where[u] = "blocked" => Short(call[u])
      /\ WaitingCalls
  BY Parts
<1>2. where[t] \in {"user", "woken"} /\ t \notin stranded
  BY Caller
<1>3. /\ W \subseteq Tasks
      /\ \A u \in Tasks : u \in W <=> WaitsFor(u, "send", b, where, call, stranded)
  BY <1>1, LinkedSet DEF QueuesLinked
<1>4. \A u \in W : u \in Tasks \ stranded /\ where[u] = "blocked"
  BY <1>3 DEF WaitsFor
<1>. HIDE DEF W
<1>5. where' = [Unblock(W) EXCEPT ![t] = "user"]
  BY DEF W
<1>6. /\ where' \in [Tasks -> Wheres]
      /\ call' \in [Tasks -> {None} \cup SendCalls \cup RecvCalls]
      /\ WaitingCalls' /\ StrandedStay'
      /\ \A u \in Tasks :
           /\ where'[u] = IF u = t THEN "user" ELSE IF u \in W THEN "woken" ELSE where[u]
           /\ call'[u] = IF u = t THEN None ELSE call[u]
  BY <1>2, <1>4, <1>5, MovedPlaces, ZenonT(60)
<1>7. /\ begin[b] \in Positions /\ end[b] \in Positions /\ n \in Nat
      /\ MAX_MBOX_LENGTH \in Nat
  BY <1>1, MailboxAssumption DEF MboxTypeOK
<1>8. /\ ((begin[b] + n) % MAX_MBOX_LENGTH) \in Positions
      /\ UsedOf((begin[b] + n) % MAX_MBOX_LENGTH, end[b]) = Used(b) - n
  <2>1. Used(b) = UsedOf(begin[b], end[b]) /\ Used(b) \in Nat
    BY <1>1, RoomIsLeft
  <2>. QED
    BY <1>7, <2>1, TakeOut
<1>9. MboxTypeOK'
  <2>1. delivered' \in Seq(Nat)
    BY <1>1, <1>7, CopyTypes
  <2>2. begin' \in [Mailboxes -> Positions]
    BY <1>1, <1>8 DEF MboxTypeOK
  <2>3. send_queue' \in [Mailboxes -> Seq(Tasks)]
    BY <1>1 DEF MboxTypeOK
  <2>. QED
    BY <1>1, <1>6, <2>1, <2>2, <2>3 DEF MboxTypeOK
<1>10. /\ end' = end /\ begin'[b] = (begin[b] + n) % MAX_MBOX_LENGTH
       /\ \A x \in Mailboxes : x # b => begin'[x] = begin[x]
  BY <1>1 DEF MboxTypeOK
<1>11. Used(b)' = Used(b) - n
  BY <1>8, <1>9, <1>10, RoomIsLeftNext
<1>12. \A x \in Mailboxes : Used(x)' <= Used(x) /\ (x # b => Room(x)' = Room(x))
  <2>. SUFFICES ASSUME NEW x \in Mailboxes
                PROVE  Used(x)' <= Used(x) /\ (x # b => Room(x)' = Room(x))
    OBVIOUS
  <2>1. Used(x) \in Nat /\ Used(x)' \in Nat
    BY <1>1, <1>9, RoomIsLeft, RoomIsLeftNext
  <2>2. CASE x = b
    BY <1>7, <1>11, <2>1, <2>2
  <2>3. CASE x # b
    BY <1>10, <2>1, <2>3, RingSame
  <2>. QED
    BY <2>2, <2>3
<1>13. \A x : \A u \in Tasks :
         /\ WaitsFor(u, "recv", x, where', call', stranded')
              <=> WaitsFor(u, "recv", x, where, call, stranded)
         /\ WaitsFor(u, "send", x, where', call', stranded')
              <=> x # b /\ WaitsFor(u, "send", x, where, call, stranded)
  BY <1>2, <1>3, <1>6 DEF WaitsFor
<1>14. ASSUME NEW x \in Mailboxes
       PROVE  /\ LinkedAs(recv_queue'[x], "recv", x, where', call', stranded')
              /\ LinkedAs(send_queue'[x], "send", x, where', call', stranded')
  <2>1. /\ LinkedAs(recv_queue[x], "recv", x, where, call, stranded)
        /\ LinkedAs(send_queue[x], "send", x, where, call, stranded)
    BY <1>1 DEF QueuesLinked
  <2>2. LinkedAs(recv_queue[x], "recv", x, where', call', stranded')
    BY <1>13, <2>1, LinkedSame
  <2>3. CASE x = b
    <3>1. send_queue'[x] = <<>>
      BY <1>1, <2>3 DEF MboxTypeOK
    <3>. QED
      BY <1>13, <2>2, <2>3, <3>1, LinkedEmpty
  <2>4. CASE x # b
    <3>1. send_queue'[x] = send_queue[x]
      BY <1>1, <2>4 DEF MboxTypeOK
    <3>. QED
      BY <1>13, <2>1, <2>2, <2>4, <3>1, LinkedSame
  <2>. QED
    BY <2>3, <2>4
<1>15. QueuesLinked(recv_queue', send_queue', where', call', stranded')
  BY <1>14 DEF QueuesLinked
<1>16. ASSUME NEW u \in Tasks \ stranded', where'[u] = "blocked"
       PROVE  Short(call[u])'
  <2>1. u # t /\ u \notin W /\ where[u] = "blocked" /\ call'[u] = call[u] /\ u \notin stranded
    BY <1>6, <1>16
  <2>2. Short(call[u])
    BY <1>1, <2>1
  <2>3. \/ \E x \in Mailboxes, m \in Messages : call[u] = <<"send", x, m>>
        \/ \E x \in Mailboxes, k \in Lengths : call[u] = <<"recv", x, k>>
    BY <1>1, <2>1, CallKinds DEF WaitingCalls
  <2>4. CASE \E x \in Mailboxes, m \in Messages : call[u] = <<"send", x, m>>
    <3>1. PICK x \in Mailboxes, m \in Messages : call[u] = <<"send", x, m>>
      BY <2>4
    <3>2. x # b
      BY <1>3, <2>1, <3>1 DEF WaitsFor
    <3>3. Len(m) > Room(x)'
      BY <1>12, <2>2, <3>1, <3>2 DEF Short
    <3>. QED
      BY <2>1, <3>1, <3>3 DEF Short
  <2>5. CASE \E x \in Mailboxes, k \in Lengths : call[u] = <<"recv", x, k>>
    <3>1. PICK x \in Mailboxes, k \in Lengths : call[u] = <<"recv", x, k>>
      BY <2>5
    <3>2. k \in Nat /\ Used(x) \in Nat /\ Used(x)' \in Nat
      BY <1>1, <1>9, RoomIsLeft, RoomIsLeftNext, MailboxAssumption
    <3>3. k > Used(x) /\ Used(x)' <= Used(x)
      BY <1>12, <2>2, <3>1 DEF Short
    <3>4. k > Used(x)'
      BY <3>2, <3>3
    <3>. QED
      BY <2>1, <3>1, <3>4 DEF Short
  <2>. QED
    BY <2>3, <2>4, <2>5
<1>. QED
  BY <1>6, <1>9, <1>11, <1>15, <1>16, Assembled

\* A process that dies leaves its queue and takes the mailboxes that it has opened along.
LEMMA Clears ==
  ASSUME MailboxInv, NEW t \in Tasks, pcb_clear(t)
  PROVE  MailboxInv'
<1>. DEFINE D == mbox_ocp[t]
            W == DestroyWakes(D)
<1>1. /\ MboxTypeOK /\ QueuesLinked(recv_queue, send_queue, where, call, stranded)
      /\ \A u \in Tasks \ stranded : where[u] = "blocked" => Short(call[u])
      /\ WaitingCalls
  BY Parts
<1>2. D \subseteq Mailboxes
  BY <1>1 DEF MboxTypeOK
<1>3. \A x \in Mailboxes :
        /\ ToSet(recv_queue[x]) \subseteq Tasks /\ ToSet(send_queue[x]) \subseteq Tasks
        /\ \A u \in Tasks : /\ u \in ToSet(recv_queue[x])
                                 <=> WaitsFor(u, "recv", x, where, call, stranded)
                            /\ u \in ToSet(send_queue[x])
                                 <=> WaitsFor(u, "send", x, where, call, stranded)
  BY <1>1, LinkedSet DEF QueuesLinked
<1>4. \A u : u \in W <=> u \in Tasks /\ \E x \in D :
                \/ WaitsFor(u, "recv", x, where, call, stranded)
                \/ WaitsFor(u, "send", x, where, call, stranded)
  BY <1>2, <1>3 DEF DestroyWakes
<1>5. \A u \in W : u \in Tasks \ stranded /\ where[u] = "blocked"
  BY <1>4 DEF WaitsFor
<1>6. /\ where' = [Unblock(W) EXCEPT ![t] = "dead"] /\ call' = [call EXCEPT ![t] = None]
      /\ apply_times' = [b \in Mailboxes |-> IF b \in D THEN 0 ELSE apply_times[b]]
      /\ begin' = [b \in Mailboxes |-> IF b \in D THEN 0 ELSE begin[b]]
      /\ end' = [b \in Mailboxes |-> IF b \in D THEN 0 ELSE end[b]]
      /\ name' = [b \in Mailboxes |-> IF b \in D THEN NoName ELSE name[b]]
      /\ data' = [b \in Mailboxes |-> IF b \in D THEN [data[b] EXCEPT ![0] = 0] ELSE data[b]]
      /\ recv_queue' = [b \in Mailboxes |-> IF b \in D THEN <<>> ELSE unlink(recv_queue[b], t)]
      /\ send_queue' = [b \in Mailboxes |-> IF b \in D THEN <<>> ELSE unlink(send_queue[b], t)]
      /\ mbox_ocp' = [mbox_ocp EXCEPT ![t] = {}] /\ opened' = [opened EXCEPT ![t] = {}]
      /\ UNCHANGED <<stranded, delivered>>
  BY DEF pcb_clear
<1>. HIDE DEF D, W
<1>7. /\ where' \in [Tasks -> Wheres]
      /\ call' \in [Tasks -> {None} \cup SendCalls \cup RecvCalls]
      /\ WaitingCalls' /\ StrandedStay'
      /\ \A u \in Tasks :
           /\ where'[u] = IF u = t THEN "dead" ELSE IF u \in W THEN "woken" ELSE where[u]
           /\ call'[u] = IF u = t THEN None ELSE call[u]
  BY <1>5, <1>6, MovedPlaces
<1>8. MboxTypeOK'
  <2>1. 0 \in Positions /\ <<>> \in Seq(Tasks)
    BY MailboxAssumption DEF Positions
  <2>2. \A x \in Mailboxes : /\ unlink(recv_queue[x], t) \in Seq(Tasks)
                             /\ unlink(send_queue[x], t) \in Seq(Tasks)
    BY <1>1, UnlinkElements DEF MboxTypeOK
  <2>3. /\ recv_queue' \in [Mailboxes -> Seq(Tasks)]
        /\ send_queue' \in [Mailboxes -> Seq(Tasks)]
    BY <1>6, <2>1, <2>2
  <2>4. data' \in [Mailboxes -> [Positions -> Nat]]
    BY <1>1, <1>6, <2>1 DEF MboxTypeOK
  <2>5. begin' \in [Mailboxes -> Positions] /\ end' \in [Mailboxes -> Positions]
    BY <1>1, <1>6, <2>1 DEF MboxTypeOK
  <2>6. /\ mbox_ocp' \in [Tasks -> SUBSET Mailboxes] /\ opened' \in [Tasks -> SUBSET Mailboxes]
        /\ apply_times' \in [Mailboxes -> Nat] /\ name' \in [Mailboxes -> Names \cup {NoName}]
    BY <1>1, <1>6 DEF MboxTypeOK
  <2>. QED
    BY <1>1, <1>6, <1>7, <2>3, <2>4, <2>5, <2>6 DEF MboxTypeOK
<1>9. \A x \in Mailboxes : \A u \in Tasks :
        /\ WaitsFor(u, "recv", x, where', call', stranded')
             <=> x \notin D /\ u # t /\ WaitsFor(u, "recv", x, where, call, stranded)
        /\ WaitsFor(u, "send", x, where', call', stranded')
             <=> x \notin D /\ u # t /\ WaitsFor(u, "send", x, where, call, stranded)
  BY <1>4, <1>6, <1>7 DEF WaitsFor
<1>10. ASSUME NEW x \in Mailboxes
       PROVE  /\ LinkedAs(recv_queue'[x], "recv", x, where', call', stranded')
              /\ LinkedAs(send_queue'[x], "send", x, where', call', stranded')
  <2>1. /\ LinkedAs(recv_queue[x], "recv", x, where, call, stranded)
        /\ LinkedAs(send_queue[x], "send", x, where, call, stranded)
    BY <1>1 DEF QueuesLinked
  <2>2. CASE x \in D
    <3>1. recv_queue'[x] = <<>> /\ send_queue'[x] = <<>>
      BY <1>6, <2>2
    <3>. QED
      BY <1>9, <2>2, <3>1, LinkedEmpty
  <2>3. CASE x \notin D
    <3>1. recv_queue'[x] = unlink(recv_queue[x], t) /\ send_queue'[x] = unlink(send_queue[x], t)
      BY <1>6, <2>3
    <3>. QED
      BY <1>9, <2>1, <2>3, <3>1, LinkedLeft
  <2>. QED
    BY <2>2, <2>3
<1>11. QueuesLinked(recv_queue', send_queue', where', call', stranded')
  BY <1>10 DEF QueuesLinked
<1>12. ASSUME NEW u \in Tasks \ stranded', where'[u] = "blocked"
       PROVE  Short(call[u])'
  <2>1. u # t /\ u \notin W /\ where[u] = "blocked" /\ call'[u] = call[u] /\ u \notin stranded
    BY <1>6, <1>7, <1>12
  <2>2. Short(call[u])
    BY <1>1, <2>1
  <2>3. call[u][1] \in {"recv", "send"} /\ call[u][2] \in Mailboxes
    BY <1>1, <2>1, CallKinds DEF WaitingCalls
  <2>4. call[u][2] \notin D
    BY <1>4, <2>1, <2>3 DEF WaitsFor
  <2>5. begin'[call[u][2]] = begin[call[u][2]] /\ end'[call[u][2]] = end[call[u][2]]
    BY <1>6, <2>3, <2>4
  <2>. QED
    BY <2>1, <2>2, <2>5 DEF Short, Room, Used
<1>. QED
  BY <1>7, <1>8, <1>11, <1>12, Assembled

-----------------------------------------------------------------------------
(* MailboxInv.                                                              *)

LEMMA MboxInitially == MailboxInit => MailboxInv
<1>. SUFFICES ASSUME MailboxInit PROVE MailboxInv
  OBVIOUS
<1>1. 0 \in Positions /\ <<>> \in Seq(Tasks) /\ <<>> \in Seq(Nat)
  BY MailboxAssumption DEF Positions
<1>2. MboxTypeOK
  BY <1>1 DEF MailboxInit, MboxTypeOK, Wheres
<1>3. WaitingCalls /\ StrandedStay /\ MboxWaitersServed
  BY DEF MailboxInit, WaitingCalls, StrandedStay, MboxWaitersServed
<1>4. QueuesLinked(recv_queue, send_queue, where, call, stranded)
  <2>1. IsInjective(<<>>) /\ \A u : ~Contains(<<>>, u)
    BY DEF IsInjective, Contains
  <2>2. ASSUME NEW b \in Mailboxes, NEW d
        PROVE  LinkedAs(<<>>, d, b, where, call, stranded)
    BY <1>1, <2>1 DEF LinkedAs, WaitsFor, MailboxInit
  <2>. QED
    BY <2>2 DEF QueuesLinked, MailboxInit
<1>5. MboxWaitersLinked
  BY <1>2, <1>3, <1>4, LinkedParts
<1>. QED
  BY <1>2, <1>3, <1>5 DEF MailboxInv

LEMMA MboxStutters ==
  ASSUME MailboxInv, UNCHANGED mboxVars
  PROVE  MailboxInv'
BY DEF mboxVars, MailboxInv, MboxTypeOK, WaitingCalls, StrandedStay, MboxWaitersLinked,
       MboxWaitersServed, Room, Used

LEMMA MailboxStep == MailboxInv /\ [MailboxNext]_mboxVars => MailboxInv'
<1>. SUFFICES ASSUME MailboxInv, [MailboxNext]_mboxVars PROVE MailboxInv'
  OBVIOUS
<1>1. ASSUME NEW t \in Tasks, NEW b \in Mailboxes, NEW msg \in Messages,
             do_mbox_send(t, b, msg)
      PROVE  MailboxInv'
  BY <1>1, SendBlocks, SendPuts DEF do_mbox_send
<1>2. ASSUME NEW t \in Tasks, NEW b \in Mailboxes, NEW n \in Lengths, do_mbox_recv(t, b, n)
      PROVE  MailboxInv'
  BY <1>2, RecvBlocks, RecvTakes DEF do_mbox_recv
<1>3. CASE UNCHANGED mboxVars
  BY <1>3, MboxStutters
<1>. QED
  BY <1>1, <1>2, <1>3, Opens, Closes, Clears DEF MailboxNext, Stuck

\* The inductive invariant of the mailboxes: every blocked task waits in the one queue
\* of its mailbox and direction (ipc.c, do_block), and for more than the ring has.
THEOREM MailboxInvariant == MailboxSpec => []MailboxInv
<1>1. MailboxInit => MailboxInv
  BY MboxInitially
<1>2. MailboxInv /\ [MailboxNext]_mboxVars => MailboxInv'
  BY MailboxStep
<1>. QED
  BY <1>1, <1>2, PTL DEF MailboxSpec

\* do_mbox_send and do_mbox_recv leave nobody blocked who could go on, however the
\* calls of senders, receivers and dying processes follow each other.
THEOREM NobodyWaitsInVain == MailboxSpec => []MboxWaitersServed
<1>1. MailboxInv => MboxWaitersServed
  BY DEF MailboxInv
<1>. QED
  BY <1>1, MailboxInvariant, PTL

\* The queues of the mailboxes hold the tasks that are blocked on them, each once.
THEOREM MailQueuesHoldWaiters == MailboxSpec => []MboxWaitersLinked
<1>1. MailboxInv => MboxWaitersLinked
  BY DEF MailboxInv
<1>. QED
  BY <1>1, MailboxInvariant, PTL

-----------------------------------------------------------------------------
(* The refinement of module Pipe.                                           *)

\* Where the k-th byte of a ring is that begins at x.
ByteAt(x, k) == IF x + k - 1 < MAX_MBOX_LENGTH THEN x + k - 1 ELSE x + k - 1 - MAX_MBOX_LENGTH

LEMMA RingBytes ==
  MboxTypeOK => \A b \in Mailboxes :
    /\ Ring[b] \in Seq(Nat) /\ Len(Ring[b]) = Used(b)
    /\ \A k \in 1 .. Used(b) : Ring[b][k] = data[b][ByteAt(begin[b], k)]
<1>. SUFFICES ASSUME MboxTypeOK, NEW b \in Mailboxes
     PROVE  /\ Ring[b] \in Seq(Nat) /\ Len(Ring[b]) = Used(b)
            /\ \A k \in 1 .. Used(b) : Ring[b][k] = data[b][ByteAt(begin[b], k)]
  OBVIOUS
<1>1. /\ begin[b] \in Nat /\ begin[b] < MAX_MBOX_LENGTH /\ MAX_MBOX_LENGTH \in Nat \ {0}
      /\ data[b] \in [Positions -> Nat]
  BY MailboxAssumption DEF MboxTypeOK, Positions
<1>2. Used(b) \in Nat /\ Used(b) <= MAX_MBOX_LENGTH - 1
  BY RoomIsLeft
<1>3. ASSUME NEW k \in 1 .. Used(b)
      PROVE  /\ ((begin[b] + k - 1) % MAX_MBOX_LENGTH) = ByteAt(begin[b], k)
             /\ ByteAt(begin[b], k) \in Positions
  <2>. DEFINE y == begin[b] + k - 1
  <2>1. y \in Nat /\ y < MAX_MBOX_LENGTH + MAX_MBOX_LENGTH
    BY <1>1, <1>2
  <2>2. (y % MAX_MBOX_LENGTH) = IF y < MAX_MBOX_LENGTH THEN y ELSE y - MAX_MBOX_LENGTH
    <3>. HIDE DEF y
    <3>. QED
      BY <2>1, Modulo, Zenon
  <2>3. ByteAt(begin[b], k) = IF y < MAX_MBOX_LENGTH THEN y ELSE y - MAX_MBOX_LENGTH
    BY <1>1, <1>2 DEF ByteAt
  <2>4. ByteAt(begin[b], k) \in Positions
    BY <1>1, <2>1, SMTT(60) DEF ByteAt, Positions
  <2>. QED
    BY <2>2, <2>3, <2>4
<1>4. Ring[b] = [k \in 1 .. Used(b) |-> data[b][(begin[b] + k - 1) % MAX_MBOX_LENGTH]]
  BY DEF Ring
<1>5. /\ Ring[b] \in [1 .. Used(b) -> Nat]
      /\ \A k \in 1 .. Used(b) : Ring[b][k] = data[b][ByteAt(begin[b], k)]
  BY <1>1, <1>3, <1>4
<1>6. Ring[b] \in Seq(Nat) /\ Len(Ring[b]) = Used(b)
  BY <1>2, <1>5, SeqDef, LenProperties
<1>. QED
  BY <1>5, <1>6

LEMMA RingBytesNext ==
  MboxTypeOK' => \A b \in Mailboxes :
    /\ Ring'[b] \in Seq(Nat) /\ Len(Ring'[b]) = Used(b)'
    /\ \A k \in 1 .. Used(b)' : Ring'[b][k] = data'[b][ByteAt(begin'[b], k)]
<1>1. (MboxTypeOK => \A b \in Mailboxes :
         /\ Ring[b] \in Seq(Nat) /\ Len(Ring[b]) = Used(b)
         /\ \A k \in 1 .. Used(b) : Ring[b][k] = data[b][ByteAt(begin[b], k)])'
  BY RingBytes, PTL
<1>. QED
  BY <1>1 DEF ByteAt

\* A ring that a step leaves alone, and the rings as a whole.
LEMMA RingKept ==
  ASSUME NEW b \in Mailboxes, begin'[b] = begin[b], end'[b] = end[b], data'[b] = data[b]
  PROVE  Ring'[b] = Ring[b]
<1>1. Used(b)' = Used(b)
  BY RingSame
<1>. QED
  BY <1>1 DEF Ring

LEMMA RingBecomes ==
  ASSUME NEW R, \A b \in Mailboxes : Ring'[b] = R[b]
  PROVE  Ring' = [b \in Mailboxes |-> R[b]]
BY DEF Ring

\* Which byte of a message that is copied in at y comes to position i: its k-th byte
\* lands where the k-th free byte of the ring is, and none lands on a byte in use.
Slot(i, y) == IF i >= y THEN i - y + 1 ELSE i + MAX_MBOX_LENGTH - y + 1

LEMMA Landing ==
  ASSUME NEW x \in Nat, x < MAX_MBOX_LENGTH, NEW y \in Nat, y < MAX_MBOX_LENGTH,
         NEW k \in Nat, 1 <= k, NEW l \in Nat, UsedOf(x, y) + l <= MAX_MBOX_LENGTH - 1,
         k <= UsedOf(x, y) + l
  PROVE  LET j == Slot(ByteAt(x, k), y)
         IN /\ j \in Int
            /\ k <= UsedOf(x, y) => j < 1 \/ j > l
            /\ ~(k <= UsedOf(x, y)) => j = k - UsedOf(x, y)
<1>1. MAX_MBOX_LENGTH \in Nat
  BY MailboxAssumption
<1>2. CASE x <= y
  BY <1>1, <1>2 DEF Slot, ByteAt, UsedOf
<1>3. CASE ~(x <= y)
  BY <1>1, <1>3 DEF Slot, ByteAt, UsedOf
<1>. QED
  BY <1>2, <1>3

\* What do_mbox_send copies in comes behind what the ring holds.
LEMMA PutsBehind ==
  ASSUME MboxTypeOK, MboxTypeOK', NEW b \in Mailboxes, NEW msg \in Messages,
         Len(msg) <= Room(b), Used(b)' = Used(b) + Len(msg),
         data' = [data EXCEPT ![b] = data_in_mbox(b, msg)], UNCHANGED begin
  PROVE  Ring'[b] = Ring[b] \o msg
<1>1. /\ begin[b] \in Nat /\ begin[b] < MAX_MBOX_LENGTH /\ MAX_MBOX_LENGTH \in Nat \ {0}
      /\ end[b] \in Nat /\ end[b] < MAX_MBOX_LENGTH /\ msg \in Seq(Nat) /\ Len(msg) \in Nat
  <2>1. begin[b] \in Positions /\ end[b] \in Positions
    BY DEF MboxTypeOK
  <2>2. msg \in Seq(Nat) /\ Len(msg) \in Nat
    BY MailboxAssumption, LenProperties
  <2>. QED
    BY <2>1, <2>2, MailboxAssumption DEF Positions
<1>2. /\ Used(b) = UsedOf(begin[b], end[b]) /\ Used(b) \in Nat
      /\ Used(b) + Len(msg) <= MAX_MBOX_LENGTH - 1
  BY <1>1, RoomIsLeft
<1>3. data'[b] = data_in_mbox(b, msg) /\ begin'[b] = begin[b]
  BY DEF MboxTypeOK
<1>4. /\ Ring[b] \in Seq(Nat) /\ Len(Ring[b]) = Used(b)
      /\ \A k \in 1 .. Used(b) : Ring[b][k] = data[b][ByteAt(begin[b], k)]
  BY RingBytes
<1>5. /\ Ring'[b] \in Seq(Nat) /\ Len(Ring'[b]) = Used(b) + Len(msg)
      /\ \A k \in 1 .. Used(b) + Len(msg) :
           Ring'[b][k] = data_in_mbox(b, msg)[ByteAt(begin[b], k)]
  BY <1>3, RingBytesNext
<1>6. /\ Ring[b] \o msg \in Seq(Nat) /\ Len(Ring[b] \o msg) = Used(b) + Len(msg)
      /\ \A k \in 1 .. Used(b) + Len(msg) :
           (Ring[b] \o msg)[k] = IF k <= Used(b) THEN Ring[b][k] ELSE msg[k - Used(b)]
  <2>1. msg \in Seq(Nat) /\ Ring[b] \in Seq(Nat)
    BY <1>1, <1>4
  <2>2. /\ Ring[b] \o msg \in Seq(Nat)
        /\ Len(Ring[b] \o msg) = Len(Ring[b]) + Len(msg)
        /\ \A k \in 1 .. Len(Ring[b]) + Len(msg) :
             (Ring[b] \o msg)[k] = IF k <= Len(Ring[b]) THEN Ring[b][k]
                                   ELSE msg[k - Len(Ring[b])]
    BY <2>1, ConcatProperties, Zenon
  <2>. QED
    BY <1>4, <2>2, Zenon
<1>7. ASSUME NEW k \in 1 .. Used(b) + Len(msg)
      PROVE  Ring'[b][k] = (Ring[b] \o msg)[k]
  <2>. DEFINE i == ByteAt(begin[b], k)
              j == IF i >= end[b] THEN i - end[b] + 1 ELSE i + MAX_MBOX_LENGTH - end[b] + 1
  <2>0. k \in Nat /\ 1 <= k /\ k <= Used(b) + Len(msg)
    BY <1>1, <1>2
  <2>1. i \in Positions
    BY <1>1, <1>2, <2>0 DEF ByteAt, Positions
  <2>2. IF k <= Used(b) THEN j \notin 1 .. Len(msg) ELSE j = k - Used(b)
    <3>1. j = Slot(i, end[b])
      BY DEF Slot
    <3>. HIDE DEF j
    <3>2. /\ j \in Int
          /\ k <= Used(b) => j < 1 \/ j > Len(msg)
          /\ ~(k <= Used(b)) => j = k - Used(b)
      BY <1>1, <1>2, <2>0, <3>1, Landing
    <3>. QED
      BY <1>1, <3>2
  <2>3. data_in_mbox(b, msg)[i] = IF j \in 1 .. Len(msg) THEN msg[j] ELSE data[b][i]
    BY <2>1 DEF data_in_mbox
  <2>4. Ring'[b][k] = data_in_mbox(b, msg)[i]
    BY <1>5
  <2>. HIDE DEF j
  <2>5. CASE k <= Used(b)
    <3>1. k \in 1 .. Used(b)
      BY <1>1, <1>2, <2>5
    <3>2. Ring[b][k] = data[b][i]
      BY <1>4, <3>1
    <3>. QED
      BY <1>6, <2>2, <2>3, <2>4, <2>5, <3>2
  <2>6. CASE ~(k <= Used(b))
    <3>1. j \in 1 .. Len(msg)
      BY <1>1, <1>2, <2>2, <2>6
    <3>. QED
      BY <1>6, <2>2, <2>3, <2>4, <2>6, <3>1
  <2>. QED
    BY <2>5, <2>6
<1>. QED
  BY <1>5, <1>6, <1>7, SeqEqual

\* What do_mbox_recv copies out is the front of the ring, and the rest stays.
LEMMA TakesFront ==
  ASSUME MboxTypeOK, MboxTypeOK', NEW b \in Mailboxes, NEW n \in Nat,
         n <= Used(b), Used(b)' = Used(b) - n,
         begin' = [begin EXCEPT ![b] = (@ + n) % MAX_MBOX_LENGTH], UNCHANGED data
  PROVE  /\ data_out_mbox(b, n) = SubSeq(Ring[b], 1, n)
         /\ Ring'[b] = SubSeq(Ring[b], n + 1, Len(Ring[b]))
<1>1. /\ begin[b] \in Nat /\ begin[b] < MAX_MBOX_LENGTH /\ MAX_MBOX_LENGTH \in Nat \ {0}
  BY MailboxAssumption DEF MboxTypeOK, Positions
<1>2. Used(b) \in Nat /\ Used(b) <= MAX_MBOX_LENGTH - 1
  BY RoomIsLeft
<1>3. /\ Ring[b] \in Seq(Nat) /\ Len(Ring[b]) = Used(b)
      /\ \A k \in 1 .. Used(b) : Ring[b][k] = data[b][ByteAt(begin[b], k)]
  BY RingBytes
<1>4. \A k \in 1 .. Used(b) : Ring[b][k] \in Nat
  BY <1>3
<1>5. data_out_mbox(b, n) = SubSeq(Ring[b], 1, n)
  <2>1. /\ SubSeq(Ring[b], 1, n) \in Seq(Nat) /\ Len(SubSeq(Ring[b], 1, n)) = n
        /\ \A k \in 1 .. n : SubSeq(Ring[b], 1, n)[k] = Ring[b][k]
    <3>1. \A k \in 1 .. n : Ring[b][k] \in Nat
      BY <1>2, <1>4
    <3>. QED
      BY <3>1, SubSeqProperties
  <2>2. /\ data_out_mbox(b, n) \in Seq(Nat)
        /\ \A k \in 1 .. n : data_out_mbox(b, n)[k] = data[b][ByteAt(begin[b], k)]
    <3>1. data_out_mbox(b, n) \in Seq(Nat)
      BY CopyTypes
    <3>2. \A k \in 1 .. n :
            data_out_mbox(b, n)[k] = data[b][IF begin[b] + k - 1 < MAX_MBOX_LENGTH
                                             THEN begin[b] + k - 1
                                             ELSE begin[b] + k - 1 - MAX_MBOX_LENGTH]
      BY <1>1 DEF data_out_mbox
    <3>3. \A k \in 1 .. n : data_out_mbox(b, n)[k] = data[b][ByteAt(begin[b], k)]
      BY <3>2, Zenon DEF ByteAt
    <3>. QED
      BY <3>1, <3>3
  <2>3. Len(data_out_mbox(b, n)) = n
    BY <2>2, LenProperties DEF data_out_mbox
  <2>4. \A k \in 1 .. n : k \in 1 .. Used(b)
    BY <1>2
  <2>5. \A k \in 1 .. n : data_out_mbox(b, n)[k] = SubSeq(Ring[b], 1, n)[k]
    BY <1>3, <2>1, <2>2, <2>4
  <2>. QED
    BY <2>1, <2>2, <2>3, <2>5, SeqEqual
<1>6. Ring'[b] = SubSeq(Ring[b], n + 1, Len(Ring[b]))
  <2>. DEFINE s == SubSeq(Ring[b], n + 1, Used(b))
  <2>1. /\ s \in Seq(Nat) /\ Len(s) = Used(b) - n
        /\ \A k \in 1 .. Used(b) - n : s[k] = Ring[b][n + k]
    <3>1. \A k \in n + 1 .. Used(b) : Ring[b][k] \in Nat
      BY <1>4
    <3>2. /\ s \in Seq(Nat)
          /\ Len(s) = IF n + 1 <= Used(b) THEN Used(b) - (n + 1) + 1 ELSE 0
          /\ \A k \in 1 .. Used(b) - (n + 1) + 1 : s[k] = Ring[b][(n + 1) + k - 1]
      BY <1>2, <3>1, SubSeqProperties
    <3>3. \A k \in 1 .. Used(b) - n : (n + 1) + k - 1 = n + k
      OBVIOUS
    <3>. QED
      BY <1>2, <3>2, <3>3
  <2>2. /\ Ring'[b] \in Seq(Nat) /\ Len(Ring'[b]) = Used(b) - n
        /\ \A k \in 1 .. Used(b) - n : Ring'[b][k] = data[b][ByteAt(begin'[b], k)]
    BY RingBytesNext
  <2>3. begin'[b] = (begin[b] + n) % MAX_MBOX_LENGTH
    BY DEF MboxTypeOK
  <2>4. begin[b] + n \in Nat /\ begin[b] + n < MAX_MBOX_LENGTH + MAX_MBOX_LENGTH
    BY <1>1, <1>2
  <2>5. begin'[b] = IF begin[b] + n < MAX_MBOX_LENGTH THEN begin[b] + n
                    ELSE begin[b] + n - MAX_MBOX_LENGTH
    BY <1>1, <2>3, <2>4, Modulo
  <2>6. ASSUME NEW k \in 1 .. Used(b) - n
        PROVE  n + k \in 1 .. Used(b) /\ ByteAt(begin'[b], k) = ByteAt(begin[b], n + k)
    BY <1>1, <1>2, <2>5 DEF ByteAt
  <2>. HIDE DEF s
  <2>7. \A k \in 1 .. Used(b) - n : Ring'[b][k] = s[k]
    BY <1>3, <2>1, <2>2, <2>6, ZenonT(60)
  <2>8. Ring'[b] = s
    BY <2>1, <2>2, <2>7, SeqEqual
  <2>. QED
    BY <1>3, <2>8 DEF s
<1>. QED
  BY <1>5, <1>6

\* A ring that is reset is empty.
LEMMA RingReset ==
  ASSUME MboxTypeOK', NEW b \in Mailboxes, begin'[b] = 0, end'[b] = 0
  PROVE  Ring'[b] = <<>>
<1>1. Used(b)' = 0
  BY RoomIsLeftNext DEF UsedOf
<1>2. Ring'[b] \in Seq(Nat) /\ Len(Ring'[b]) = 0
  BY <1>1, RingBytesNext
<1>. QED
  BY <1>2, EmptySeq

LEMMA SendIsPut ==
  ASSUME MailboxInv, NEW t \in Tasks, NEW b \in Mailboxes, NEW msg \in Messages,
         do_mbox_send(t, b, msg)
  PROVE  Abstract!Send(b, msg) \/ UNCHANGED <<Ring, delivered>>
<1>1. MboxTypeOK
  BY DEF MailboxInv
<1>2. MboxTypeOK'
  BY SendBlocks, SendPuts DEF do_mbox_send, MailboxInv
<1>3. CASE UNCHANGED data /\ UNCHANGED end
  <2>1. \A x \in Mailboxes : Ring'[x] = Ring[x]
    BY <1>3, RingKept DEF do_mbox_send
  <2>2. Ring' = [x \in Mailboxes |-> Ring[x]] /\ Ring = [x \in Mailboxes |-> Ring[x]]
    BY <2>1, RingBecomes DEF Ring
  <2>. QED
    BY <2>2 DEF do_mbox_send
<1>4. CASE /\ Len(msg) <= Room(b)
           /\ data' = [data EXCEPT ![b] = data_in_mbox(b, msg)]
           /\ end' = [end EXCEPT ![b] = (@ + Len(msg)) % MAX_MBOX_LENGTH]
           /\ Used(b)' = Used(b) + Len(msg)
  <2>1. UNCHANGED <<begin, delivered>>
    BY DEF do_mbox_send
  <2>2. Ring'[b] = Ring[b] \o msg
    BY <1>1, <1>2, <1>4, <2>1, PutsBehind
  <2>3. ASSUME NEW x \in Mailboxes, x # b PROVE Ring'[x] = Ring[x]
    <3>1. end'[x] = end[x] /\ data'[x] = data[x]
      BY <1>1, <1>4, <2>3 DEF MboxTypeOK
    <3>. QED
      BY <2>1, <3>1, RingKept
  <2>4. Ring' = [Ring EXCEPT ![b] = @ \o msg]
    <3>1. Ring = [x \in Mailboxes |-> Ring[x]] /\ Ring' = [x \in Mailboxes |-> Ring'[x]]
      BY DEF Ring
    <3>. QED
      BY <2>2, <2>3, <3>1
  <2>5. Len(Ring[b]) + Len(msg) <= MAX_MBOX_LENGTH - 1
    <3>1. Len(msg) \in Nat /\ MAX_MBOX_LENGTH \in Nat
      BY MailboxAssumption, LenProperties
    <3>2. /\ Used(b) \in Nat /\ Room(b) = MAX_MBOX_LENGTH - 1 - Used(b)
          /\ Len(Ring[b]) = Used(b)
      BY <1>1, RoomIsLeft, RingBytes
    <3>. QED
      BY <1>4, <3>1, <3>2
  <2>. QED
    BY <2>1, <2>4, <2>5 DEF Abstract!Send
<1>. QED
  BY <1>3, <1>4, SendPuts DEF do_mbox_send

LEMMA RecvIsTake ==
  ASSUME MailboxInv, NEW t \in Tasks, NEW b \in Mailboxes, NEW n \in Lengths,
         do_mbox_recv(t, b, n)
  PROVE  Abstract!Receive(b, n) \/ UNCHANGED <<Ring, delivered>>
<1>1. MboxTypeOK /\ n \in Nat
  BY MailboxAssumption DEF MailboxInv
<1>2. MboxTypeOK'
  BY RecvBlocks, RecvTakes DEF do_mbox_recv, MailboxInv
<1>3. CASE UNCHANGED begin /\ UNCHANGED delivered
  <2>1. \A x \in Mailboxes : Ring'[x] = Ring[x]
    BY <1>3, RingKept DEF do_mbox_recv
  <2>2. Ring' = [x \in Mailboxes |-> Ring[x]] /\ Ring = [x \in Mailboxes |-> Ring[x]]
    BY <2>1, RingBecomes DEF Ring
  <2>. QED
    BY <1>3, <2>2
<1>4. CASE /\ n <= Used(b)
           /\ delivered' = data_out_mbox(b, n)
           /\ begin' = [begin EXCEPT ![b] = (@ + n) % MAX_MBOX_LENGTH]
           /\ Used(b)' = Used(b) - n
  <2>1. UNCHANGED <<end, data>>
    BY DEF do_mbox_recv
  <2>2. /\ delivered' = SubSeq(Ring[b], 1, n)
        /\ Ring'[b] = SubSeq(Ring[b], n + 1, Len(Ring[b]))
    BY <1>1, <1>2, <1>4, <2>1, TakesFront
  <2>3. ASSUME NEW x \in Mailboxes, x # b PROVE Ring'[x] = Ring[x]
    <3>1. begin'[x] = begin[x]
      BY <1>1, <1>4, <2>3 DEF MboxTypeOK
    <3>. QED
      BY <2>1, <3>1, RingKept
  <2>4. Ring' = [Ring EXCEPT ![b] = SubSeq(@, n + 1, Len(@))]
    <3>1. Ring = [x \in Mailboxes |-> Ring[x]] /\ Ring' = [x \in Mailboxes |-> Ring'[x]]
      BY DEF Ring
    <3>. QED
      BY <2>2, <2>3, <3>1
  <2>5. n <= Len(Ring[b])
    BY <1>1, <1>4, RingBytes
  <2>. QED
    BY <2>2, <2>4, <2>5 DEF Abstract!Receive
<1>. QED
  BY <1>3, <1>4, RecvTakes DEF do_mbox_recv

LEMMA CloseClears ==
  ASSUME MailboxInv, NEW t \in Tasks, NEW b \in Mailboxes, do_mbox_close(t, b)
  PROVE  Abstract!Clear({b}) \/ UNCHANGED <<Ring, delivered>>
<1>1. MboxTypeOK /\ MboxTypeOK'
  BY Closes DEF MailboxInv
<1>2. CASE UNCHANGED <<begin, end, data>>
  <2>1. Ring' = Ring
    BY <1>2 DEF Ring, Used
  <2>. QED
    BY <2>1 DEF do_mbox_close
<1>3. CASE /\ data' = [data EXCEPT ![b][0] = 0]
           /\ begin' = [begin EXCEPT ![b] = 0]
           /\ end' = [end EXCEPT ![b] = 0]
  <2>1. Ring'[b] = <<>>
    <3>1. begin'[b] = 0 /\ end'[b] = 0
      BY <1>1, <1>3 DEF MboxTypeOK
    <3>. QED
      BY <1>1, <3>1, RingReset
  <2>2. ASSUME NEW x \in Mailboxes, x # b PROVE Ring'[x] = Ring[x]
    <3>1. begin'[x] = begin[x] /\ end'[x] = end[x] /\ data'[x] = data[x]
      BY <1>1, <1>3, <2>2 DEF MboxTypeOK
    <3>. QED
      BY <3>1, RingKept
  <2>. DEFINE R == [x \in Mailboxes |-> IF x \in {b} THEN <<>> ELSE Ring[x]]
  <2>3. Ring' = R
    <3>1. \A x \in Mailboxes : Ring'[x] = R[x]
      BY <2>1, <2>2
    <3>2. Ring' = [x \in Mailboxes |-> Ring'[x]]
      BY DEF Ring
    <3>. QED
      BY <3>1, <3>2
  <2>. QED
    BY <2>3 DEF Abstract!Clear, do_mbox_close
<1>. QED
  BY <1>2, <1>3 DEF do_mbox_close

LEMMA DeathClears ==
  ASSUME MailboxInv, NEW t \in Tasks, pcb_clear(t)
  PROVE  Abstract!Clear(mbox_ocp[t])
<1>1. MboxTypeOK /\ MboxTypeOK'
  BY Clears DEF MailboxInv
<1>. DEFINE D == mbox_ocp[t]
<1>2. /\ begin' = [b \in Mailboxes |-> IF b \in D THEN 0 ELSE begin[b]]
      /\ end' = [b \in Mailboxes |-> IF b \in D THEN 0 ELSE end[b]]
      /\ data' = [b \in Mailboxes |-> IF b \in D THEN [data[b] EXCEPT ![0] = 0] ELSE data[b]]
      /\ UNCHANGED delivered
  BY DEF pcb_clear
<1>. HIDE DEF D
<1>3. ASSUME NEW x \in Mailboxes PROVE Ring'[x] = IF x \in D THEN <<>> ELSE Ring[x]
  <2>1. CASE x \in D
    <3>1. begin'[x] = 0 /\ end'[x] = 0
      BY <1>2, <2>1
    <3>. QED
      BY <1>1, <2>1, <3>1, RingReset
  <2>2. CASE x \notin D
    <3>1. begin'[x] = begin[x] /\ end'[x] = end[x] /\ data'[x] = data[x]
      BY <1>2, <2>2
    <3>. QED
      BY <2>2, <3>1, RingKept
  <2>. QED
    BY <2>1, <2>2
<1>4. Ring' = [x \in Mailboxes |-> IF x \in D THEN <<>> ELSE Ring[x]]
  <2>1. Ring' = [x \in Mailboxes |-> Ring'[x]]
    BY DEF Ring
  <2>. QED
    BY <1>3, <2>1
<1>. QED
  BY <1>2, <1>4 DEF Abstract!Clear, D

LEMMA PipeInitially == MailboxInit => Abstract!PipeInit
<1>. SUFFICES ASSUME MailboxInit PROVE Abstract!PipeInit
  OBVIOUS
<1>1. MboxTypeOK
  BY MboxInitially DEF MailboxInv
<1>2. ASSUME NEW b \in Mailboxes PROVE Ring[b] = <<>>
  <2>1. Used(b) = 0
    BY DEF MailboxInit, Used
  <2>2. Ring[b] \in Seq(Nat) /\ Len(Ring[b]) = 0
    BY <1>1, <2>1, RingBytes
  <2>. QED
    BY <2>2, EmptySeq
<1>3. Ring = [b \in Mailboxes |-> <<>>]
  <2>1. Ring = [b \in Mailboxes |-> Ring[b]]
    BY DEF Ring
  <2>. QED
    BY <1>2, <2>1
<1>. QED
  BY <1>3 DEF MailboxInit, Abstract!PipeInit

LEMMA PipeStep ==
  MailboxInv /\ [MailboxNext]_mboxVars => [Abstract!PipeNext]_<<Ring, delivered>>
<1>. SUFFICES ASSUME MailboxInv, [MailboxNext]_mboxVars
     PROVE  Abstract!PipeNext \/ UNCHANGED <<Ring, delivered>>
  OBVIOUS
<1>1. ASSUME NEW t \in Tasks, NEW n \in Names, do_mbox_open(t, n)
      PROVE  UNCHANGED <<Ring, delivered>>
  BY <1>1 DEF do_mbox_open, Ring, Used
<1>2. ASSUME NEW t \in Tasks, NEW b \in Mailboxes, do_mbox_close(t, b)
      PROVE  Abstract!PipeNext \/ UNCHANGED <<Ring, delivered>>
  <2>1. {b} \in SUBSET Mailboxes
    OBVIOUS
  <2>. QED
    BY <1>2, <2>1, CloseClears DEF Abstract!PipeNext
<1>3. ASSUME NEW t \in Tasks, NEW b \in Mailboxes, NEW msg \in Messages,
             do_mbox_send(t, b, msg)
      PROVE  Abstract!PipeNext \/ UNCHANGED <<Ring, delivered>>
  BY <1>3, SendIsPut DEF Abstract!PipeNext
<1>4. ASSUME NEW t \in Tasks, NEW b \in Mailboxes, NEW n \in Lengths, do_mbox_recv(t, b, n)
      PROVE  Abstract!PipeNext \/ UNCHANGED <<Ring, delivered>>
  BY <1>4, RecvIsTake DEF Abstract!PipeNext
<1>5. ASSUME NEW t \in Tasks, pcb_clear(t) PROVE Abstract!PipeNext
  <2>1. mbox_ocp[t] \in SUBSET Mailboxes
    BY DEF MailboxInv, MboxTypeOK
  <2>. QED
    BY <1>5, <2>1, DeathClears DEF Abstract!PipeNext
<1>6. CASE UNCHANGED mboxVars
  BY <1>6 DEF mboxVars, Ring, Used
<1>. QED
  BY <1>1, <1>2, <1>3, <1>4, <1>5, <1>6 DEF MailboxNext, Stuck

\* The rings of bytes that do_mbox_send and do_mbox_recv copy into and out of, in two
\* parts where they wrap, implement pipes: bytes come out in the order they went in.
THEOREM RingsArePipes == MailboxSpec => PipeHolds
<1>1. MailboxInit => Abstract!PipeInit
  BY PipeInitially
<1>2. MailboxInv /\ [MailboxNext]_mboxVars => [Abstract!PipeNext]_<<Ring, delivered>>
  BY PipeStep
<1>. QED
  BY <1>1, <1>2, MailboxInvariant, PTL DEF MailboxSpec, PipeHolds, Abstract!PipeSpec
=============================================================================
