------------------------------ MODULE RecvStream ------------------------------
(***************************************************************************)
(* do_net_recv_stream (kernel/net/net.c): a process receives a file whose  *)
(* segments the network loses, repeats and reorders.  A list of the spaces *)
(* still empty says which bytes are missing; ACK n and RSD n tell the      *)
(* sender that all before n is there, and RSD asks for the rest again.     *)
(* The sender and the network are not part of the repository.              *)
(***************************************************************************)
EXTENDS Integers, SequencesExt

CONSTANTS
  Size, Segments,       \* the bytes of the file, and how the sender cuts it up
  BufferSizes,          \* the values *nbytes may have in the call
  RXDESCS,              \* descriptors of the receive ring; one is never used
  MaxFaults,            \* bound: strange packets, and packets that come twice or are taken
  None

\* The sender cuts the file once: every byte is in one segment.
ASSUME SegmentsAssumption ==
  /\ Size \in Nat \ {0} /\ BufferSizes \subseteq Nat \ {0}
  /\ Segments \subseteq [seq : Nat, len : Nat \ {0}]
  /\ \A i \in 0 .. Size - 1 : \E s \in Segments : i \in s.seq .. s.seq + s.len - 1
  /\ \A s \in Segments : s.seq + s.len <= Size
  /\ \A s, r \in Segments : s = r \/ s.seq + s.len <= r.seq \/ r.seq + r.len <= s.seq
  /\ None \notin Int \cup Segments /\ RXDESCS \in Nat

VARIABLES
  pc,           \* where the receiver is: user, poll, blocked, ready or done
  max_bytes, data_size, first_recv, empty_buf,  \* locals of the call
  buffer,       \* for each byte of the buffer, which byte of the file it holds
  result,       \* what the call returned
  rx_ring,      \* the packets that were received and not polled
  ims, icr,     \* whether the interrupt RXDMT0 is enabled, and whether its cause is set
  net, resp,    \* segments on their way, and the last response of each type
  repeated,     \* history: the first segment was polled again
  rx_stale,     \* history: packets were dropped, see E1000
  faults

callVars == <<max_bytes, data_size, first_recv, empty_buf, buffer, result, repeated>>
cardVars == <<rx_ring, ims, icr, rx_stale, faults>>
vars == <<pc, callVars, cardVars, net, resp>>

Bytes == 0 .. Size - 1
Span(x) == x.base .. x.base + x.size - 1
HeaderLen == 4          \* the file's size, in front of its first segment
HasRoom == Len(rx_ring) < RXDESCS - 1

StreamInit ==
  /\ pc = "user" /\ max_bytes \in BufferSizes
  /\ data_size = -1 /\ first_recv = TRUE
  /\ empty_buf = <<>>
  /\ buffer = [i \in Bytes |-> None]
  /\ result = None
  /\ rx_ring = <<>> /\ ims = TRUE /\ icr = FALSE
  /\ net = Segments /\ resp = [ACK |-> None, RSD |-> None]
  /\ repeated = FALSE /\ rx_stale = FALSE /\ faults = 0

-----------------------------------------------------------------------------
\* The list of empty spaces.

\* The bytes from base up to end, if there are any.
Space(base, end) == IF base = end THEN <<>> ELSE <<[base |-> base, size |-> end - base]>>

\* The last of the spaces, from the front, that begin at offset or before; 0 if the
\* first begins behind it.
SpaceAt(spaces, offset) ==
  CHOOSE k \in 0 .. Len(spaces) :
    /\ \A i \in 1 .. k : spaces[i].base <= offset
    /\ k < Len(spaces) => spaces[k + 1].base > offset

\* Defect: the space behind the segment is forgotten.
occupy_space_tail(spaces, offset, size) ==
  LET k   == SpaceAt(spaces, offset)
      end == spaces[k].base + spaces[k].size
  IN IF k = 0 \/ size = 0 \/ end < offset + size THEN spaces
     ELSE SubSeq(spaces, 1, k - 1) \o Space(spaces[k].base, offset)
          \o SubSeq(spaces, k + 1, Len(spaces))

\* The space that the segment lies in is split in two, and what is empty of them
\* is removed.  A segment that is not all in one space changes nothing.
occupy_space(spaces, offset, size) ==
  LET k   == SpaceAt(spaces, offset)
      end == spaces[k].base + spaces[k].size
  IN IF k = 0 \/ size = 0 \/ end < offset + size THEN spaces
     ELSE SubSeq(spaces, 1, k - 1)
          \o (Space(spaces[k].base, offset) \o Space(offset + size, end))
          \o SubSeq(spaces, k + 1, Len(spaces))

-----------------------------------------------------------------------------
\* The receiver.

\* Defect: the response names the end of the first space.
send_resp_end(type) ==
  resp' = IF first_recv THEN resp
          ELSE [resp EXCEPT ![type] = IF data_size = -1 THEN 0
                 ELSE Head(empty_buf).base + Head(empty_buf).size]

\* A response carries the headers of the first packet that came: before that it
\* reaches nobody.  It names the first byte that is missing.
send_resp_pkt(type) ==
  resp' = IF first_recv THEN resp
          ELSE [resp EXCEPT ![type] =
                  IF data_size = -1 THEN 0 ELSE Head(empty_buf).base]

call(n) ==
  /\ pc = "user" /\ n = max_bytes
  /\ pc' = "poll"
  /\ empty_buf' = <<[base |-> 0, size |-> n]>>
  /\ UNCHANGED <<max_bytes, data_size, first_recv, buffer, result, repeated,
                 cardVars, net, resp>>

\* Defect: every segment is copied from behind the header.
CopySegment_plain(s, skip) ==
  buffer' = [i \in Bytes |-> IF i \in s.seq .. s.seq + s.len - 1
                             THEN IF s.seq = 0 THEN i - HeaderLen ELSE i
                             ELSE buffer[i]]

\* Copies the segment from the packet, `skip' bytes behind the protocol's header.
CopySegment(s, skip) ==
  LET first == IF s.seq = 0 THEN skip - HeaderLen ELSE s.seq + skip
  IN buffer' = [i \in Bytes |-> IF i \in s.seq .. s.seq + s.len - 1
                                THEN first + i - s.seq ELSE buffer[i]]

\* The loop is left when the size is known and no space is empty.
Finish ==
  IF data_size' # -1 /\ empty_buf' = <<>>
  THEN /\ pc' = "done" /\ result' = 0
       /\ ims' = TRUE
       /\ resp' = [resp EXCEPT !.ACK = data_size']
  ELSE UNCHANGED <<pc, result, ims, resp>>

\* Defect: a buffer that is just large enough is refused.
TooSmall_strict == Size >= max_bytes

TooSmall == Size > max_bytes

\* The first segment tells the size; the spaces behind it are not wanted.
PollFirst(s) ==
  /\ s.seq = 0 /\ data_size = -1
  /\ data_size' = Size
  /\ first_recv' = FALSE
  /\ \/ /\ TooSmall
        /\ pc' = "done" /\ result' = -1
        /\ UNCHANGED <<empty_buf, buffer, ims, resp>>
     \/ /\ ~TooSmall
        /\ empty_buf' = occupy_space(occupy_space(empty_buf, 0, s.len),
                                     Size, max_bytes - Size)
        /\ CopySegment(s, HeaderLen)
        /\ Finish
  /\ UNCHANGED repeated

PollOther(s) ==
  /\ s.seq # 0 \/ data_size # -1
  /\ empty_buf' = occupy_space(empty_buf, s.seq, s.len)
  /\ CopySegment(s, 0)
  /\ repeated' = (repeated \/ s.seq = 0)
  /\ first_recv' = FALSE
  /\ UNCHANGED data_size
  /\ Finish

\* e1000_poll takes a packet out of the ring; one that is no segment is skipped.
Poll ==
  /\ pc = "poll" /\ rx_ring # <<>>
  /\ LET p == Head(rx_ring) IN
       IF p = None THEN UNCHANGED <<pc, callVars, ims, resp>>
       ELSE (PollFirst(p) \/ PollOther(p)) /\ UNCHANGED max_bytes
  /\ rx_ring' = Tail(rx_ring)
  /\ UNCHANGED <<net, icr, rx_stale, faults>>

\* It finds none: the receiver acknowledges what it has and waits.
PollNone ==
  /\ pc = "poll" /\ rx_ring = <<>>
  /\ IF data_size # -1 THEN send_resp_pkt("ACK") ELSE UNCHANGED resp
  /\ ims' = TRUE
  /\ pc' = "blocked"
  /\ UNCHANGED <<callVars, rx_ring, icr, rx_stale, faults, net>>

\* Defect: the receiver that was woken in vain asks for nothing.
Resume_silent ==
  /\ pc = "ready"
  /\ pc' = "poll"
  /\ UNCHANGED <<resp, callVars, cardVars, net>>

\* Woken up, it asks for what is missing if there is still no packet.
Resume ==
  /\ pc = "ready"
  /\ pc' = "poll"
  /\ IF rx_ring = <<>> THEN send_resp_pkt("RSD") ELSE UNCHANGED resp
  /\ UNCHANGED <<callVars, cardVars, net>>

do_net_recv_stream == (\E n \in BufferSizes : call(n)) \/ Poll \/ PollNone \/ Resume

-----------------------------------------------------------------------------
\* Interrupts: the receiver is not in the kernel.

\* A tick of the timer once wakeup_time has come.
check_recv_stream ==
  /\ pc = "blocked"
  /\ pc' = "ready"
  /\ UNCHANGED <<callVars, cardVars, net, resp>>

\* Half of the ring is used.  With nobody waiting the packets are dropped, and
\* the tail is moved too far: E1000 has what becomes of the ring.
e1000_handle_rxdmt0 ==
  /\ ims /\ icr /\ pc # "poll"
  /\ icr' = FALSE
  /\ \/ /\ pc = "blocked" /\ pc' = "ready"
        /\ ims' = FALSE
        /\ UNCHANGED <<rx_ring, rx_stale>>
     \/ /\ pc # "blocked" /\ UNCHANGED <<pc, ims>>
        /\ rx_ring' = <<>> /\ rx_stale' = TRUE
  /\ UNCHANGED <<callVars, faults, net, resp>>

\* Another process calls do_net_recv; net_recv_lk is free.
OtherReceiver ==
  /\ pc # "poll" /\ rx_ring # <<>> /\ faults < MaxFaults
  /\ faults' = faults + 1
  /\ rx_ring' = Tail(rx_ring)
  /\ ims' = TRUE
  /\ UNCHANGED <<pc, callVars, icr, rx_stale, net, resp>>

-----------------------------------------------------------------------------
\* The network and the sender.

\* A loss shows only when the segment could have arrived.
Lose(s) ==
  /\ s \in net /\ HasRoom
  /\ net' = net \ {s}
  /\ UNCHANGED <<pc, callVars, cardVars, resp>>

\* The card receives a packet.  It reports when half of the ring is left to it,
\* and may report again below that.
IntoRing(p) ==
  LET free == RXDESCS - 1 - Len(rx_ring')
      half == RXDESCS \div 2
  IN /\ HasRoom
     /\ rx_ring' = Append(rx_ring, p)
     /\ \/ free <= half /\ icr' = TRUE
        \/ free # half /\ UNCHANGED icr
     /\ UNCHANGED <<pc, callVars, ims, rx_stale, resp>>

Arrive(s) ==
  /\ s \in net /\ net' = net \ {s}
  /\ IntoRing(s)
  /\ UNCHANGED faults

\* A segment will arrive once more, or a packet of another protocol comes.
ArriveStrange(p) ==
  /\ p \in net \cup {None} /\ faults < MaxFaults
  /\ faults' = faults + 1
  /\ IntoRing(p)
  /\ UNCHANGED net

\* RSD is lost, or the sender hears it and sends again from there on.
LoseResponse ==
  /\ resp.RSD # None /\ resp' = [resp EXCEPT !.RSD = None]
  /\ UNCHANGED <<pc, callVars, cardVars, net>>

Resend ==
  /\ resp.RSD # None /\ resp' = [resp EXCEPT !.RSD = None]
  /\ net' = net \cup {s \in Segments : s.seq >= resp.RSD}
  /\ UNCHANGED <<pc, callVars, cardVars>>

-----------------------------------------------------------------------------

Kernel == do_net_recv_stream \/ check_recv_stream \/ e1000_handle_rxdmt0
Network == LoseResponse \/ Resend \/ (\E s \in Segments : Lose(s) \/ Arrive(s))
           \/ \E p \in Segments \cup {None} : ArriveStrange(p)

\* What happens after the call has returned is not followed.
StreamNext == pc # "done" /\ (Kernel \/ OtherReceiver \/ Network)

StreamSpec == StreamInit /\ [][StreamNext]_vars

\* The scheduler runs the receiver and the timer ticks; what is sent again and
\* again gets through some time.
FairStreamSpec ==
  /\ StreamSpec
  /\ WF_vars(do_net_recv_stream) /\ WF_vars(check_recv_stream)
  /\ SF_vars(Resend)
  /\ \A s \in Segments : SF_vars(Arrive(s))

-----------------------------------------------------------------------------
\* Properties.

Missing == UNION {Span(empty_buf[k]) : k \in DOMAIN empty_buf}

\* occupy_space: whatever the order of the segments, the spaces are in order, apart
\* and not empty, and the bytes in none of them are the ones that have been copied
\* to the buffer (a buffer too small for the file also gets bytes copied that no
\* space accounts for).
SpacesExact ==
  (pc # "user" /\ result # -1) =>
    /\ \A k \in DOMAIN empty_buf : empty_buf[k].size > 0
    /\ \A j, k \in DOMAIN empty_buf :
         j < k => empty_buf[j].base + empty_buf[j].size <= empty_buf[k].base
    /\ \A i \in Bytes : i < max_bytes =>
         /\ i \notin Missing => buffer[i] # None
         /\ (i \in Missing /\ Size <= max_bytes) => buffer[i] = None

\* What the buffer holds is the file, each byte at its place; unless the first
\* segment came again, which is copied as if the size were not in front of it.
DataIntact ==
  ~repeated => \A i \in Bytes : buffer[i] \in {None, i}

\* A response never names a byte behind one that is missing: the sender may forget
\* all before it.
ResponseCovered ==
  \A type \in DOMAIN resp : resp[type] # None =>
    \A i \in 0 .. resp[type] - 1 : buffer[i] # None

\* The call returns 0 only with the whole file, and -1 only when the buffer is too
\* small.
ReturnsWhole ==
  /\ result = 0 => Size <= max_bytes /\ \A i \in Bytes : buffer[i] # None
  /\ result = -1 => Size > max_bytes

\* Once a packet has come the call returns: what is lost is asked for until it
\* comes.  Before the first packet the sender cannot be asked, and the packets that
\* the interrupt handler drops may stop the card.
StreamCompletes == ~first_recv ~> (pc = "done" \/ rx_stale)
=============================================================================
