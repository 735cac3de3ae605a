------------------------------- MODULE StreamInv -------------------------------
(***************************************************************************)
(* The inductive invariant behind the properties of module RecvStream: the *)
(* list of empty spaces, the segments that it still wants, and the bytes   *)
(* of the buffer.                                                          *)
(***************************************************************************)
EXTENDS RecvStream

Spaces == [base : Nat, size : Nat]

StreamTypeOK ==
  /\ pc \in {"user", "poll", "blocked", "ready", "done"}
  /\ max_bytes \in BufferSizes /\ data_size \in {-1, Size} /\ first_recv \in BOOLEAN
  /\ empty_buf \in Seq(Spaces) /\ buffer \in [Bytes -> Int \cup {None}]
  /\ result \in {None, 0, -1}
  /\ rx_ring \in Seq(Segments \cup {None}) /\ net \subseteq Segments
  /\ resp \in [{"ACK", "RSD"} -> 0 .. Size \cup {None}] /\ repeated \in BOOLEAN

\* Where a call is: it goes on as long as the size is unknown or a space is empty.
CallOK ==
  /\ pc = "user" => data_size = -1 /\ empty_buf = <<>> /\ \A i \in Bytes : buffer[i] = None
  /\ pc # "done" => result = None
  /\ pc \in {"poll", "blocked", "ready"} /\ data_size # -1 => empty_buf # <<>>
  /\ result = 0 => data_size # -1 /\ empty_buf = <<>>
  /\ result = -1 => Size > max_bytes
  /\ data_size # -1 /\ result # -1 => Size <= max_bytes

\* The spaces of a list are in order, apart and not empty.
InOrder(spaces) ==
  /\ \A k \in 1 .. Len(spaces) : spaces[k].size > 0
  /\ \A j, k \in 1 .. Len(spaces) :
       j < k => spaces[j].base + spaces[j].size <= spaces[k].base

\* The n bytes from b are all in one space.
Whole(spaces, b, n) == \E k \in 1 .. Len(spaces) :
                         spaces[k].base <= b /\ b + n <= spaces[k].base + spaces[k].size

\* Where the spaces end, as far as the call knows.
Limit == IF data_size # -1 /\ result # -1 THEN Size ELSE max_bytes

\* A segment is wanted as a whole or not at all, and so are the bytes behind the file
\* until its size is known.
SpacesFit ==
  /\ InOrder(empty_buf) /\ Missing \subseteq 0 .. Limit - 1
  /\ pc # "user" /\ Size <= max_bytes =>
       /\ \A s \in Segments : \/ Whole(empty_buf, s.seq, s.len)
                              \/ \A i \in s.seq .. s.seq + s.len - 1 : i \notin Missing
       /\ data_size = -1 /\ Size < max_bytes => Whole(empty_buf, Size, max_bytes - Size)

\* The bytes that are no longer wanted have been copied, and no others.
Copied ==
  pc # "user" =>
    \A i \in Bytes : i < max_bytes =>
      /\ i \notin Missing => buffer[i] # None
      /\ i \in Missing /\ Size <= max_bytes => buffer[i] = None

RecvStreamInv ==
  /\ StreamTypeOK /\ CallOK /\ SpacesFit /\ Copied /\ DataIntact /\ ResponseCovered
=============================================================================
