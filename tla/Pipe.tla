--------------------------------- MODULE Pipe ---------------------------------
(***************************************************************************)
(* What a mailbox promises: bytes come out in the order they went in, a    *)
(* message goes in as a whole, and nothing is lost until it is cleared.    *)
(***************************************************************************)
EXTENDS Naturals, Sequences

CONSTANTS Boxes, Capacity, Messages, Lengths

VARIABLES
  pending,      \* the bytes in each mailbox
  delivered     \* the bytes that the last receive got

PipeInit == pending = [b \in Boxes |-> <<>>] /\ delivered = <<>>

Send(b, msg) ==
  /\ Len(pending[b]) + Len(msg) <= Capacity
  /\ pending' = [pending EXCEPT ![b] = @ \o msg]
  /\ UNCHANGED delivered

Receive(b, n) ==
  /\ n <= Len(pending[b])
  /\ delivered' = SubSeq(pending[b], 1, n)
  /\ pending' = [pending EXCEPT ![b] = SubSeq(@, n + 1, Len(@))]

Clear(B) ==
  /\ pending' = [b \in Boxes |-> IF b \in B THEN <<>> ELSE pending[b]]
  /\ UNCHANGED delivered

PipeNext ==
  \/ \E b \in Boxes : (\E msg \in Messages : Send(b, msg)) \/ (\E n \in Lengths : Receive(b, n))
  \/ \E B \in SUBSET Boxes : Clear(B)

PipeSpec == PipeInit /\ [][PipeNext]_<<pending, delivered>>
=============================================================================
