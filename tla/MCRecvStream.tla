----------------------------- MODULE MCRecvStream -----------------------------
EXTENDS RecvStream

\* A file of five bytes in three segments.
MCSegments == {[seq |-> 0, len |-> 2], [seq |-> 2, len |-> 1], [seq |-> 3, len |-> 2]}
=============================================================================
