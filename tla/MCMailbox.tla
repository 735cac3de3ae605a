------------------------------ MODULE MCMailbox ------------------------------
EXTENDS Mailbox

\* Messages and requests below and at the limits of the ring of MCMailbox.
MCMessages == {<<1>>, <<0, 1>>}
MCFullMessages == {<<1>>, <<1, 0, 1, 1>>}
MCLengths == {1, 2}
=============================================================================
