------------------------------ MODULE MCProcess ------------------------------
EXTENDS ProcessInv
=============================================================================
