------------------------------- MODULE MCThread -------------------------------
EXTENDS Thread
=============================================================================
