-------------------------------- MODULE MCSync --------------------------------
EXTENDS Sync

CONSTANTS t1, t2, t3

\* Three processes, or two of which the first has a thread.
MCFamilies == {[t \in Tasks |-> t], [t \in Tasks |-> IF t = t2 THEN t1 ELSE t]}
=============================================================================
