----------------------------- MODULE ThreadGroup -----------------------------
(***************************************************************************)
(* Which tasks are threads of one process: they have its pid, and tid 0 is *)
(* its main thread.  Threads are made before they use an object here.      *)
(***************************************************************************)
EXTENDS Waiting

CONSTANT Families       \* the ways the tasks may belong together, one of which is taken

ASSUME FamiliesAssumption ==
  \A f \in Families : f \in [Tasks -> Tasks] /\ \A t \in Tasks : f[f[t]] = f[t]

VARIABLE main           \* for each task the main thread of its process, which stands for the pid

ThreadGroupInit == main \in Families

IsThread(t) == main[t] # t

\* The tasks that leave_task clears when the process of t dies.
Process(t) == {u \in Tasks : main[u] = main[t] /\ Alive(u)}
=============================================================================
