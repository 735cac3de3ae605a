------------------------------ MODULE ThreadInv ------------------------------
(***************************************************************************)
(* The inductive invariants behind ThreadsPlaced, ThreadHasMain and        *)
(* JoinReapsExited of module Thread.  Placed of ProcessInv holds with      *)
(* threads as well, until the kernel is lost.  The other two are about     *)
(* the pids that main and child threads share, and about what a task that  *)
(* was switched out in do_thread_join is still owed.                       *)
(***************************************************************************)
EXTENDS Thread, ProcessInv

\* do_thread_yield has mixed up two PCBs, or pcb_clear or do_thread_join has met a
\* PCB that it cannot unlink.
Lost == kernel.op \in {"corrupt", "fault"}

StaysPlaced == ~Lost => Placed

\* leave_task is taking the process of p away.
Dying(p) == Clearing /\ pid[p] = kernel.pid

\* A process has one main thread, whose children live no longer than it does.
MainPids  == \A p, q \in Mains : pid[p] = pid[q] => p = q
HaveMains == \A p \in Slots : Live(p) /\ ~Dying(p) => \E m \in Mains : pid[m] = pid[p]

\* Only main threads join.  The one that w looks for is a child; the one that w
\* has found is a child of its process that still owes it the wake-up, or has exited.
Finders == \A w \in Slots, t \in 0 .. NUM_MAX_TASK :
  Live(w) /\ context[w] = Find(t) => tid[w] = 0 /\ t # 0
Owed(w, p) ==
  /\ tid[w] = 0 /\ tid[p] # 0 /\ pid[p] = pid[w] /\ Live(p)
  /\ Has(Wait(p), w) \/ status[p] = "EXITED"
Joiners == \A w, p \in Slots :
  Live(w) /\ ~Dying(w) /\ context[w] = Reap(p) => Owed(w, p)

Family == MainPids /\ OldPids /\ HaveMains /\ Finders /\ Joiners

FamilyInv == ~Lost => Family /\ Resumes

\* run_tasks has the main threads, each once; from the time that a process is to be
\* cleared until leave_task drops it, its main thread, dead or alive, besides.
MainVictim(v) ==
  /\ pid[v] = kernel.pid
  /\ \A p \in Mains : pid[p] = kernel.pid => p = v
  /\ \A p \in Slots : Contains(run_tasks, p) <=> p \in Mains \/ p = v
MainsListed == ~Lost =>
  /\ IsInjective(run_tasks)
  /\ ~Clearing => \A p \in Slots : Contains(run_tasks, p) <=> p \in Mains
  /\ Clearing => \E v \in Slots : MainVictim(v)
=============================================================================
