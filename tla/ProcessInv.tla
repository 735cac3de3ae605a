------------------------------ MODULE ProcessInv ------------------------------
(***************************************************************************)
(* The inductive invariant behind OnePlace, StatusOfList, NoLostTask and   *)
(* NoOrphanedWaiter of module Process.  Those four say where a PCB may be; *)
(* to carry them through exit and kill one has to know besides which       *)
(* process is being cleared, by whom, and that its pid is its own.         *)
(***************************************************************************)
EXTENDS Process

Has(q, p) == Contains(queue[q], p)
Clearing  == kernel.op \in {"pcb_clear", "destroy_ipc"}
Exiting   == Clearing /\ kernel.then = "exit"

\* A PCB is linked into at most one list, once, and its status says which.
LinkedOnce ==
  /\ \A q \in Queues : IsInjective(queue[q])
  /\ \A q, r \in Queues, p \in Slots : Has(q, p) /\ Has(r, p) => q = r
LinkedByStatus == \A q \in Queues, p \in Slots : Has(q, p) => q \in ListsOf(status[p])

\* A live PCB is linked or runs, and a running one runs on one CPU only.
Somewhere  == \A p \in Slots : Live(p) => \/ \E q \in Queues : Has(q, p)
                                          \/ \E c \in Cpus : Runs(c, p)
RunsAlone  == \A p \in Slots : \A c, d \in Cpus : Runs(c, p) /\ Runs(d, p) => c = d
RunsNoList == \A p \in Slots, c \in Cpus : Runs(c, p) => \A q \in Queues : ~Has(q, p)
RunsLive   == \A p \in Slots, c \in Cpus :
                Runs(c, p) => status[p] = "RUNNING" \/ (~Live(p) /\ Exiting /\ kernel.cpu = c)

\* The lists of dead PCBs and of free IPC objects are empty.
NoWaiters  == \A p, w \in Slots : ~Live(p) => ~Has(Wait(p), w)
NoBlockers == \A b \in BlockQueues, w \in Slots : owner[b] = 0 => ~Has(Block(b), w)

\* Live processes have pids of their own, below the next one to be given.
OwnPids    == \A p, q \in Slots : Live(p) /\ Live(q) /\ pid[p] = pid[q] => p = q
OldPids    == \A p \in Slots : pid[p] < process_id

\* leave_task runs for the caller's process, or for one that runs on no CPU.
ClearsCaller == Exiting =>
  Me(kernel.cpu) # Idle /\ pid[Me(kernel.cpu)] = kernel.pid
ClearsOther  == Clearing /\ ~Exiting =>
  \A c \in Cpus : Me(c) # Idle => pid[Me(c)] # kernel.pid

Placed ==
  /\ LinkedOnce /\ LinkedByStatus
  /\ Somewhere /\ RunsAlone /\ RunsNoList /\ RunsLive
  /\ NoWaiters /\ NoBlockers
  /\ ClearsCaller /\ ClearsOther

\* Without threads leave_task clears one PCB, and never meets an unlinked one.
ClearsSelf  == Exiting => ToClear \subseteq {Me(kernel.cpu)}
NeverFaults == kernel.op # "fault"

PlaceInv ==
  /\ Placed
  /\ OwnPids /\ OldPids
  /\ ClearsSelf /\ NeverFaults

-----------------------------------------------------------------------------
(* Behind RunTasksExact, SleepNotCutShort and the threads.                  *)

\* run_tasks has the live PCBs, each once, while no process is cleared; from the time
\* that one is until leave_task drops it, run_tasks has it besides.
ClearsVictim(v) ==
  /\ pid[v] = kernel.pid
  /\ \A p \in Slots : Live(p) /\ pid[p] = kernel.pid => p = v
  /\ \A p \in Slots : Contains(run_tasks, p) <=> Live(p) \/ p = v
RunListInv ==
  /\ \A p \in Slots : tid[p] = 0
  /\ IsInjective(run_tasks)
  /\ ~Clearing => \A p \in Slots : Contains(run_tasks, p) <=> Live(p)
  /\ Clearing => \E v \in Slots : ClearsVictim(v)

\* A CPU that runs on in a system call runs a task.
Resumes == kernel.op = "resume" => Me(kernel.cpu) # Idle

\* A task on its way to the sleep queue has a time to wake up that has not come.
SleepsLater ==
  kernel.op = "check_sleeping" /\ kernel.then = "sleep" => Me(kernel.cpu) \notin expired
=============================================================================
