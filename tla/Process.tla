------------------------------- MODULE Process -------------------------------
(***************************************************************************)
(* Process management (kernel/syscall/proc_mod.c, proc_set.c and init_pcb  *)
(* of init/main.c): the system calls that create, end, wait for and pin    *)
(* processes, over the scheduler of module Sched.  Threads are added by    *)
(* module Thread.                                                          *)
(***************************************************************************)
EXTENDS Sched

CONSTANT Calls      \* the system calls that user programs make

Me(c)    == current_running[c]
Live(p)  == status[p] # "ZOMBIE"
PidOf(x) == IF x = Idle THEN 0 ELSE pid[x]      \* pid0_pcb has pid 0
Zombies  == {p \in Slots : ~Live(p)}

\* The entry of S that a search from the start of an array finds.
IsFirst(x, S) == x \in S /\ \A y \in S : x <= y

\* After boot (init/main.c): both CPUs idle, the shell in slot 0 with pid 1.
Init ==
  /\ kernel = InUser
  /\ current_running = [c \in Cpus |-> Idle]
  /\ status = [p \in Slots |-> IF p = 0 THEN "READY" ELSE "ZOMBIE"]
  /\ pid = [p \in Slots |-> IF p = 0 THEN 1 ELSE 0]
  /\ tid = [p \in Slots |-> 0]
  /\ child_t_num = [p \in Slots |-> 0]
  /\ core_mask = [p \in Slots |-> Cpus]
  /\ to_kill = [p \in Slots |-> FALSE]
  /\ context = [p \in Slots |-> ToUser]
  /\ queue = [q \in Queues |-> IF q = Ready THEN <<0>> ELSE <<>>]
  /\ run_tasks = <<0>>
  /\ process_id = 2
  /\ expired = {}
  /\ owner = [b \in BlockQueues |-> 0]

-----------------------------------------------------------------------------
(* Creation.                                                                *)

\* init_pcb for a new program and do_fork for a copy of the caller: the first
\* zombie PCB becomes a ready process with a fresh pid and a mask.  Without a
\* zombie PCB the assertion stops the whole kernel.
new_process(c, mask) ==
  /\ process_id <= MaxPid
  /\ \/ /\ Zombies = {}
        /\ kernel' = At("panic", c)
        /\ UNCHANGED <<status, identity, to_kill, context, queue, run_tasks,
                       process_id>>
     \/ /\ \E p \in Slots :
             /\ IsFirst(p, Zombies)
             /\ status' = [status EXCEPT ![p] = "READY"]
             /\ pid' = [pid EXCEPT ![p] = process_id]
             /\ tid' = [tid EXCEPT ![p] = 0]
             /\ child_t_num' = [child_t_num EXCEPT ![p] = 0]
             /\ core_mask' = [core_mask EXCEPT ![p] = mask]
             /\ to_kill' = [to_kill EXCEPT ![p] = FALSE]
             /\ context' = [context EXCEPT ![p] = ToUser]
             /\ queue' = [list_add_tail(queue, Ready, p)
                            EXCEPT ![Wait(p)] = <<>>]
             /\ run_tasks' = Append(run_tasks, p)
        /\ process_id' = process_id + 1
        /\ UNCHANGED kernel
  /\ UNCHANGED <<current_running, expired, owner>>

do_exec(c) ==
  /\ "exec" \in Calls /\ Syscall(c)
  /\ new_process(c, core_mask[Me(c)])

\* Only the main thread may fork: the assertion stops the kernel otherwise.
do_fork(c) ==
  /\ "fork" \in Calls /\ Syscall(c)
  /\ \/ tid[Me(c)] = 0 /\ new_process(c, core_mask[Me(c)])
     \/ /\ tid[Me(c)] # 0
        /\ kernel' = At("panic", c)
        /\ UNCHANGED <<current_running, status, identity, to_kill, context,
                       queue, run_tasks, process_id, expired, owner>>

-----------------------------------------------------------------------------
(* The end of a process: leave_task, pcb_clear and their callers.           *)

\* Defect: only the main thread is cleared.
ToClear_main == {p \in Slots : pid[p] = kernel.pid /\ Live(p) /\ tid[p] = 0}

\* The PCBs that leave_task still has to clear.
ToClear == {p \in Slots : pid[p] = kernel.pid /\ Live(p)}

\* pcb_clear, for the next PCB of the process: it becomes a zombie, is unlinked
\* unless it is the caller itself, and the tasks waiting for it become ready.
\* list_del of a node that is in no list (the PCB runs on the other CPU) writes
\* through a null pointer, inside the kernel and with giant_lock held.
pcb_clear(c) ==
  /\ In("pcb_clear", c)
  /\ \E p \in Slots :
       /\ IsFirst(p, ToClear)
       /\ LET Q == IF p = Me(c) THEN queue ELSE list_del(queue, p)
          IN \/ /\ p # Me(c) /\ ~Linked(p)
                /\ kernel' = At("fault", c)
                /\ status' = [status EXCEPT ![p] = "ZOMBIE"]
                /\ UNCHANGED queue
             \/ /\ p = Me(c) \/ Linked(p)
                /\ status' = [made_ready(Q[Wait(p)]) EXCEPT ![p] = "ZOMBIE"]
                /\ queue' = unblock_list(Q, Wait(p))
                /\ kernel' = [kernel EXCEPT !.op = "destroy_ipc"]
  /\ UNCHANGED <<current_running, identity, to_kill, context, run_tasks,
                 process_id, expired, owner>>

\* Defect: the block queue is reset with tasks in it.
destroy_reset(b) ==
  /\ queue' = [queue EXCEPT ![Block(b)] = <<>>]
  /\ owner' = [owner EXCEPT ![b] = 0]
  /\ UNCHANGED status

\* The rest of pcb_clear: the barriers and semaphores of the process are
\* destroyed one after the other, and the tasks blocked on them become ready.
destroy(b) ==
  /\ status' = made_ready(queue[Block(b)])
  /\ queue' = unblock_list(queue, Block(b))
  /\ owner' = [owner EXCEPT ![b] = 0]

destroy_ipc(c) ==
  /\ In("destroy_ipc", c)
  /\ LET mine == {b \in BlockQueues : owner[b] = kernel.pid}
     IN \/ \E b \in mine : IsFirst(b, mine) /\ destroy(b) /\ UNCHANGED kernel
        \/ /\ mine = {}
           /\ kernel' = [kernel EXCEPT !.op = "pcb_clear"]
           /\ UNCHANGED <<status, queue, owner>>
  /\ UNCHANGED <<current_running, identity, to_kill, context, run_tasks,
                 process_id, expired>>

\* Defect: the last entry is dropped, whichever process it is.
leave_task_last(c) ==
  /\ In("pcb_clear", c)
  /\ ToClear = {}
  /\ run_tasks' = Front(run_tasks)
  /\ kernel' = IF kernel.then = "exit" THEN At("exec_next_task", c) ELSE InUser
  /\ UNCHANGED <<current_running, status, identity, to_kill, context, queue,
                 process_id, expired, owner>>

\* The end of leave_task: the process leaves run_tasks, do_exit goes on to
\* exec_next_task and do_kill returns.
leave_task(c) ==
  /\ In("pcb_clear", c)
  /\ ToClear = {}
  /\ \E i \in DOMAIN run_tasks :
       /\ pid[run_tasks[i]] = kernel.pid
       /\ \A j \in 1 .. i-1 : pid[run_tasks[j]] # kernel.pid
       /\ run_tasks' = RemoveAt(run_tasks, i)
  /\ kernel' = IF kernel.then = "exit" THEN At("exec_next_task", c) ELSE InUser
  /\ UNCHANGED <<current_running, status, identity, to_kill, context, queue,
                 process_id, expired, owner>>

do_exit(c) ==
  /\ "exit" \in Calls /\ Syscall(c)
  /\ kernel' = Leave(c, pid[Me(c)], "exit")
  /\ UNCHANGED <<current_running, status, identity, to_kill, context, queue,
                 run_tasks, process_id, expired, owner>>

\* Defect: nobody looks at what the other CPU runs.
do_kill_running(c, k) ==
  /\ "kill" \in Calls /\ Syscall(c)
  /\ k > 1
  /\ pid[Me(c)] # k
  /\ \E p \in Slots : pid[p] = k /\ Live(p)
  /\ kernel' = Leave(c, k, "kill")
  /\ UNCHANGED <<current_running, status, identity, to_kill, context, queue,
                 run_tasks, process_id, expired, owner>>

\* do_kill.  A victim on the other CPU is only marked, with every PCB that has
\* its pid.  A task that kills its own process calls do_exit, which spins on the
\* pcb_lk that do_kill holds.  Any other victim is cleared by the caller.
do_kill(c, k) ==
  /\ "kill" \in Calls /\ Syscall(c)
  /\ k > 1
  /\ \/ /\ PidOf(Me(1 - c)) = k
        /\ to_kill' = [p \in Slots |-> to_kill[p] \/ pid[p] = k]
        /\ UNCHANGED kernel
     \/ /\ PidOf(Me(1 - c)) # k
        /\ pid[Me(c)] = k
        /\ kernel' = At("spin", c)
        /\ UNCHANGED to_kill
     \/ /\ k \notin {PidOf(Me(0)), PidOf(Me(1))}
        /\ \E p \in Slots : pid[p] = k /\ Live(p)
        /\ kernel' = Leave(c, k, "kill")
        /\ UNCHANGED to_kill
  /\ UNCHANGED <<current_running, status, identity, context, queue, run_tasks,
                 process_id, expired, owner>>

-----------------------------------------------------------------------------
(* Waiting, pinning, and the life of IPC objects.                           *)

\* Defect: a dead PCB that still holds the pid is waited for.
do_waitpid_dead(c, k) ==
  /\ "waitpid" \in Calls /\ Syscall(c)
  /\ \E p \in Slots :
       /\ IsFirst(p, {x \in Slots : pid[x] = k /\ tid[x] = 0})
       /\ proc_schedule(c, Wait(p), "WAITING")
  /\ UNCHANGED <<current_running, identity, to_kill, context, run_tasks,
                 process_id, expired, owner>>

\* do_waitpid: the caller waits for the live main thread of process k.
do_waitpid(c, k) ==
  /\ "waitpid" \in Calls /\ Syscall(c)
  /\ \E p \in Slots :
       /\ IsFirst(p, {x \in Slots : Live(x) /\ pid[x] = k /\ tid[x] = 0})
       /\ proc_schedule(c, Wait(p), "WAITING")
  /\ UNCHANGED <<current_running, identity, to_kill, context, run_tasks,
                 process_id, expired, owner>>

\* do_taskset of a process, and of a program: then it calls do_exec first.
do_taskset_exec(c, m) ==
  /\ "taskset" \in Calls /\ Syscall(c)
  /\ new_process(c, m)

do_taskset(c, k, m) ==
  /\ "taskset" \in Calls /\ Syscall(c)
  /\ core_mask' = [p \in Slots |-> IF pid[p] = k /\ Live(p)
                                   THEN m ELSE core_mask[p]]
  /\ UNCHANGED <<kernel, current_running, status, pid, tid, child_t_num, to_kill,
                 context, queue, run_tasks, process_id, expired, owner>>

\* do_barrier_init, do_semaphore_init: the first free object is the caller's.
\* With none free the assertion holds, and the entry after the last is written.
ipc_init(c) ==
  /\ "ipc" \in Calls /\ Syscall(c)
  /\ \/ \E b \in BlockQueues :
          /\ IsFirst(b, {x \in BlockQueues : owner[x] = 0})
          /\ owner' = [owner EXCEPT ![b] = pid[Me(c)]]
          /\ queue' = [queue EXCEPT ![Block(b)] = <<>>]
          /\ UNCHANGED kernel
     \/ /\ \A b \in BlockQueues : owner[b] # 0
        /\ kernel' = At("corrupt", c)
        /\ UNCHANGED <<owner, queue>>
  /\ UNCHANGED <<current_running, status, identity, to_kill, context, run_tasks,
                 process_id, expired>>

\* do_barrier_destroy, do_semaphore_destroy as system calls.
ipc_destroy(c, b) ==
  /\ "ipc" \in Calls /\ Syscall(c)
  /\ destroy(b)
  /\ UNCHANGED <<kernel, current_running, identity, to_kill, context, run_tasks,
                 process_id, expired>>

-----------------------------------------------------------------------------

\* A lost kernel: the CPU inside never leaves, and the other one spins on
\* giant_lock at its next trap.
Hang == Halted /\ UNCHANGED vars

\* The kernel's own steps: what follows a trap until the CPU leaves the kernel.
KernelStep(c) ==
  \/ exec_next_task(c) \/ check_sleeping(c)
  \/ pcb_clear(c) \/ destroy_ipc(c) \/ leave_task(c)

SystemCall(c) ==
  \/ "sleep" \in Calls /\ do_sleep(c)
  \/ do_exec(c) \/ do_fork(c) \/ do_exit(c)
  \/ \E k \in 1 .. MaxPid : do_kill(c, k) \/ do_waitpid(c, k)
  \/ \E m \in Masks :
       do_taskset_exec(c, m) \/ \E k \in 1 .. MaxPid : do_taskset(c, k, m)
  \/ ipc_init(c)
  \/ \E b \in {x \in BlockQueues : owner[x] # 0} :
       ipc_destroy(c, b) \/ do_block(c, b) \/ do_unblock(c, b)

Next ==
  \/ \E c \in Cpus : do_scheduler(c) \/ SystemCall(c) \/ KernelStep(c)
  \/ \E p \in Slots : Expire(p)
  \/ Hang

Spec == Init /\ [][Next]_vars

\* A CPU inside the kernel goes on, the timer interrupt of each CPU recurs and
\* gets giant_lock in the end, and time passes for a sleeper (strong fairness
\* because Expire waits while check_sleeping reads the clock).
Fairness ==
  /\ \A c \in Cpus : WF_vars(KernelStep(c)) /\ SF_vars(do_scheduler(c))
  /\ \A p \in Slots : SF_vars(Expire(p))

FairSpec == Spec /\ Fairness

-----------------------------------------------------------------------------
(* Invariants.                                                              *)

\* The type of every variable; the PCB of the idle task is in no list.
TypeOK ==
  /\ kernel \in [op : Ops, cpu : Cpus, pid : 0 .. MaxPid, then : Thens]
  /\ current_running \in [Cpus -> Slots \cup {Idle}]
  /\ status \in [Slots -> Statuses]
  /\ pid \in [Slots -> 0 .. MaxPid]
  /\ tid \in [Slots -> Nat]
  /\ child_t_num \in [Slots -> Nat]
  /\ core_mask \in [Slots -> Masks]
  /\ to_kill \in [Slots -> BOOLEAN]
  /\ context \in [Slots -> Contexts]
  /\ queue \in [Queues -> Seq(Slots)]
  /\ run_tasks \in Seq(Slots)
  /\ process_id \in 1 .. MaxPid + 1
  /\ expired \in SUBSET Slots
  /\ owner \in [BlockQueues -> 0 .. MaxPid]

\* A PCB has one list node: it is linked into at most one list, once.
OnePlace ==
  \A q, r \in Queues : \A i \in DOMAIN queue[q], j \in DOMAIN queue[r] :
    queue[q][i] = queue[r][j] => q = r /\ i = j

\* The lists that a PCB of each status belongs to.
ListsOf(st) ==
  CASE st = "READY"    -> {Ready}
    [] st = "SLEEPING" -> {Sleep}
    [] st = "EXITED"   -> {Exits}
    [] st = "WAITING"  -> {Wait(p) : p \in Slots}
    [] st = "BLOCKED"  -> {Block(b) : b \in BlockQueues}
    [] OTHER           -> {}

\* The status of a linked PCB is that of its list; so a PCB that runs, and the
\* PCB of a dead process, is in none.
StatusOfList ==
  \A q \in Queues : \A i \in DOMAIN queue[q] : q \in ListsOf(status[queue[q][i]])

\* CPU c runs the task in current_running[c]: it has not given it up on its way
\* to exec_next_task, and the task has not just been cleared by its own exit.
Runs(c, p) == current_running[c] = p /\ ~In("exec_next_task", c)

\* No task is lost: a live PCB is linked or runs on some CPU.  And none is run
\* twice: not by two CPUs, and not by a CPU while a list still has it.
NoLostTask ==
  \A p \in Slots :
    /\ Live(p) => Linked(p) \/ \E c \in Cpus : Runs(c, p)
    /\ \A c \in Cpus : Runs(c, p) => ~Linked(p) /\ (Live(p) => status[p] = "RUNNING")
    /\ Runs(0, p) => ~Runs(1, p)

\* Nobody waits for a PCB that is dead, or that another process now uses: the
\* wait list is empty when the PCB is a zombie, so it is when it is used again.
NoOrphanedWaiter == \A p \in Slots : ~Live(p) => queue[Wait(p)] = <<>>

\* While no CPU is in the kernel, run_tasks lists every live process once and
\* no dead one, and no two processes have the same pid.
Mains == {p \in Slots : Live(p) /\ tid[p] = 0}
RunTasksExact ==
  kernel.op = "user" =>
    /\ IsInjective(run_tasks)
    /\ ToSet(run_tasks) = Mains
    /\ \A p, q \in Mains : pid[p] = pid[q] => p = q

-----------------------------------------------------------------------------
(* What a step may never do.                                                *)

\* p waits in the ready queue before q.
Before(Q, p, q) ==
  \E i, j \in DOMAIN Q[Ready] : i < j /\ Q[Ready][i] = p /\ Q[Ready][j] = q

\* The ready queue is first come first served on each core, whoever wakes, kills
\* or pins tasks meanwhile: a task overtakes another only to run on a core that
\* the other may not use, or when the other is to die.  A task starts only on a
\* core of its mask, and a core goes idle only when no ready task may use it.
Allowed(p, c) == c \in core_mask[p] /\ ~to_kill[p]
Started(c)    == current_running'[c] # current_running[c] /\ current_running'[c] # Idle
DispatchInOrder ==
  [][/\ \A p, q \in Slots :
          Before(queue, p, q) /\ ~Before(queue', p, q) =>
            \/ ~Contains(queue'[Ready], p)
            \/ status'[q] = "ZOMBIE"
            \/ \E c \in Cpus : current_running'[c] = q /\ ~Allowed(p, c)
     /\ \A c \in Cpus :
          /\ Started(c) => Allowed(current_running'[c], c)
          /\ current_running'[c] = Idle /\ In("exec_next_task", c) /\ kernel'.op = "user"
               => \A p \in Slots : status[p] = "READY" => ~Allowed(p, c)]_vars

\* A task goes to sleep for a time that has not come yet, and leaves the sleep
\* queue only when that time has come, or dead.
SleepNotCutShort ==
  [][\A p \in Slots :
       /\ ~Contains(queue[Sleep], p) /\ Contains(queue'[Sleep], p) => p \notin expired'
       /\ Contains(queue[Sleep], p) /\ ~Contains(queue'[Sleep], p)
            => (p \in expired /\ status'[p] = "READY") \/ status'[p] = "ZOMBIE"]_vars

\* The process table as its callers see it (module ProcTable).
Table == INSTANCE ProcTable WITH
  live  <- {pid[p] : p \in Mains},
  next  <- process_id,
  waits <- UNION {{<<pid[w], pid[p]>> : w \in ToSet(queue[Wait(p)])} : p \in Slots}

\* waitpid, exec, fork, exit and kill keep the promises of ProcTable.
ProcTableHolds == Table!Spec

-----------------------------------------------------------------------------
(* What must happen in the end, unless the kernel is lost.                  *)

\* Round robin starves nobody: a ready task that is not to die runs, or dies.
ReadyTaskRuns ==
  \A p \in Slots : status[p] = "READY" /\ ~to_kill[p]
                    ~> status[p] \in {"RUNNING", "ZOMBIE"} \/ to_kill[p] \/ Halted

\* A sleeper is woken up.
SleeperWakes == \A p \in Slots : status[p] = "SLEEPING" ~> status[p] # "SLEEPING" \/ Halted

\* sched.h says of to_kill: "when a process is to be killed but running on
\* another core".  A task that is marked dies.
MarkedTaskDies == \A p \in Slots : to_kill[p] /\ Live(p) ~> ~Live(p) \/ Halted
=============================================================================
