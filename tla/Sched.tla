-------------------------------- MODULE Sched --------------------------------
(***************************************************************************)
(* The scheduler of the kernel (kernel/sched): the process control blocks, *)
(* the queues they are linked into, and the routines that move a PCB from  *)
(* one queue to another.                                                   *)
(*                                                                         *)
(* A trap takes giant_lock before the handler runs (entry.S) and the lock  *)
(* is given back by ret_from_exception, on whatever stack the CPU then     *)
(* runs.  Interrupts are off in between.  The kernel is therefore one      *)
(* critical section: `kernel' says which CPU is inside it and where, and   *)
(* no other CPU enters while kernel.op # "user".  A handler is one action, *)
(* except for its loops, which take one action per iteration.              *)
(***************************************************************************)
EXTENDS KernelLists

CONSTANTS
  NUM_MAX_TASK,     \* the number of PCBs (slots of the array pcb)
  NumBlockQueues,   \* the number of block queues of the IPC objects
  MaxPid            \* bound: no process gets a pid above this one

ASSUME NumTaskAssumption  == NUM_MAX_TASK \in Nat \ {0}
ASSUME NumQueueAssumption == NumBlockQueues \in Nat
ASSUME MaxPidAssumption   == MaxPid \in Nat \ {0}

Cpus  == {0, 1}                         \* NR_CPUS = 2
Slots == 0 .. NUM_MAX_TASK - 1          \* indices into pcb
Idle  == NUM_MAX_TASK                   \* stands for pid0_pcb[cpu]
Masks == (SUBSET Cpus) \ {{}}           \* taskset takes masks 1, 2 and 3
BlockQueues == 1 .. NumBlockQueues

VARIABLES
  kernel,           \* who holds giant_lock, and which loop it is in
  current_running,  \* current_running[cpu]: a slot, or Idle
  status, pid, tid, core_mask, to_kill,   \* fields of pcb[slot]
  child_t_num,      \* pcb[slot].child_t_num
  context,          \* what pcb[slot] resumes with: its saved switch context
  queue,            \* every list a PCB's node can be linked into
  run_tasks,        \* the processes that "ps" shows
  process_id,       \* the next pid
  expired,          \* slots whose wakeup_time has been reached
  owner             \* owner[b]: the pid stored in the IPC object of queue b

identity == <<pid, tid, child_t_num, core_mask>>
vars == <<kernel, current_running, status, identity, to_kill, context, queue,
          run_tasks, process_id, expired, owner>>

Statuses == {"BLOCKED", "RUNNING", "READY", "ZOMBIE", "SLEEPING", "WAITING",
             "EXITED"}

-----------------------------------------------------------------------------
(* The lists.  A list head is a queue identifier; a wait list belongs to a  *)
(* slot and a block queue to an IPC object.                                 *)

Ready    == <<"ready", 0>>
Sleep    == <<"sleep", 0>>
Exits    == <<"thread_exit", 0>>
Wait(p)  == <<"wait_list", p>>
Block(b) == <<"block_queue", b>>
Queues   == {Ready, Sleep, Exits} \cup {Wait(p) : p \in Slots}
              \cup {Block(b) : b \in BlockQueues}

Linked(p) == \E q \in Queues : Contains(queue[q], p)

\* list_del: takes the node of p out of whatever list it is linked into.
list_del(Q, p) == [q \in Queues |-> unlink(Q[q], p)]

\* Defect: the node is added behind the head of the list, not before it.
list_add_head(Q, q, p) == [Q EXCEPT ![q] = <<p>> \o @]

\* list_add_tail.
list_add_tail(Q, q, p) == [Q EXCEPT ![q] = Append(@, p)]

\* Defects: the nodes are not taken out of q; only one node is.
unblock_copy(Q, q) == [Q EXCEPT ![Ready] = @ \o Q[q]]
unblock_one(Q, q)  ==
  IF Q[q] = <<>> THEN Q
  ELSE [Q EXCEPT ![Ready] = Append(@, Head(Q[q])), ![q] = Tail(@)]

\* unblock_list: every node of list q goes to the tail of the ready queue.
unblock_list(Q, q) == [Q EXCEPT ![Ready] = @ \o Q[q], ![q] = <<>>]

\* ... and every task of the list gets the status READY.
made_ready(tasks) ==
  [p \in Slots |-> IF Contains(tasks, p) THEN "READY" ELSE status[p]]

-----------------------------------------------------------------------------
(* The giant lock and the position of its holder.                           *)

Ops == {"user",             \* no CPU is in the kernel
        "exec_next_task",   \* a CPU is about to pick its next task
        "check_sleeping", "pcb_clear", "destroy_ipc",   \* loops
        "resume",           \* a task runs on in the system call it blocked in
        "spin", "fault", "panic", "corrupt"}            \* the kernel is lost
Thens == {"none", "yield", "sleep", "exit", "kill"}

At(op, c)      == [op |-> op, cpu |-> c, pid |-> 0, then |-> "none"]
InUser         == At("user", 0)
Leave(c, k, t) == [op |-> "pcb_clear", cpu |-> c, pid |-> k, then |-> t]
Halted         == kernel.op \in {"spin", "fault", "panic", "corrupt"}

\* CPU c traps into the kernel and gets giant_lock; a task makes a system call.
Trap(c)    == kernel.op = "user"
Syscall(c) == Trap(c) /\ current_running[c] # Idle
In(op, c)  == kernel.op = op /\ kernel.cpu = c

\* What a switched-in task runs on with: back to user mode, or in do_thread_join.
ToUser     == <<"user", 0>>
Find(t)    == <<"find", t>>     \* looking for thread t to join
Reap(p)    == <<"reap", p>>     \* woken from the wait list of thread slot p
Contexts   == {ToUser} \cup {Find(t) : t \in 0 .. NUM_MAX_TASK}
                \cup {Reap(p) : p \in Slots}

-----------------------------------------------------------------------------

\* Defects: the idle task is linked like any other; the status is not set.
proc_schedule_idle(c, q, st) ==
  /\ status' = [status EXCEPT ![current_running[c]] = st]
  /\ queue' = list_add_tail(queue, q, current_running[c])
  /\ kernel' = At("exec_next_task", c)
proc_schedule_silent(c, q, st) ==
  /\ UNCHANGED status
  /\ queue' = IF current_running[c] = Idle THEN queue
              ELSE list_add_tail(queue, q, current_running[c])
  /\ kernel' = At("exec_next_task", c)

\* The first half of proc_schedule: the caller leaves its CPU for list q.
\* The idle task is never linked.  exec_next_task follows at once.
proc_schedule(c, q, st) ==
  LET me == current_running[c]
  IN /\ IF me = Idle
        THEN UNCHANGED <<status, queue>>
        ELSE /\ status' = [status EXCEPT ![me] = st]
             /\ queue' = list_add_tail(queue, q, me)
     /\ kernel' = At("exec_next_task", c)

\* Defect: the mask is not looked at.
Eligible_anywhere(p, c) == ~to_kill[p]

\* A task that is to die is never picked, whatever its mask.
Eligible(p, c) == c \in core_mask[p] /\ ~to_kill[p]

\* exec_next_task and the switch: the first eligible task of the ready queue,
\* or the idle task, runs on, and with it the CPU leaves the kernel.
exec_next_task(c) ==
  /\ In("exec_next_task", c)
  /\ LET ready == queue[Ready]
     IN \/ \E i \in DOMAIN ready :
             /\ Eligible(ready[i], c)
             /\ \A j \in 1 .. i-1 : ~Eligible(ready[j], c)
             /\ current_running' = [current_running EXCEPT ![c] = ready[i]]
             /\ queue' = list_del(queue, ready[i])
             /\ status' = [status EXCEPT ![ready[i]] = "RUNNING"]
             /\ kernel' = IF context[ready[i]] = ToUser
                          THEN InUser ELSE At("resume", c)
        \/ /\ \A i \in DOMAIN ready : ~Eligible(ready[i], c)
           /\ current_running' = [current_running EXCEPT ![c] = Idle]
           /\ kernel' = InUser
           /\ UNCHANGED <<queue, status>>
  /\ UNCHANGED <<identity, to_kill, context, run_tasks, process_id, expired,
                 owner>>

\* Defect: nobody looks at the mark of the running task.
Doomed_never(c) == FALSE

\* check_killed: a task marked by do_kill on the other CPU exits on its next trap.
Doomed(c) == current_running[c] # Idle /\ to_kill[current_running[c]]
check_killed(c) ==
  /\ Doomed(c)
  /\ to_kill' = [to_kill EXCEPT ![current_running[c]] = FALSE]
  /\ kernel' = Leave(c, pid[current_running[c]], "exit")

\* Defect: the sleep queue is not checked.
do_scheduler_no_sleep(c) ==
  /\ Trap(c)
  /\ \/ /\ check_killed(c)
        /\ UNCHANGED <<status, queue>>
     \/ /\ ~Doomed(c)
        /\ proc_schedule(c, Ready, "READY")
        /\ UNCHANGED to_kill
  /\ UNCHANGED <<current_running, identity, context, run_tasks, process_id,
                 expired, owner>>

\* do_scheduler, from the timer interrupt or from the yield system call.
do_scheduler(c) ==
  /\ Trap(c)
  /\ \/ check_killed(c)
     \/ /\ ~Doomed(c)
        /\ kernel' = [At("check_sleeping", c) EXCEPT !.then = "yield"]
        /\ UNCHANGED to_kill
  /\ UNCHANGED <<current_running, status, identity, context, queue, run_tasks,
                 process_id, expired, owner>>

\* Defect: the wake-up time of the last sleep is left in place.
do_sleep_stale(c) ==
  /\ Syscall(c)
  /\ ~Doomed(c)
  /\ kernel' = [At("check_sleeping", c) EXCEPT !.then = "sleep"]
  /\ UNCHANGED <<current_running, status, identity, to_kill, context, queue,
                 run_tasks, process_id, expired, owner>>

\* do_sleep: the wake-up time is set before the caller is known to be doomed.
do_sleep(c) ==
  /\ Syscall(c)
  /\ expired' = expired \ {current_running[c]}
  /\ \/ check_killed(c)
     \/ /\ ~Doomed(c)
        /\ kernel' = [At("check_sleeping", c) EXCEPT !.then = "sleep"]
        /\ UNCHANGED to_kill
  /\ UNCHANGED <<current_running, status, identity, context, queue, run_tasks,
                 process_id, owner>>

\* One iteration of check_sleeping: the first sleeper that is due becomes ready.
\* After the last one the caller goes to the ready or to the sleep queue.
check_sleeping(c) ==
  /\ In("check_sleeping", c)
  /\ LET sleepers == queue[Sleep]
     IN \/ \E i \in DOMAIN sleepers :
             /\ sleepers[i] \in expired
             /\ \A j \in 1 .. i-1 : sleepers[j] \notin expired
             /\ status' = [status EXCEPT ![sleepers[i]] = "READY"]
             /\ queue' = list_add_tail(list_del(queue, sleepers[i]), Ready,
                                       sleepers[i])
             /\ UNCHANGED kernel
        \/ /\ \A i \in DOMAIN sleepers : sleepers[i] \notin expired
           /\ \/ kernel.then = "yield" /\ proc_schedule(c, Ready, "READY")
              \/ kernel.then = "sleep" /\ proc_schedule(c, Sleep, "SLEEPING")
  /\ UNCHANGED <<current_running, identity, to_kill, context, run_tasks,
                 process_id, expired, owner>>

\* Time passes: the wake-up time of a sleeping task is reached.  The clock is
\* read once per sleeper in check_sleeping; a task that becomes due while the
\* loop runs is, for the loop, due after it.
Expire(p) ==
  /\ status[p] = "SLEEPING"
  /\ p \notin expired
  /\ kernel.op # "check_sleeping"
  /\ expired' = expired \cup {p}
  /\ UNCHANGED <<kernel, current_running, status, identity, to_kill, context,
                 queue, run_tasks, process_id, owner>>

\* do_block: the caller waits in the block queue of an IPC object.
do_block(c, b) ==
  /\ Syscall(c)
  /\ proc_schedule(c, Block(b), "BLOCKED")
  /\ UNCHANGED <<current_running, identity, to_kill, context, run_tasks,
                 process_id, expired, owner>>

\* do_unblock: the head of a block queue becomes ready.
do_unblock(c, b) ==
  /\ Syscall(c)
  /\ queue[Block(b)] # <<>>
  /\ LET p == Head(queue[Block(b)])
     IN /\ queue' = list_add_tail(list_del(queue, p), Ready, p)
        /\ status' = [status EXCEPT ![p] = "READY"]
  /\ UNCHANGED <<kernel, current_running, identity, to_kill, context, run_tasks,
                 process_id, expired, owner>>
=============================================================================
