-------------------------------- MODULE Thread --------------------------------
(***************************************************************************)
(* Threads (kernel/thread/thread.c): a thread is a PCB with its process's  *)
(* pid and a tid of its own; the main thread has tid 0.  The calls below   *)
(* are added to those of module Process.                                   *)
(***************************************************************************)
EXTENDS Process

CONSTANT MAX_THREAD_NUM     \* child threads that a process may create

ASSUME MaxThreadAssumption == MAX_THREAD_NUM \in 0 .. NUM_MAX_TASK

Unchanged == UNCHANGED <<current_running, run_tasks, process_id, expired, owner>>

\* do_thread_create: three assertions, any of which stops the kernel, then the
\* first zombie PCB becomes a ready thread of the caller's process.
do_thread_create(c) ==
  /\ "thread" \in Calls /\ Syscall(c)
  /\ LET me    == Me(c)
         legal == tid[me] = 0 /\ child_t_num[me] < MAX_THREAD_NUM /\ Zombies # {}
     IN \/ /\ ~legal
           /\ kernel' = At("panic", c)
           /\ UNCHANGED <<status, identity, to_kill, context, queue>>
        \/ \E p \in Slots :
           /\ legal /\ IsFirst(p, Zombies)
           /\ status' = [status EXCEPT ![p] = "READY"]
           /\ pid' = [pid EXCEPT ![p] = pid[me]]
           /\ tid' = [tid EXCEPT ![p] = child_t_num[me] + 1]
           /\ child_t_num' = [child_t_num EXCEPT ![me] = @ + 1]
           /\ core_mask' = [core_mask EXCEPT ![p] = core_mask[me]]
           /\ to_kill' = [to_kill EXCEPT ![p] = FALSE]
           /\ context' = [context EXCEPT ![p] = ToUser]
           /\ queue' = [list_add_tail(queue, Ready, p) EXCEPT ![Wait(p)] = <<>>]
           /\ UNCHANGED kernel
  /\ Unchanged

\* Defect: the PCB is given up before it is joined.
park_freed(me) ==
  /\ status' = [made_ready(queue[Wait(me)]) EXCEPT ![me] = "ZOMBIE"]
  /\ queue' = unblock_list(queue, Wait(me))

\* The joiners of an exiting thread become ready, and it waits on the exit list
\* to be reaped.
park(me) ==
  /\ status' = [made_ready(queue[Wait(me)]) EXCEPT ![me] = "EXITED"]
  /\ queue' = list_add_tail(unblock_list(queue, Wait(me)), Exits, me)

\* do_thread_exit.  Only a child thread may call it, and only while its main
\* thread lives: the assertions stop the kernel otherwise.
do_thread_exit(c) ==
  /\ "thread" \in Calls /\ Syscall(c)
  /\ LET me    == Me(c)
         legal == tid[me] # 0 /\ \E m \in Mains : pid[m] = pid[me]
     IN \/ /\ ~legal
           /\ kernel' = At("panic", c)
           /\ UNCHANGED <<status, queue>>
        \/ /\ legal
           /\ park(me)
           /\ kernel' = At("exec_next_task", c)
  /\ UNCHANGED <<identity, to_kill, context>>
  /\ Unchanged

\* Defect: the reaped PCB stays on the exit list.
reap_linked(c, p) ==
  /\ status' = [made_ready(queue[Wait(p)]) EXCEPT ![p] = "ZOMBIE"]
  /\ queue' = unblock_list(queue, Wait(p))
  /\ kernel' = InUser
  /\ context' = [context EXCEPT ![Me(c)] = ToUser]

\* The end of do_thread_join: the exited thread in slot p is reaped.  A PCB that
\* is in no list is unlinked through a null pointer, as in pcb_clear.
reap(c, p) ==
  /\ status' = [made_ready(queue[Wait(p)]) EXCEPT ![p] = "ZOMBIE"]
  /\ queue' = list_del(unblock_list(queue, Wait(p)), p)
  /\ kernel' = IF Linked(p) THEN InUser ELSE At("fault", c)
  /\ context' = [context EXCEPT ![Me(c)] = ToUser]

\* do_thread_join from its search on: no such thread, and the caller yields and
\* searches again; an exited one is reaped; else the caller waits for it.
join(c, t) ==
  LET me     == Me(c)
      thread == {p \in Slots : Live(p) /\ pid[p] = pid[me] /\ tid[p] = t}
  IN \/ /\ thread = {}
        /\ proc_schedule(c, Ready, "READY")
        /\ context' = [context EXCEPT ![me] = Find(t)]
     \/ \E p \in Slots :
        /\ IsFirst(p, thread)
        /\ \/ status[p] = "EXITED" /\ reap(c, p)
           \/ /\ status[p] # "EXITED"
              /\ proc_schedule(c, Wait(p), "WAITING")
              /\ context' = [context EXCEPT ![me] = Reap(p)]

\* Programs join from their main thread; with "join_any" from every thread.
do_thread_join(c, t) ==
  /\ "thread" \in Calls /\ Syscall(c)
  /\ tid[Me(c)] = 0 \/ "join_any" \in Calls
  /\ join(c, t)
  /\ UNCHANGED <<identity, to_kill>>
  /\ Unchanged

\* A task that was switched out inside do_thread_join runs on there.
resume(c) ==
  /\ In("resume", c)
  /\ \/ \E t \in 0 .. NUM_MAX_TASK : context[Me(c)] = Find(t) /\ join(c, t)
     \/ \E p \in Slots : context[Me(c)] = Reap(p) /\ reap(c, p)
  /\ UNCHANGED <<identity, to_kill>>
  /\ Unchanged

\* do_thread_yield.  With no other ready thread of the process it returns without
\* giving pcb_lk back, and the next handler that takes pcb_lk spins for ever.
\* With one, cpu_proc still names the caller after current_running is set, so it
\* is the caller that is marked running and switched to, though it is queued:
\* from here on PCBs and kernel stacks no longer match, and the model stops.
do_thread_yield(c) ==
  /\ "thread_yield" \in Calls /\ Syscall(c)
  /\ LET me      == Me(c)
         ready   == queue[Ready]
         Peer(p) == pid[p] = pid[me] /\ tid[p] # tid[me] /\ c \in core_mask[p]
     IN /\ tid[me] # 0 \/ child_t_num[me] # 0
        /\ \/ /\ \A i \in DOMAIN ready : ~Peer(ready[i])
              /\ kernel' = At("spin", c)
              /\ UNCHANGED <<current_running, status, queue>>
           \/ \E i \in DOMAIN ready :
                /\ Peer(ready[i])
                /\ \A j \in 1 .. i-1 : ~Peer(ready[j])
                /\ current_running' = [current_running EXCEPT ![c] = ready[i]]
                /\ queue' = list_add_tail(list_del(queue, ready[i]), Ready, me)
                /\ status' = [status EXCEPT ![me] = "RUNNING"]
                /\ kernel' = At("corrupt", c)
  /\ UNCHANGED <<identity, to_kill, context, run_tasks, process_id, expired, owner>>

-----------------------------------------------------------------------------

ThreadNext ==
  \/ Next
  \/ \E c \in Cpus :
       \/ do_thread_create(c) \/ do_thread_exit(c) \/ do_thread_yield(c)
       \/ \E t \in 1 .. MAX_THREAD_NUM : do_thread_join(c, t)
       \/ resume(c)

ThreadSpec == Init /\ [][ThreadNext]_vars

-----------------------------------------------------------------------------

\* What holds of the lists, the CPUs and the waiters of module Process holds
\* with threads too, until do_thread_yield mixes up two PCBs, or pcb_clear stops
\* half-way at a PCB it cannot unlink.
ThreadsPlaced ==
  kernel.op \notin {"corrupt", "fault"} =>
    OnePlace /\ StatusOfList /\ NoLostTask /\ NoOrphanedWaiter

\* No child thread outlives its main thread: pcb_clear takes the whole process.
\* This is what keeps the assertion in clear_pcb_thread from stopping the kernel.
ThreadHasMain ==
  kernel.op = "user" =>
    \A p \in Slots : Live(p) => \E m \in Mains : pid[m] = pid[p]

\* A joiner runs on after its wait only to reap the thread it joined, which has
\* exited by then and is still its own process's.
JoinReapsExited ==
  \A c \in Cpus, p \in Slots :
    In("resume", c) /\ context[Me(c)] = Reap(p)
      => status[p] = "EXITED" /\ pid[p] = pid[Me(c)] /\ tid[p] # 0

\* do_exit: "use kill to kill all the tasks with the same pid".  A process can
\* end whatever its threads are doing at that moment.
ExitNeverFaults == kernel.op # "fault"
=============================================================================
