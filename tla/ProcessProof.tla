----------------------------- MODULE ProcessProof -----------------------------
(***************************************************************************)
(* Proofs about module Process, for every number of PCBs, IPC objects and  *)
(* pids, and every set of system calls that programs make: the types, and  *)
(* PlaceInv, with which no task is ever lost, linked twice or run twice,   *)
(* no waiter is left behind in the list of a dead PCB, and the pid of a    *)
(* live process is its own.                                                *)
(*                                                                         *)
(* For PlaceInv the actions fall into six groups by what they do to the    *)
(* lists: those that leave them alone (Keep), those that start to clear a  *)
(* process (Enter), proc_schedule (GiveUp), the moves of one task to the   *)
(* ready queue (Wake), the unblocking of a whole list (destroy,            *)
(* pcb_clear), and the choice of the next task and of a PCB for a new      *)
(* process.                                                                *)
(*                                                                         *)
(* Placed, the part of PlaceInv that holds with threads too, is kept by    *)
(* itself (PlacedNext), and StepKinds sorts the steps: a process starts,   *)
(* or a PCB is cleared, or a few tasks move from list to list and nobody   *)
(* begins or ends.  What comes after looks at these kinds only, not at     *)
(* the actions: run_tasks is exact, Process implements ProcTable, sleeps   *)
(* are not cut short, and the ready queue is first come, first served.     *)
(***************************************************************************)
EXTENDS ProcessInv, ListLemmas

-----------------------------------------------------------------------------
(* What the operators of module Sched do to all the lists.                  *)

Lists == [Queues -> Seq(Slots)]

\* No task is linked twice.
OneEach(Q) ==
  /\ \A q \in Queues : IsInjective(Q[q])
  /\ \A q, r \in Queues, p \in Slots : Contains(Q[q], p) /\ Contains(Q[r], p) => q = r

LEMMA QueueNames ==
  /\ Ready \in Queues /\ Sleep \in Queues /\ Exits \in Queues
  /\ \A p \in Slots : Wait(p) \in Queues
  /\ \A b \in BlockQueues : Block(b) \in Queues
  /\ Ready # Sleep /\ Ready # Exits /\ Sleep # Exits
  /\ \A p : Wait(p) \notin {Ready, Sleep, Exits}
  /\ \A b : Block(b) \notin {Ready, Sleep, Exits}
  /\ \A p, b : Wait(p) # Block(b)
  /\ \A p, q : Wait(p) = Wait(q) => p = q
  /\ \A a, b : Block(a) = Block(b) => a = b
BY DEF Queues, Ready, Sleep, Exits, Wait, Block

LEMMA ListDel ==
  ASSUME NEW Q \in Lists, NEW p \in Slots
  PROVE  /\ list_del(Q, p) \in Lists
         /\ \A q \in Queues : \A x : Contains(list_del(Q, p)[q], x) => Contains(Q[q], x)
         /\ \A q \in Queues : \A x :
              Contains(Q[q], x) /\ x # p => Contains(list_del(Q, p)[q], x)
         /\ OneEach(Q) => /\ OneEach(list_del(Q, p))
                          /\ \A q \in Queues : ~Contains(list_del(Q, p)[q], p)
<1>. DEFINE R == list_del(Q, p)
<1>1. \A q \in Queues : Q[q] \in Seq(Slots) /\ R[q] = unlink(Q[q], p)
  BY DEF Lists, list_del
<1>2. R \in Lists
  BY <1>1, UnlinkElements DEF Lists, list_del
<1>3. \A q \in Queues : \A x : Contains(R[q], x) => Contains(Q[q], x)
  BY <1>1, UnlinkElements
<1>4. \A q \in Queues : \A x : Contains(Q[q], x) /\ x # p => Contains(R[q], x)
  BY <1>1, UnlinkElements
<1>5. ASSUME OneEach(Q)
      PROVE  OneEach(R) /\ \A q \in Queues : ~Contains(R[q], p)
  <2>1. \A q \in Queues : IsInjective(R[q]) /\ ~Contains(R[q], p)
    BY <1>1, <1>5, UnlinkInjective DEF OneEach
  <2>. QED
    BY <2>1, <1>3, <1>5 DEF OneEach
<1>. QED
  BY <1>2, <1>3, <1>4, <1>5

LEMMA ListAddTail ==
  ASSUME NEW Q \in Lists, NEW q \in Queues, NEW p \in Slots
  PROVE  /\ list_add_tail(Q, q, p) \in Lists
         /\ \A r \in Queues : \A x :
              Contains(list_add_tail(Q, q, p)[r], x)
                <=> Contains(Q[r], x) \/ (r = q /\ x = p)
         /\ OneEach(Q) /\ (\A r \in Queues : ~Contains(Q[r], p))
              => OneEach(list_add_tail(Q, q, p))
<1>. DEFINE R == list_add_tail(Q, q, p)
<1>1. /\ \A r \in Queues : Q[r] \in Seq(Slots)
      /\ R[q] = Append(Q[q], p)
      /\ \A r \in Queues : r # q => R[r] = Q[r]
  BY DEF Lists, list_add_tail
<1>2. R \in Lists
  BY <1>1, AppendElements DEF Lists, list_add_tail
<1>. HIDE DEF R
<1>3. ASSUME NEW r \in Queues, NEW x
      PROVE  Contains(R[r], x) <=> Contains(Q[r], x) \/ (r = q /\ x = p)
  <2>1. CASE r = q
    <3>1. Q[q] \in Seq(Slots)
      BY <1>1
    <3>2. Contains(Append(Q[q], p), x) <=> Contains(Q[q], x) \/ x = p
      BY <3>1, AppendElements
    <3>. QED
      BY <2>1, <3>2, <1>1
  <2>2. CASE r # q
    BY <2>2, <1>1
  <2>. QED
    BY <2>1, <2>2
<1>4. ASSUME OneEach(Q), \A r \in Queues : ~Contains(Q[r], p)
      PROVE  OneEach(R)
  <2>0. Q[q] \in Seq(Slots) /\ IsInjective(Q[q]) /\ ~Contains(Q[q], p)
    BY <1>1, <1>4 DEF OneEach
  <2>1. IsInjective(Append(Q[q], p))
    BY <2>0, AppendElements
  <2>2. \A r \in Queues : IsInjective(R[r])
    BY <2>1, <1>1, <1>4 DEF OneEach
  <2>. QED
    BY <2>2, <1>3, <1>4 DEF OneEach
<1>. QED
  BY <1>2, <1>3, <1>4 DEF R

LEMMA UnblockList ==
  ASSUME NEW Q \in Lists, NEW q \in Queues, q # Ready
  PROVE  /\ unblock_list(Q, q) \in Lists
         /\ \A r \in Queues : \A x :
              Contains(unblock_list(Q, q)[r], x)
                <=> \/ r = Ready /\ (Contains(Q[Ready], x) \/ Contains(Q[q], x))
                    \/ r # Ready /\ r # q /\ Contains(Q[r], x)
         /\ unblock_list(Q, q)[q] = <<>>
         /\ \A r \in Queues : r # Ready /\ r # q => unblock_list(Q, q)[r] = Q[r]
         /\ OneEach(Q) => OneEach(unblock_list(Q, q))
<1>. DEFINE R == unblock_list(Q, q)
<1>1. /\ \A r \in Queues : Q[r] \in Seq(Slots)
      /\ Ready \in Queues
      /\ R[Ready] = Q[Ready] \o Q[q]
      /\ R[q] = <<>>
      /\ \A r \in Queues : r # Ready /\ r # q => R[r] = Q[r]
  BY QueueNames DEF Lists, unblock_list
<1>2. R \in Lists
  BY <1>1, ConcatElements, EmptySeq DEF Lists, unblock_list
<1>. HIDE DEF R
<1>3. \A x : ~Contains(<<>>, x)
  BY DEF Contains
<1>4. ASSUME NEW r \in Queues, NEW x
      PROVE  Contains(R[r], x)
               <=> \/ r = Ready /\ (Contains(Q[Ready], x) \/ Contains(Q[q], x))
                   \/ r # Ready /\ r # q /\ Contains(Q[r], x)
  <2>1. CASE r = Ready
    <3>1. Q[Ready] \in Seq(Slots) /\ Q[q] \in Seq(Slots)
      BY <1>1
    <3>2. Contains(Q[Ready] \o Q[q], x) <=> Contains(Q[Ready], x) \/ Contains(Q[q], x)
      BY <3>1, ConcatElements
    <3>. QED
      BY <2>1, <3>2, <1>1
  <2>2. CASE r = q
    BY <2>2, <1>1, <1>3
  <2>3. CASE r # q /\ r # Ready
    BY <2>3, <1>1
  <2>. QED
    BY <2>1, <2>2, <2>3
<1>5. ASSUME OneEach(Q) PROVE OneEach(R)
  <2>1. \A x : ~(Contains(Q[Ready], x) /\ Contains(Q[q], x))
    <3>1. \A x : Contains(Q[q], x) => x \in Slots
      BY <1>1, ElementOfSeq DEF Contains
    <3>. QED
      BY <3>1, <1>1, <1>5 DEF OneEach
  <2>2. IsInjective(R[Ready])
    BY <2>1, <1>1, <1>5, ConcatElements DEF OneEach
  <2>3. IsInjective(<<>>)
    BY DEF IsInjective
  <2>4. \A r \in Queues : IsInjective(R[r])
    BY <2>2, <2>3, <1>1, <1>5 DEF OneEach
  <2>. QED
    BY <2>4, <1>1, <1>4, <1>5 DEF OneEach
<1>. QED
  BY <1>1, <1>2, <1>4, <1>5 DEF R

-----------------------------------------------------------------------------
(* The values of `kernel'.                                                  *)

Kernels == [op : Ops, cpu : Cpus, pid : 0 .. MaxPid, then : Thens]

LEMMA Positions ==
  /\ InUser \in Kernels
  /\ \A op \in Ops, c \in Cpus : At(op, c) \in Kernels
  /\ \A c \in Cpus, k \in 0 .. MaxPid, t \in Thens : Leave(c, k, t) \in Kernels
  /\ \A k \in Kernels, op \in Ops : [k EXCEPT !.op = op] \in Kernels
  /\ \A k \in Kernels, t \in Thens : [k EXCEPT !.then = t] \in Kernels
BY MaxPidAssumption DEF Kernels, InUser, At, Leave, Ops, Thens, Cpus

-----------------------------------------------------------------------------
(* Type correctness.                                                        *)

LEMMA TypeInit == Init => TypeOK
<1>. SUFFICES ASSUME Init PROVE TypeOK
  OBVIOUS
<1>1. kernel \in Kernels
  BY Positions DEF Init
<1>2. queue \in [Queues -> Seq(Slots)]
  <2>1. 0 \in Slots
    BY NumTaskAssumption DEF Slots
  <2>. QED
    BY <2>1 DEF Init
<1>3. run_tasks \in Seq(Slots)
  BY NumTaskAssumption DEF Init, Slots
<1>4. process_id \in 1 .. MaxPid + 1 /\ pid \in [Slots -> 0 .. MaxPid]
  BY MaxPidAssumption DEF Init
<1>5. status \in [Slots -> Statuses]
  BY DEF Init, Statuses
<1>6. context \in [Slots -> Contexts] /\ core_mask \in [Slots -> Masks]
  BY DEF Init, Contexts, Masks, Cpus
<1>7. /\ current_running \in [Cpus -> Slots \cup {Idle}]
      /\ tid \in [Slots -> Nat] /\ child_t_num \in [Slots -> Nat]
      /\ to_kill \in [Slots -> BOOLEAN]
      /\ expired \in SUBSET Slots
      /\ owner \in [BlockQueues -> 0 .. MaxPid]
  BY MaxPidAssumption DEF Init
<1>. QED
  BY <1>1, <1>2, <1>3, <1>4, <1>5, <1>6, <1>7 DEF TypeOK, Kernels

\* The kernel moves to another operation, its CPU and pid unchanged.
LEMMA KernelMoves ==
  ASSUME TypeOK, NEW op \in Ops
  PROVE  [kernel EXCEPT !.op = op] \in Kernels
<1>1. kernel \in Kernels
  BY DEF TypeOK, Kernels
<1>. QED
  BY <1>1, Positions

LEMMA MadeReadyType ==
  ASSUME status \in [Slots -> Statuses], NEW t
  PROVE  made_ready(t) \in [Slots -> Statuses]
BY DEF made_ready, Statuses

LEMMA QueuedSlots ==
  ASSUME TypeOK, NEW q \in Queues, NEW i \in DOMAIN queue[q]
  PROVE  queue[q][i] \in Slots
<1>1. queue[q] \in Seq(Slots)
  BY DEF TypeOK
<1>. QED
  BY <1>1, LenProperties, ElementOfSeq

\* A task moves from one list to the tail of another.
LEMMA MoveType ==
  ASSUME TypeOK, NEW q \in Queues, NEW p \in Slots
  PROVE  list_add_tail(list_del(queue, p), q, p) \in Lists
<1>1. queue \in Lists
  BY DEF TypeOK, Lists
<1>. QED
  BY <1>1, ListDel, ListAddTail

\* The caller leaves its CPU.
LEMMA ProcScheduleType ==
  ASSUME TypeOK, NEW c \in Cpus, NEW q \in Queues, NEW st \in Statuses,
         proc_schedule(c, q, st)
  PROVE  /\ kernel' \in Kernels
         /\ status' \in [Slots -> Statuses]
         /\ queue' \in [Queues -> Seq(Slots)]
<1>1. kernel' \in Kernels
  BY Positions DEF proc_schedule, Ops
<1>2. CASE current_running[c] = Idle
  BY <1>1, <1>2 DEF proc_schedule, TypeOK
<1>3. CASE current_running[c] # Idle
  <2>1. current_running[c] \in Slots
    BY <1>3 DEF TypeOK
  <2>2. queue \in Lists
    BY DEF TypeOK, Lists
  <2>3. list_add_tail(queue, q, current_running[c]) \in Lists
    BY <2>1, <2>2, ListAddTail
  <2>. QED
    BY <1>1, <1>3, <2>1, <2>3 DEF proc_schedule, TypeOK, Lists
<1>. QED
  BY <1>2, <1>3

\* The two outcomes of exec_next_task, without what they choose by.
LEMMA NextTask ==
  ASSUME NEW c \in Cpus, exec_next_task(c)
  PROVE  \/ \E i \in DOMAIN queue[Ready] :
              /\ current_running' = [current_running EXCEPT ![c] = queue[Ready][i]]
              /\ queue' = list_del(queue, queue[Ready][i])
              /\ status' = [status EXCEPT ![queue[Ready][i]] = "RUNNING"]
         \/ /\ current_running' = [current_running EXCEPT ![c] = Idle]
            /\ UNCHANGED <<queue, status>>
BY DEF exec_next_task

LEMMA TypeExecNextTask ==
  ASSUME TypeOK, NEW c \in Cpus, exec_next_task(c)
  PROVE  TypeOK'
<1>1. UNCHANGED <<identity, to_kill, context, run_tasks, process_id, expired, owner>>
  BY DEF exec_next_task
<1>2. kernel' \in Kernels
  BY Positions DEF exec_next_task, Ops
<1>3. /\ current_running' \in [Cpus -> Slots \cup {Idle}]
      /\ status' \in [Slots -> Statuses]
      /\ queue' \in [Queues -> Seq(Slots)]
  <2>1. CASE /\ current_running' = [current_running EXCEPT ![c] = Idle]
             /\ UNCHANGED <<queue, status>>
    BY <2>1 DEF TypeOK
  <2>2. CASE \E i \in DOMAIN queue[Ready] :
               /\ current_running' = [current_running EXCEPT ![c] = queue[Ready][i]]
               /\ queue' = list_del(queue, queue[Ready][i])
               /\ status' = [status EXCEPT ![queue[Ready][i]] = "RUNNING"]
    <3>1. PICK i \in DOMAIN queue[Ready] :
            /\ current_running' = [current_running EXCEPT ![c] = queue[Ready][i]]
            /\ queue' = list_del(queue, queue[Ready][i])
            /\ status' = [status EXCEPT ![queue[Ready][i]] = "RUNNING"]
      BY <2>2
    <3>2. queue[Ready][i] \in Slots
      BY QueuedSlots, QueueNames
    <3>3. queue \in Lists
      BY DEF TypeOK, Lists
    <3>4. list_del(queue, queue[Ready][i]) \in Lists
      BY <3>2, <3>3, ListDel
    <3>. QED
      BY <3>1, <3>2, <3>4 DEF TypeOK, Lists, Statuses
  <2>. QED
    BY <2>1, <2>2, NextTask
<1>. QED
  BY <1>1, <1>2, <1>3 DEF TypeOK, Kernels, identity

LEMMA TypeCheckKilled ==
  ASSUME TypeOK, NEW c \in Cpus, check_killed(c)
  PROVE  kernel' \in Kernels /\ to_kill' \in [Slots -> BOOLEAN]
<1>1. current_running[c] \in Slots
  BY DEF check_killed, Doomed, TypeOK
<1>2. pid[current_running[c]] \in 0 .. MaxPid /\ "exit" \in Thens
  BY <1>1 DEF TypeOK, Thens
<1>. QED
  BY <1>1, <1>2, Positions DEF check_killed, TypeOK

LEMMA TypeDoScheduler ==
  ASSUME TypeOK, NEW c \in Cpus, do_scheduler(c)
  PROVE  TypeOK'
<1>1. kernel' \in Kernels /\ to_kill' \in [Slots -> BOOLEAN]
  <2>1. [At("check_sleeping", c) EXCEPT !.then = "yield"] \in Kernels
    BY Positions DEF Ops, Thens
  <2>. QED
    BY <2>1, TypeCheckKilled DEF do_scheduler, TypeOK
<1>. QED
  BY <1>1 DEF do_scheduler, TypeOK, Kernels, identity

LEMMA TypeDoSleep ==
  ASSUME TypeOK, NEW c \in Cpus, do_sleep(c)
  PROVE  TypeOK'
<1>1. kernel' \in Kernels /\ to_kill' \in [Slots -> BOOLEAN]
  <2>1. [At("check_sleeping", c) EXCEPT !.then = "sleep"] \in Kernels
    BY Positions DEF Ops, Thens
  <2>. QED
    BY <2>1, TypeCheckKilled DEF do_sleep, TypeOK
<1>. QED
  BY <1>1 DEF do_sleep, TypeOK, Kernels, identity

LEMMA TypeCheckSleeping ==
  ASSUME TypeOK, NEW c \in Cpus, check_sleeping(c)
  PROVE  TypeOK'
<1>1. UNCHANGED <<current_running, identity, to_kill, context, run_tasks,
                  process_id, expired, owner>>
  BY DEF check_sleeping
<1>2. /\ kernel' \in Kernels
      /\ status' \in [Slots -> Statuses]
      /\ queue' \in [Queues -> Seq(Slots)]
  <2>1. CASE \E i \in DOMAIN queue[Sleep] :
               /\ status' = [status EXCEPT ![queue[Sleep][i]] = "READY"]
               /\ queue' = list_add_tail(list_del(queue, queue[Sleep][i]), Ready,
                                         queue[Sleep][i])
               /\ UNCHANGED kernel
    <3>1. PICK i \in DOMAIN queue[Sleep] :
               /\ status' = [status EXCEPT ![queue[Sleep][i]] = "READY"]
               /\ queue' = list_add_tail(list_del(queue, queue[Sleep][i]), Ready,
                                         queue[Sleep][i])
               /\ UNCHANGED kernel
      BY <2>1
    <3>2. queue[Sleep][i] \in Slots
      BY QueuedSlots, QueueNames
    <3>3. queue' \in Lists
      BY <3>1, <3>2, MoveType, QueueNames
    <3>. QED
      BY <3>1, <3>2, <3>3 DEF TypeOK, Kernels, Statuses, Lists
  <2>2. CASE \/ proc_schedule(c, Ready, "READY")
             \/ proc_schedule(c, Sleep, "SLEEPING")
    BY <2>2, ProcScheduleType, QueueNames DEF Statuses
  <2>. QED
    BY <2>1, <2>2 DEF check_sleeping
<1>. QED
  BY <1>1, <1>2 DEF TypeOK, Kernels, identity

LEMMA TypeExpire ==
  ASSUME TypeOK, NEW p \in Slots, Expire(p)
  PROVE  TypeOK'
BY DEF Expire, TypeOK, identity

LEMMA TypeDoBlock ==
  ASSUME TypeOK, NEW c \in Cpus, NEW b \in BlockQueues, do_block(c, b)
  PROVE  TypeOK'
<1>1. /\ kernel' \in Kernels
      /\ status' \in [Slots -> Statuses]
      /\ queue' \in [Queues -> Seq(Slots)]
  BY ProcScheduleType, QueueNames DEF do_block, Statuses
<1>. QED
  BY <1>1 DEF do_block, TypeOK, Kernels, identity

LEMMA TypeDoUnblock ==
  ASSUME TypeOK, NEW c \in Cpus, NEW b \in BlockQueues, do_unblock(c, b)
  PROVE  TypeOK'
<1>. DEFINE p == Head(queue[Block(b)])
<1>1. queue[Block(b)] \in Seq(Slots) /\ queue[Block(b)] # <<>>
  BY QueueNames DEF do_unblock, TypeOK
<1>2. p \in Slots
  BY <1>1, HeadTailProperties
<1>3. /\ queue' = list_add_tail(list_del(queue, p), Ready, p)
      /\ status' = [status EXCEPT ![p] = "READY"]
  BY DEF do_unblock
<1>. HIDE DEF p
<1>4. queue' \in Lists
  BY <1>2, <1>3, MoveType, QueueNames
<1>5. status' \in [Slots -> Statuses]
  BY <1>2, <1>3 DEF TypeOK, Statuses
<1>. QED
  BY <1>4, <1>5 DEF do_unblock, TypeOK, identity, Lists

LEMMA TypeNewProcess ==
  ASSUME TypeOK, NEW c \in Cpus, NEW mask \in Masks, new_process(c, mask)
  PROVE  TypeOK'
<1>2. CASE /\ kernel' = At("panic", c)
           /\ UNCHANGED <<status, identity, to_kill, context, queue, run_tasks,
                          process_id>>
  <2>1. kernel' \in Kernels
    BY <1>2, Positions DEF Ops
  <2>. QED
    BY <1>2, <2>1 DEF new_process, TypeOK, Kernels, identity
<1>3. ASSUME NEW p \in Slots,
             status' = [status EXCEPT ![p] = "READY"],
             pid' = [pid EXCEPT ![p] = process_id],
             tid' = [tid EXCEPT ![p] = 0],
             child_t_num' = [child_t_num EXCEPT ![p] = 0],
             core_mask' = [core_mask EXCEPT ![p] = mask],
             to_kill' = [to_kill EXCEPT ![p] = FALSE],
             context' = [context EXCEPT ![p] = ToUser],
             queue' = [list_add_tail(queue, Ready, p) EXCEPT ![Wait(p)] = <<>>],
             run_tasks' = Append(run_tasks, p),
             process_id' = process_id + 1,
             UNCHANGED kernel
      PROVE  TypeOK'
  <2>1. process_id \in 0 .. MaxPid /\ process_id' \in 1 .. MaxPid + 1
    BY <1>3, MaxPidAssumption DEF new_process, TypeOK
  <2>2. queue' \in [Queues -> Seq(Slots)]
    <3>1. list_add_tail(queue, Ready, p) \in Lists
      BY ListAddTail, QueueNames DEF TypeOK, Lists
    <3>. QED
      BY <1>3, <3>1, EmptySeq DEF Lists
  <2>3. run_tasks' \in Seq(Slots)
    BY <1>3, AppendProperties DEF TypeOK
  <2>4. /\ pid' \in [Slots -> 0 .. MaxPid]
        /\ tid' \in [Slots -> Nat] /\ child_t_num' \in [Slots -> Nat]
        /\ core_mask' \in [Slots -> Masks] /\ to_kill' \in [Slots -> BOOLEAN]
    BY <1>3, <2>1 DEF TypeOK
  <2>5. status' \in [Slots -> Statuses] /\ context' \in [Slots -> Contexts]
    BY <1>3 DEF TypeOK, Statuses, Contexts
  <2>. QED
    BY <1>3, <2>1, <2>2, <2>3, <2>4, <2>5 DEF new_process, TypeOK
<1>. QED
  BY <1>2, <1>3 DEF new_process

LEMMA TypeDoExec ==
  ASSUME TypeOK, NEW c \in Cpus, do_exec(c)
  PROVE  TypeOK'
<1>1. core_mask[Me(c)] \in Masks
  BY DEF do_exec, Syscall, TypeOK, Me
<1>. QED
  BY <1>1, TypeNewProcess DEF do_exec

LEMMA TypeDoTasksetExec ==
  ASSUME TypeOK, NEW c \in Cpus, NEW m \in Masks, do_taskset_exec(c, m)
  PROVE  TypeOK'
BY TypeNewProcess DEF do_taskset_exec

LEMMA TypeDoFork ==
  ASSUME TypeOK, NEW c \in Cpus, do_fork(c)
  PROVE  TypeOK'
<1>1. CASE new_process(c, core_mask[Me(c)])
  <2>1. core_mask[Me(c)] \in Masks
    BY DEF do_fork, Syscall, TypeOK, Me
  <2>. QED
    BY <1>1, <2>1, TypeNewProcess
<1>2. CASE kernel' = At("panic", c)
           /\ UNCHANGED <<current_running, status, identity, to_kill, context,
                          queue, run_tasks, process_id, expired, owner>>
  <2>1. kernel' \in Kernels
    BY <1>2, Positions DEF Ops
  <2>. QED
    BY <1>2, <2>1 DEF TypeOK, Kernels, identity
<1>. QED
  BY <1>1, <1>2 DEF do_fork

LEMMA TypePcbClear ==
  ASSUME TypeOK, NEW c \in Cpus, pcb_clear(c)
  PROVE  TypeOK'
<1>1. UNCHANGED <<current_running, identity, to_kill, context, run_tasks,
                  process_id, expired, owner>>
  BY DEF pcb_clear
<1>2. /\ kernel' \in Kernels
      /\ status' \in [Slots -> Statuses]
      /\ queue' \in [Queues -> Seq(Slots)]
  <2>1. ASSUME NEW p \in Slots,
               kernel' = At("fault", c),
               status' = [status EXCEPT ![p] = "ZOMBIE"],
               UNCHANGED queue
        PROVE  /\ kernel' \in Kernels
               /\ status' \in [Slots -> Statuses]
               /\ queue' \in [Queues -> Seq(Slots)]
    BY <2>1, Positions DEF TypeOK, Ops, Statuses
  <2>2. ASSUME NEW p \in Slots, NEW Q,
               Q = IF p = Me(c) THEN queue ELSE list_del(queue, p),
               status' = [made_ready(Q[Wait(p)]) EXCEPT ![p] = "ZOMBIE"],
               queue' = unblock_list(Q, Wait(p)),
               kernel' = [kernel EXCEPT !.op = "destroy_ipc"]
        PROVE  /\ kernel' \in Kernels
               /\ status' \in [Slots -> Statuses]
               /\ queue' \in [Queues -> Seq(Slots)]
    <3>1. kernel' \in Kernels
      <4>1. "destroy_ipc" \in Ops
        BY DEF Ops
      <4>. QED
        BY <2>2, <4>1, KernelMoves
    <3>2. Q \in Lists
      <4>1. queue \in Lists
        BY DEF TypeOK, Lists
      <4>. QED
        BY <2>2, <4>1, ListDel
    <3>3. unblock_list(Q, Wait(p)) \in Lists
      BY <3>2, UnblockList, QueueNames
    <3>4. made_ready(Q[Wait(p)]) \in [Slots -> Statuses]
      BY MadeReadyType DEF TypeOK
    <3>. QED
      BY <2>2, <3>1, <3>3, <3>4 DEF Statuses, Lists
  <2>. QED
    BY <2>1, <2>2 DEF pcb_clear
<1>. QED
  BY <1>1, <1>2 DEF TypeOK, Kernels, identity

LEMMA TypeDestroy ==
  ASSUME TypeOK, NEW b \in BlockQueues, destroy(b)
  PROVE  /\ status' \in [Slots -> Statuses]
         /\ queue' \in [Queues -> Seq(Slots)]
         /\ owner' \in [BlockQueues -> 0 .. MaxPid]
<1>1. queue \in Lists
  BY DEF TypeOK, Lists
<1>2. unblock_list(queue, Block(b)) \in Lists
  BY <1>1, UnblockList, QueueNames
<1>3. made_ready(queue[Block(b)]) \in [Slots -> Statuses]
  BY MadeReadyType DEF TypeOK
<1>. QED
  BY <1>2, <1>3, MaxPidAssumption DEF destroy, TypeOK, Lists

LEMMA TypeDestroyIpc ==
  ASSUME TypeOK, NEW c \in Cpus, destroy_ipc(c)
  PROVE  TypeOK'
<1>1. UNCHANGED <<current_running, identity, to_kill, context, run_tasks,
                  process_id, expired>>
  BY DEF destroy_ipc
<1>2. CASE \E b \in BlockQueues : destroy(b) /\ UNCHANGED kernel
  BY <1>1, <1>2, TypeDestroy DEF TypeOK, identity
<1>3. CASE /\ kernel' = [kernel EXCEPT !.op = "pcb_clear"]
           /\ UNCHANGED <<status, queue, owner>>
  <2>1. kernel' \in Kernels
    <3>1. "pcb_clear" \in Ops
      BY DEF Ops
    <3>. QED
      BY <1>3, <3>1, KernelMoves
  <2>. QED
    BY <1>1, <1>3, <2>1 DEF TypeOK, Kernels, identity
<1>. QED
  BY <1>2, <1>3 DEF destroy_ipc

LEMMA TypeLeaveTask ==
  ASSUME TypeOK, NEW c \in Cpus, leave_task(c)
  PROVE  TypeOK'
<1>1. UNCHANGED <<current_running, status, identity, to_kill, context, queue,
                  process_id, expired, owner>>
  BY DEF leave_task
<1>2. kernel' \in Kernels
  BY Positions DEF leave_task, Ops
<1>3. run_tasks' \in Seq(Slots)
  <2>1. PICK i \in DOMAIN run_tasks : run_tasks' = RemoveAt(run_tasks, i)
    BY DEF leave_task
  <2>2. run_tasks \in Seq(Slots) /\ i \in 1 .. Len(run_tasks)
    BY LenProperties DEF TypeOK
  <2>. QED
    BY <2>1, <2>2, RemoveAtElements
<1>. QED
  BY <1>1, <1>2, <1>3 DEF TypeOK, Kernels, identity

LEMMA TypeDoExit ==
  ASSUME TypeOK, NEW c \in Cpus, do_exit(c)
  PROVE  TypeOK'
<1>1. current_running[c] \in Slots
  BY DEF do_exit, Syscall, TypeOK
<1>2. pid[current_running[c]] \in 0 .. MaxPid /\ "exit" \in Thens
  BY <1>1 DEF TypeOK, Thens
<1>3. kernel' \in Kernels
  BY <1>2, Positions DEF do_exit, Me
<1>. QED
  BY <1>3 DEF do_exit, TypeOK, Kernels, identity

LEMMA TypeDoKill ==
  ASSUME TypeOK, NEW c \in Cpus, NEW k \in 1 .. MaxPid, do_kill(c, k)
  PROVE  TypeOK'
<1>1. kernel' \in Kernels
  <2>1. At("spin", c) \in Kernels /\ Leave(c, k, "kill") \in Kernels
    BY Positions DEF Ops, Thens
  <2>. QED
    BY <2>1 DEF do_kill, TypeOK, Kernels
<1>2. to_kill' \in [Slots -> BOOLEAN]
  BY DEF do_kill, TypeOK
<1>. QED
  BY <1>1, <1>2 DEF do_kill, TypeOK, Kernels, identity

LEMMA TypeDoWaitpid ==
  ASSUME TypeOK, NEW c \in Cpus, NEW k \in 1 .. MaxPid, do_waitpid(c, k)
  PROVE  TypeOK'
<1>1. /\ kernel' \in Kernels
      /\ status' \in [Slots -> Statuses]
      /\ queue' \in [Queues -> Seq(Slots)]
  <2>1. PICK p \in Slots : proc_schedule(c, Wait(p), "WAITING")
    BY DEF do_waitpid
  <2>. QED
    BY <2>1, ProcScheduleType, QueueNames DEF Statuses
<1>. QED
  BY <1>1 DEF do_waitpid, TypeOK, Kernels, identity

LEMMA TypeDoTaskset ==
  ASSUME TypeOK, NEW c \in Cpus, NEW k \in 1 .. MaxPid, NEW m \in Masks,
         do_taskset(c, k, m)
  PROVE  TypeOK'
<1>1. core_mask' \in [Slots -> Masks]
  BY DEF do_taskset, TypeOK
<1>. QED
  BY <1>1 DEF do_taskset, TypeOK

LEMMA TypeIpcInit ==
  ASSUME TypeOK, NEW c \in Cpus, ipc_init(c)
  PROVE  TypeOK'
<1>1. ASSUME NEW b \in BlockQueues,
             owner' = [owner EXCEPT ![b] = pid[Me(c)]],
             queue' = [queue EXCEPT ![Block(b)] = <<>>],
             UNCHANGED kernel
      PROVE  TypeOK'
  <2>1. Me(c) \in Slots
    BY DEF ipc_init, Syscall, TypeOK, Me
  <2>2. /\ owner' \in [BlockQueues -> 0 .. MaxPid]
        /\ queue' \in [Queues -> Seq(Slots)]
    BY <1>1, <2>1, EmptySeq DEF TypeOK
  <2>. QED
    BY <1>1, <2>2 DEF ipc_init, TypeOK, identity
<1>2. CASE kernel' = At("corrupt", c) /\ UNCHANGED <<owner, queue>>
  <2>1. kernel' \in Kernels
    BY <1>2, Positions DEF Ops
  <2>. QED
    BY <1>2, <2>1 DEF ipc_init, TypeOK, identity, Kernels
<1>. QED
  BY <1>1, <1>2 DEF ipc_init

LEMMA TypeIpcDestroy ==
  ASSUME TypeOK, NEW c \in Cpus, NEW b \in BlockQueues, ipc_destroy(c, b)
  PROVE  TypeOK'
BY TypeDestroy DEF ipc_destroy, TypeOK, identity

LEMMA TypeSystemCall ==
  ASSUME TypeOK, NEW c \in Cpus, SystemCall(c)
  PROVE  TypeOK'
<1>1. CASE do_sleep(c)
  BY <1>1, TypeDoSleep
<1>2. CASE do_exec(c) \/ do_fork(c) \/ do_exit(c)
  BY <1>2, TypeDoExec, TypeDoFork, TypeDoExit
<1>3. CASE \E k \in 1 .. MaxPid : do_kill(c, k) \/ do_waitpid(c, k)
  BY <1>3, TypeDoKill, TypeDoWaitpid
<1>4. CASE \E k \in 1 .. MaxPid, m \in Masks : do_taskset(c, k, m)
  BY <1>4, TypeDoTaskset
<1>5. CASE ipc_init(c)
  BY <1>5, TypeIpcInit
<1>7. CASE \E m \in Masks : do_taskset_exec(c, m)
  BY <1>7, TypeDoTasksetExec
<1>6. CASE \E b \in BlockQueues :
             ipc_destroy(c, b) \/ do_block(c, b) \/ do_unblock(c, b)
  BY <1>6, TypeIpcDestroy, TypeDoBlock, TypeDoUnblock
<1>. QED
  BY <1>1, <1>2, <1>3, <1>4, <1>5, <1>6, <1>7 DEF SystemCall

LEMMA TypeNext == TypeOK /\ [Next]_vars => TypeOK'
<1>. SUFFICES ASSUME TypeOK, [Next]_vars PROVE TypeOK'
  OBVIOUS
<1>1. ASSUME NEW c \in Cpus, do_scheduler(c) PROVE TypeOK'
  BY <1>1, TypeDoScheduler
<1>2. ASSUME NEW c \in Cpus, SystemCall(c) PROVE TypeOK'
  BY <1>2, TypeSystemCall
<1>3. ASSUME NEW c \in Cpus, KernelStep(c) PROVE TypeOK'
  BY <1>3, TypeExecNextTask, TypeCheckSleeping, TypePcbClear, TypeDestroyIpc,
     TypeLeaveTask DEF KernelStep
<1>4. ASSUME NEW p \in Slots, Expire(p) PROVE TypeOK'
  BY <1>4, TypeExpire
<1>5. CASE UNCHANGED vars
  BY <1>5 DEF vars, TypeOK, identity
<1>. QED
  BY <1>1, <1>2, <1>3, <1>4, <1>5 DEF Next, Hang

\* Every variable keeps its type: no list ever holds anything but PCBs, no CPU
\* runs anything but a PCB or its idle task.
THEOREM TypeCorrect == Spec => []TypeOK
BY TypeInit, TypeNext, PTL DEF Spec

-----------------------------------------------------------------------------
(* Where the PCBs are.                                                      *)

\* The lists of each status, one by one.
LEMMA StatusLists ==
  /\ \A q : q \in ListsOf("READY") <=> q = Ready
  /\ \A q : q \in ListsOf("SLEEPING") <=> q = Sleep
  /\ \A q : q \in ListsOf("EXITED") <=> q = Exits
  /\ \A q : q \in ListsOf("WAITING") <=> \E p \in Slots : q = Wait(p)
  /\ \A q : q \in ListsOf("BLOCKED") <=> \E b \in BlockQueues : q = Block(b)
  /\ \A q : q \notin ListsOf("RUNNING")
  /\ \A q : q \notin ListsOf("ZOMBIE")
BY DEF ListsOf

\* A linked task is alive and does not run.
LEMMA LinkedIsIdle ==
  ASSUME LinkedByStatus, NEW q \in Queues, NEW p \in Slots, Has(q, p)
  PROVE  Live(p) /\ status[p] # "RUNNING"
BY StatusLists DEF LinkedByStatus, Live

LEMMA PlacedInit == Init => Placed
<1>. SUFFICES ASSUME Init PROVE Placed
  OBVIOUS
<1>1. 0 \in Slots /\ Idle \notin Slots
  BY NumTaskAssumption DEF Slots, Idle
<1>2. \A q \in Queues, p \in Slots : Has(q, p) <=> q = Ready /\ p = 0
  BY <1>1 DEF Init, Has, Contains
<1>3. LinkedOnce
  BY <1>2 DEF Init, LinkedOnce, IsInjective
<1>4. LinkedByStatus
  BY <1>1, <1>2, StatusLists DEF Init, LinkedByStatus
<1>5. Somewhere
  BY <1>2, QueueNames DEF Init, Somewhere, Live
<1>6. \A c \in Cpus, p \in Slots : ~Runs(c, p)
  BY <1>1 DEF Init, Runs
<1>7. RunsAlone /\ RunsNoList /\ RunsLive
  BY <1>6 DEF RunsAlone, RunsNoList, RunsLive
<1>8. NoWaiters /\ NoBlockers
  BY <1>2, QueueNames DEF NoWaiters, NoBlockers
<1>9. ClearsCaller /\ ClearsOther
  BY DEF Init, ClearsCaller, ClearsOther, Exiting, Clearing, InUser, At
<1>. QED
  BY <1>3, <1>4, <1>5, <1>7, <1>8, <1>9 DEF Placed

-----------------------------------------------------------------------------
(* Steps that leave the lists alone.                                        *)

Places == <<current_running, status, pid, queue, owner>>

\* Nothing that Placed speaks of changes.
LEMMA Keep ==
  ASSUME Placed, UNCHANGED Places, UNCHANGED kernel
  PROVE  Placed'
<1>1. \A q, p : Has(q, p)' <=> Has(q, p)
  BY DEF Places, Has
<1>2. /\ \A p \in Slots : Live(p)' <=> Live(p)
      /\ \A p \in Slots, c \in Cpus : Runs(c, p)' <=> Runs(c, p)
      /\ Clearing' <=> Clearing
      /\ Exiting' <=> Exiting
      /\ ToClear' = ToClear
      /\ \A c \in Cpus : Me(c)' = Me(c)
  BY DEF Places, Live, Runs, In, Clearing, Exiting, ToClear, Me
<1>3. LinkedOnce' /\ LinkedByStatus'
  BY <1>1 DEF Placed, LinkedOnce, LinkedByStatus, Places
<1>4. Somewhere' /\ RunsAlone' /\ RunsNoList' /\ RunsLive'
  BY <1>1, <1>2 DEF Placed, Somewhere, RunsAlone, RunsNoList, RunsLive, Places
<1>5. NoWaiters' /\ NoBlockers'
  BY <1>1, <1>2 DEF Placed, NoWaiters, NoBlockers, Places
<1>6. ClearsCaller' /\ ClearsOther'
  BY <1>2 DEF Placed, ClearsCaller, ClearsOther, Places, Me
<1>. QED
  BY <1>3, <1>4, <1>5, <1>6 DEF Placed

\* The holder of giant_lock moves on, away from where it picks or clears tasks.
LEMMA Advance ==
  ASSUME Placed, UNCHANGED Places, ~Clearing, kernel.op # "exec_next_task",
         kernel'.op \notin {"exec_next_task", "pcb_clear", "destroy_ipc"}
  PROVE  Placed'
<1>1. \A q, p : Has(q, p)' <=> Has(q, p)
  BY DEF Places, Has
<1>2. /\ \A p \in Slots : Live(p)' <=> Live(p)
      /\ \A p \in Slots, c \in Cpus : Runs(c, p)' <=> Runs(c, p)
      /\ ~Clearing' /\ ~Exiting' /\ ~Exiting
  BY DEF Places, Live, Runs, In, Clearing, Exiting
<1>3. LinkedOnce' /\ LinkedByStatus'
  BY <1>1 DEF Placed, LinkedOnce, LinkedByStatus, Places
<1>4. Somewhere' /\ RunsAlone' /\ RunsNoList' /\ RunsLive'
  BY <1>1, <1>2 DEF Placed, Somewhere, RunsAlone, RunsNoList, RunsLive, Places
<1>5. NoWaiters' /\ NoBlockers'
  BY <1>1, <1>2 DEF Placed, NoWaiters, NoBlockers, Places
<1>6. ClearsCaller' /\ ClearsOther'
  BY <1>2 DEF ClearsCaller, ClearsOther
<1>. QED
  BY <1>3, <1>4, <1>5, <1>6 DEF Placed

\* CPU c begins to clear process k: its own, or one that runs on no CPU.
LEMMA Enter ==
  ASSUME TypeOK, Placed, UNCHANGED Places, NEW c \in Cpus, NEW k, NEW t,
         kernel.op = "user", kernel' = Leave(c, k, t),
         \/ t = "exit" /\ Me(c) # Idle /\ k = pid[Me(c)]
         \/ t = "kill" /\ \A d \in Cpus : Me(d) # Idle => pid[Me(d)] # k
  PROVE  Placed'
<1>1. \A q, p : Has(q, p)' <=> Has(q, p)
  BY DEF Places, Has
<1>2. /\ \A p \in Slots : Live(p)' <=> Live(p)
      /\ \A p \in Slots, d \in Cpus : Runs(d, p)' <=> Runs(d, p)
      /\ Clearing' /\ (Exiting' <=> t = "exit") /\ ~Exiting
      /\ \A d \in Cpus : Me(d)' = Me(d)
      /\ kernel'.cpu = c /\ kernel'.pid = k /\ kernel'.op = "pcb_clear"
  BY DEF Places, Live, Runs, In, Clearing, Exiting, Leave, Me
<1>3. LinkedOnce' /\ LinkedByStatus'
  BY <1>1 DEF Placed, LinkedOnce, LinkedByStatus, Places
<1>4. Somewhere' /\ RunsAlone' /\ RunsNoList'
  BY <1>1, <1>2 DEF Placed, Somewhere, RunsAlone, RunsNoList, Places
<1>5. RunsLive'
  BY <1>2 DEF Placed, RunsLive, Places
<1>6. NoWaiters' /\ NoBlockers'
  BY <1>1, <1>2 DEF Placed, NoWaiters, NoBlockers, Places
<1>7. ClearsOther'
  BY <1>2 DEF ClearsOther, Places
<1>8. ClearsCaller'
  BY <1>2 DEF ClearsCaller, Places
<1>. QED
  BY <1>3, <1>4, <1>5, <1>6, <1>7, <1>8 DEF Placed

-----------------------------------------------------------------------------
(* Steps that move tasks between lists.                                     *)

\* Outside exec_next_task and leave_task every running task is alive.
LEMMA RunningHere ==
  ASSUME TypeOK, Placed, ~Clearing, NEW c \in Cpus, NEW p \in Slots,
         current_running[c] = p, kernel.op # "exec_next_task"
  PROVE  /\ Runs(c, p) /\ status[p] = "RUNNING" /\ Live(p)
         /\ \A q \in Queues : ~Has(q, p)
         /\ \A d \in Cpus : current_running[d] = p => d = c
BY DEF Placed, RunsLive, RunsAlone, RunsNoList, Runs, In, Live, Exiting

\* proc_schedule: the caller goes to the tail of list q, with the status of
\* that list, and its CPU has nothing to run until exec_next_task.
LEMMA GiveUp ==
  ASSUME TypeOK, Placed, NEW c \in Cpus, NEW q \in Queues, NEW st \in Statuses,
         proc_schedule(c, q, st), q \in ListsOf(st), st # "ZOMBIE",
         ~Clearing, kernel.op # "exec_next_task",
         \A p \in Slots : q = Wait(p) => Live(p),
         \A b \in BlockQueues : q = Block(b) => owner[b] # 0,
         UNCHANGED <<current_running, pid, owner>>
  PROVE  Placed'
<1>. DEFINE me == current_running[c]
<1>1. /\ kernel'.op = "exec_next_task" /\ kernel'.cpu = c
      /\ ~Clearing' /\ ~Exiting' /\ ~Exiting
  BY DEF proc_schedule, At, Clearing, Exiting
<1>2. /\ ClearsCaller' /\ ClearsOther'
  BY <1>1 DEF Placed, ClearsCaller, ClearsOther
<1>3. \A d \in Cpus, p \in Slots : Runs(d, p)' <=> Runs(d, p) /\ d # c
  BY <1>1 DEF Runs, In
<1>4. CASE me = Idle
  <2>1. UNCHANGED <<status, queue>>
    BY <1>4 DEF proc_schedule
  <2>2. /\ \A r, p : Has(r, p)' <=> Has(r, p)
        /\ \A p \in Slots : Live(p)' <=> Live(p)
        /\ \A p \in Slots : ~Runs(c, p)
    BY <1>4, <2>1, NumTaskAssumption DEF Has, Live, Runs, Idle, Slots
  <2>3. LinkedOnce' /\ LinkedByStatus'
    BY <2>1, <2>2 DEF Placed, LinkedOnce, LinkedByStatus
  <2>4. Somewhere' /\ RunsAlone' /\ RunsNoList' /\ RunsLive'
    BY <1>1, <1>3, <2>1, <2>2 DEF Placed, Somewhere, RunsAlone, RunsNoList, RunsLive
  <2>5. NoWaiters' /\ NoBlockers'
    BY <2>2 DEF Placed, NoWaiters, NoBlockers
  <2>. QED
    BY <1>2, <2>3, <2>4, <2>5 DEF Placed
<1>5. CASE me # Idle
  <2>1. me \in Slots /\ queue \in Lists
    BY <1>5 DEF TypeOK, Lists
  <2>2. /\ queue' = list_add_tail(queue, q, me)
        /\ status' = [status EXCEPT ![me] = st]
    BY <1>5 DEF proc_schedule
  <2>3. /\ Live(me) /\ \A r \in Queues : ~Has(r, me)
        /\ \A d \in Cpus : current_running[d] = me => d = c
    BY <2>1, RunningHere
  <2>4. \A r \in Queues : \A p : Has(r, p)' <=> Has(r, p) \/ (r = q /\ p = me)
    <3>1. \A r \in Queues : \A p :
            Contains(list_add_tail(queue, q, me)[r], p)
              <=> Contains(queue[r], p) \/ (r = q /\ p = me)
      BY <2>1, ListAddTail
    <3>. QED
      BY <2>2, <3>1 DEF Has
  <2>5. /\ \A p \in Slots : status'[p] = IF p = me THEN st ELSE status[p]
        /\ \A p \in Slots : Live(p)' <=> Live(p)
    BY <2>1, <2>2, <2>3 DEF TypeOK, Live
  <2>6. LinkedOnce'
    <3>1. OneEach(queue) /\ \A r \in Queues : ~Contains(queue[r], me)
      BY <2>3 DEF Placed, LinkedOnce, OneEach, Has
    <3>2. OneEach(queue')
      BY <3>1, <2>1, <2>2, ListAddTail
    <3>. QED
      BY <3>2 DEF OneEach, LinkedOnce, Has
  <2>7. LinkedByStatus'
    BY <2>1, <2>3, <2>4, <2>5 DEF Placed, LinkedByStatus
  <2>8. Somewhere'
    <3>. SUFFICES ASSUME NEW p \in Slots, Live(p)
                  PROVE  \/ \E r \in Queues : Has(r, p)'
                         \/ \E d \in Cpus : Runs(d, p)'
      BY <2>5 DEF Somewhere
    <3>1. CASE p = me
      BY <3>1, <2>4
    <3>2. CASE p # me
      <4>1. ~Runs(c, p)
        BY <3>2 DEF Runs
      <4>. QED
        BY <4>1, <2>4, <1>3 DEF Placed, Somewhere
    <3>. QED
      BY <3>1, <3>2
  <2>9. RunsAlone' /\ RunsNoList' /\ RunsLive'
    <3>1. \A d \in Cpus, p \in Slots : Runs(d, p)' => p # me
      BY <1>3, <2>3 DEF Runs
    <3>. QED
      BY <3>1, <1>1, <1>3, <2>4, <2>5 DEF Placed, RunsAlone, RunsNoList, RunsLive
  <2>10. NoWaiters' /\ NoBlockers'
    BY <2>4, <2>5, QueueNames DEF Placed, NoWaiters, NoBlockers
  <2>. QED
    BY <1>2, <2>6, <2>7, <2>8, <2>9, <2>10 DEF Placed
<1>. QED
  BY <1>4, <1>5

\* A linked task p moves to the tail of the ready queue.
LEMMA Wake ==
  ASSUME TypeOK, Placed, NEW p \in Slots, Linked(p),
         queue' = list_add_tail(list_del(queue, p), Ready, p),
         status' = [status EXCEPT ![p] = "READY"],
         ~Clearing, kernel' = kernel,
         UNCHANGED <<current_running, pid, owner>>
  PROVE  Placed'
<1>. DEFINE D == list_del(queue, p)
<1>1. queue \in Lists /\ Ready \in Queues
  BY QueueNames DEF TypeOK, Lists
<1>2. OneEach(queue)
  BY DEF Placed, LinkedOnce, OneEach, Has
<1>3. /\ D \in Lists /\ OneEach(D)
      /\ \A r \in Queues : ~Contains(D[r], p)
      /\ \A r \in Queues : \A x : Contains(D[r], x) => Has(r, x)
      /\ \A r \in Queues : \A x : Has(r, x) /\ x # p => Contains(D[r], x)
  BY <1>1, <1>2, ListDel DEF Has
<1>. HIDE DEF D
<1>4. queue' = list_add_tail(D, Ready, p)
  BY DEF D
<1>5. OneEach(queue')
  BY <1>1, <1>3, <1>4, ListAddTail
<1>6. \A r \in Queues : \A x :
        Has(r, x)' <=> IF x = p THEN r = Ready ELSE Has(r, x)
  <2>1. \A r \in Queues : \A x :
          Contains(list_add_tail(D, Ready, p)[r], x)
            <=> Contains(D[r], x) \/ (r = Ready /\ x = p)
    BY <1>1, <1>3, ListAddTail
  <2>2. \A r \in Queues : \A x : Has(r, x)' <=> Contains(D[r], x) \/ (r = Ready /\ x = p)
    BY <1>4, <2>1 DEF Has
  <2>. QED
    BY <1>3, <2>2
<1>7. Live(p) /\ status[p] # "RUNNING"
  BY LinkedIsIdle DEF Linked, Has, Placed
<1>8. /\ \A x \in Slots : status'[x] = IF x = p THEN "READY" ELSE status[x]
      /\ \A x \in Slots : Live(x)' <=> Live(x)
  BY <1>7 DEF TypeOK, Live
<1>9. /\ \A x \in Slots, c \in Cpus : Runs(c, x)' <=> Runs(c, x)
      /\ ~Clearing' /\ ~Exiting' /\ ~Exiting
      /\ \A c \in Cpus : ~Runs(c, p)
  BY DEF Runs, In, Clearing, Exiting, Placed, RunsNoList, Linked, Has
<1>10. LinkedOnce'
  BY <1>5 DEF OneEach, LinkedOnce, Has
<1>11. LinkedByStatus'
  BY <1>6, <1>8, StatusLists DEF Placed, LinkedByStatus
<1>12. Somewhere' /\ RunsAlone' /\ RunsNoList' /\ RunsLive'
  BY <1>1, <1>6, <1>8, <1>9 DEF Placed, Somewhere, RunsAlone, RunsNoList, RunsLive
<1>13. NoWaiters' /\ NoBlockers'
  BY <1>6, <1>8, QueueNames DEF Placed, NoWaiters, NoBlockers
<1>14. ClearsCaller' /\ ClearsOther'
  BY <1>9 DEF Placed, ClearsCaller, ClearsOther
<1>. QED
  BY <1>10, <1>11, <1>12, <1>13, <1>14 DEF Placed

\* Where the tasks of list q go when it is unblocked.
LEMMA Unblocked ==
  ASSUME NEW Q \in Lists, OneEach(Q), NEW q \in Queues, q # Ready,
         queue' = unblock_list(Q, q)
  PROVE  /\ OneEach(queue')
         /\ \A r \in Queues : \A x :
              Has(r, x)' <=> \/ r = Ready /\ (Contains(Q[Ready], x) \/ Contains(Q[q], x))
                             \/ r # Ready /\ r # q /\ Contains(Q[r], x)
<1>1. OneEach(unblock_list(Q, q))
  BY UnblockList
<1>2. \A r \in Queues : \A x :
        Contains(unblock_list(Q, q)[r], x)
          <=> \/ r = Ready /\ (Contains(Q[Ready], x) \/ Contains(Q[q], x))
              \/ r # Ready /\ r # q /\ Contains(Q[r], x)
  BY UnblockList
<1>. QED
  BY <1>1, <1>2 DEF Has

\* An IPC object is destroyed: the tasks blocked on it become ready.
LEMMA Destroy ==
  ASSUME TypeOK, Placed, NEW b \in BlockQueues, destroy(b),
         UNCHANGED <<kernel, current_running, pid>>
  PROVE  Placed'
<1>. DEFINE q == Block(b)
<1>1. queue \in Lists /\ q \in Queues /\ q # Ready /\ Ready \in Queues
  BY QueueNames DEF TypeOK, Lists
<1>2. OneEach(queue)
  BY DEF Placed, LinkedOnce, OneEach, Has
<1>3. /\ OneEach(queue')
      /\ \A r \in Queues : \A x :
           Has(r, x)' <=> \/ r = Ready /\ (Has(Ready, x) \/ Has(q, x))
                          \/ r # Ready /\ r # q /\ Has(r, x)
  <2>1. queue' = unblock_list(queue, q)
    BY DEF destroy
  <2>. QED
    BY <1>1, <1>2, <2>1, Unblocked DEF Has
<1>4. /\ \A x \in Slots : status'[x] = IF Has(q, x) THEN "READY" ELSE status[x]
      /\ \A x \in Slots : Has(q, x) => Live(x) /\ status[x] # "RUNNING"
  BY <1>1, LinkedIsIdle DEF destroy, made_ready, Has, Placed
<1>5. /\ \A x \in Slots : Live(x)' <=> Live(x)
      /\ \A x \in Slots, c \in Cpus : Runs(c, x)' <=> Runs(c, x)
      /\ Clearing' <=> Clearing
      /\ Exiting' <=> Exiting
      /\ ToClear' = ToClear
      /\ \A c \in Cpus : Me(c)' = Me(c)
  <2>1. \A x \in Slots : Live(x)' <=> Live(x)
    BY <1>4 DEF Live
  <2>. QED
    BY <2>1 DEF Runs, In, Clearing, Exiting, ToClear, Me
<1>. HIDE DEF q
<1>6. LinkedOnce'
  BY <1>3 DEF OneEach, LinkedOnce, Has
<1>7. LinkedByStatus'
  <2>1. \A r \in Queues, x \in Slots : r # q /\ Has(r, x) => ~Has(q, x)
    BY <1>1 DEF Placed, LinkedOnce
  <2>. QED
    BY <1>1, <1>3, <1>4, <2>1, StatusLists DEF Placed, LinkedByStatus
<1>8. Somewhere'
  <2>. SUFFICES ASSUME NEW p \in Slots, Live(p)
                PROVE  \/ \E r \in Queues : Has(r, p)'
                       \/ \E d \in Cpus : Runs(d, p)'
    BY <1>5 DEF Somewhere
  <2>. QED
    BY <1>1, <1>3, <1>5 DEF Placed, Somewhere
<1>9. RunsAlone' /\ RunsNoList' /\ RunsLive'
  BY <1>1, <1>3, <1>4, <1>5 DEF Placed, RunsAlone, RunsNoList, RunsLive
<1>10. NoWaiters'
  BY <1>3, <1>5, QueueNames DEF Placed, NoWaiters
<1>11. NoBlockers'
  <2>1. \A x \in BlockQueues : owner'[x] = IF x = b THEN 0 ELSE owner[x]
    BY DEF destroy, TypeOK
  <2>. QED
    BY <1>3, <2>1, QueueNames DEF Placed, NoBlockers, q
<1>12. ClearsCaller' /\ ClearsOther'
  BY <1>5 DEF Placed, ClearsCaller, ClearsOther, Me
<1>. QED
  BY <1>6, <1>7, <1>8, <1>9, <1>10, <1>11, <1>12 DEF Placed

\* One PCB is cleared: the caller, which is in no list, or one that can be unlinked.
LEMMA PlacePcbClear ==
  ASSUME TypeOK, Placed, NEW c \in Cpus, pcb_clear(c), kernel'.op # "fault"
  PROVE  Placed'
<1>1. PICK p \in Slots :
        /\ IsFirst(p, ToClear)
        /\ LET Q == IF p = Me(c) THEN queue ELSE list_del(queue, p)
           IN /\ p = Me(c) \/ Linked(p)
              /\ status' = [made_ready(Q[Wait(p)]) EXCEPT ![p] = "ZOMBIE"]
              /\ queue' = unblock_list(Q, Wait(p))
              /\ kernel' = [kernel EXCEPT !.op = "destroy_ipc"]
  BY DEF pcb_clear, At
<1>. DEFINE Q == IF p = Me(c) THEN queue ELSE list_del(queue, p)
            q == Wait(p)
<1>2. /\ In("pcb_clear", c)
      /\ UNCHANGED <<current_running, pid, owner>>
  BY DEF pcb_clear, identity
<1>3. p \in ToClear /\ Live(p) /\ pid[p] = kernel.pid
  BY <1>1 DEF IsFirst, ToClear
<1>4. p # Me(c) => Linked(p)
  BY <1>1
<1>5. /\ status' = [made_ready(Q[q]) EXCEPT ![p] = "ZOMBIE"]
      /\ queue' = unblock_list(Q, q)
      /\ kernel' = [kernel EXCEPT !.op = "destroy_ipc"]
  BY <1>1, <1>4
<1>6. /\ kernel.op = "pcb_clear" /\ kernel.cpu = c
      /\ Clearing /\ Clearing'
      /\ kernel'.op = "destroy_ipc" /\ kernel'.cpu = c
      /\ kernel'.then = kernel.then /\ kernel'.pid = kernel.pid
      /\ (Exiting <=> kernel.then = "exit") /\ (Exiting' <=> kernel.then = "exit")
  BY <1>2, <1>5 DEF In, Clearing, Exiting, TypeOK
<1>7. \A x \in Slots, d \in Cpus :
        /\ Runs(d, x)' <=> Runs(d, x)
        /\ Runs(d, x) <=> current_running[d] = x
        /\ Me(d)' = Me(d)
  BY <1>2, <1>6 DEF Runs, In, Me
<1>8. /\ queue \in Lists /\ OneEach(queue) /\ Ready \in Queues
      /\ q \in Queues /\ q # Ready
  BY QueueNames DEF TypeOK, Lists, Placed, LinkedOnce, OneEach, Has
<1>9. /\ Q \in Lists /\ OneEach(Q)
      /\ \A r \in Queues : \A x : Contains(Q[r], x) <=> Has(r, x) /\ x # p
  <2>1. CASE p = Me(c)
    <3>1. \A r \in Queues : ~Has(r, p)
      BY <1>7, <2>1 DEF Placed, RunsNoList, Me
    <3>. QED
      BY <1>8, <2>1, <3>1 DEF Has
  <2>2. CASE p # Me(c)
    <3>1. Q = list_del(queue, p)
      BY <2>2
    <3>2. /\ list_del(queue, p) \in Lists /\ OneEach(list_del(queue, p))
          /\ \A r \in Queues : \A x :
               Contains(list_del(queue, p)[r], x) <=> Contains(queue[r], x) /\ x # p
      BY <1>8, ListDel
    <3>. QED
      BY <3>1, <3>2 DEF Has
  <2>. QED
    BY <2>1, <2>2
<1>. HIDE DEF Q, q
<1>10. /\ OneEach(queue')
       /\ \A r \in Queues : \A x :
            Has(r, x)' <=> /\ x # p
                           /\ \/ r = Ready /\ (Has(Ready, x) \/ Has(q, x))
                              \/ r # Ready /\ r # q /\ Has(r, x)
  <2>1. /\ OneEach(queue')
        /\ \A r \in Queues : \A x :
             Has(r, x)' <=> \/ r = Ready /\ (Contains(Q[Ready], x) \/ Contains(Q[q], x))
                            \/ r # Ready /\ r # q /\ Contains(Q[r], x)
    BY <1>5, <1>8, <1>9, Unblocked
  <2>. QED
    BY <1>8, <1>9, <2>1
<1>11. /\ \A x \in Slots : status'[x] = IF x = p THEN "ZOMBIE"
                                        ELSE IF Has(q, x) THEN "READY" ELSE status[x]
       /\ \A x \in Slots : Has(q, x) => Live(x) /\ status[x] # "RUNNING"
  BY <1>5, <1>8, <1>9, LinkedIsIdle DEF made_ready, Placed
<1>12. \A x \in Slots : Live(x)' <=> Live(x) /\ x # p
  BY <1>11 DEF Live
<1>13. LinkedOnce'
  BY <1>10 DEF OneEach, LinkedOnce, Has
<1>14. LinkedByStatus'
  <2>1. \A r \in Queues, x \in Slots : r # q /\ Has(r, x) => ~Has(q, x)
    BY <1>8 DEF Placed, LinkedOnce
  <2>. QED
    BY <1>8, <1>10, <1>11, <2>1, StatusLists DEF Placed, LinkedByStatus
<1>15. Somewhere'
  <2>. SUFFICES ASSUME NEW x \in Slots, Live(x), x # p
                PROVE  \/ \E r \in Queues : Has(r, x)'
                       \/ \E d \in Cpus : Runs(d, x)'
    BY <1>12 DEF Somewhere
  <2>. QED
    BY <1>7, <1>8, <1>10 DEF Placed, Somewhere
<1>16. RunsAlone' /\ RunsNoList'
  BY <1>7, <1>8, <1>10 DEF Placed, RunsAlone, RunsNoList
<1>17. RunsLive'
  <2>1. \A d \in Cpus : Runs(d, p) => Exiting /\ d = c
    <3>1. p = Me(c) => Exiting
      BY <1>3, <1>6, NumTaskAssumption DEF Placed, ClearsOther, Idle, Slots
    <3>2. \A d \in Cpus : p = Me(c) /\ Runs(d, p) => d = c
      BY <1>7 DEF Placed, RunsAlone, Me
    <3>3. \A d \in Cpus : p # Me(c) => ~Runs(d, p)
      BY <1>4 DEF Placed, RunsNoList, Linked, Has
    <3>. QED
      BY <3>1, <3>2, <3>3
  <2>. QED
    BY <1>6, <1>7, <1>11, <1>12, <2>1 DEF Placed, RunsLive
<1>18. NoWaiters' /\ NoBlockers'
  BY <1>2, <1>10, <1>12, QueueNames DEF Placed, NoWaiters, NoBlockers, q
<1>19. ClearsCaller' /\ ClearsOther'
  BY <1>2, <1>6, <1>7 DEF Placed, ClearsCaller, ClearsOther
<1>. QED
  BY <1>13, <1>14, <1>15, <1>16, <1>17, <1>18, <1>19 DEF Placed

LEMMA PlaceDestroyIpc ==
  ASSUME TypeOK, Placed, NEW c \in Cpus, destroy_ipc(c)
  PROVE  Placed'
<1>1. UNCHANGED <<current_running, pid>>
  BY DEF destroy_ipc, identity
<1>2. ASSUME NEW b \in BlockQueues, destroy(b), UNCHANGED kernel
      PROVE  Placed'
  BY <1>1, <1>2, Destroy
<1>3. CASE /\ kernel' = [kernel EXCEPT !.op = "pcb_clear"]
           /\ UNCHANGED <<status, queue, owner>>
  <2>1. /\ \A q, p : Has(q, p)' <=> Has(q, p)
        /\ Clearing /\ Clearing'
        /\ kernel'.op = "pcb_clear" /\ kernel'.cpu = kernel.cpu
        /\ kernel'.then = kernel.then /\ kernel'.pid = kernel.pid
        /\ kernel.op # "exec_next_task"
    BY <1>3 DEF Has, Clearing, destroy_ipc, In, TypeOK
  <2>2. /\ \A p \in Slots : Live(p)' <=> Live(p)
        /\ \A p \in Slots, d \in Cpus : Runs(d, p)' <=> Runs(d, p)
        /\ Exiting' <=> Exiting
        /\ \A d \in Cpus : Me(d)' = Me(d)
        /\ ToClear' = ToClear
    BY <1>1, <1>3, <2>1 DEF Live, Runs, In, Exiting, Me, ToClear
  <2>3. LinkedOnce' /\ LinkedByStatus'
    BY <1>3, <2>1 DEF Placed, LinkedOnce, LinkedByStatus
  <2>4. Somewhere' /\ RunsAlone' /\ RunsNoList' /\ RunsLive'
    BY <1>3, <2>1, <2>2 DEF Placed, Somewhere, RunsAlone, RunsNoList, RunsLive
  <2>5. NoWaiters' /\ NoBlockers'
    BY <1>1, <1>3, <2>1, <2>2 DEF Placed, NoWaiters, NoBlockers
  <2>6. ClearsCaller' /\ ClearsOther'
    BY <1>1, <2>1, <2>2 DEF Placed, ClearsCaller, ClearsOther, Me
  <2>. QED
    BY <2>3, <2>4, <2>5, <2>6 DEF Placed
<1>. QED
  BY <1>2, <1>3 DEF destroy_ipc

\* The caller of leave_task, if it was cleared, gives up its CPU.
LEMMA PlaceLeaveTask ==
  ASSUME TypeOK, Placed, NEW c \in Cpus, leave_task(c)
  PROVE  Placed'
<1>1. /\ In("pcb_clear", c) /\ ToClear = {}
      /\ kernel' = IF kernel.then = "exit" THEN At("exec_next_task", c) ELSE InUser
      /\ UNCHANGED Places
  BY DEF leave_task, identity, Places
<1>2. /\ Clearing /\ (Exiting <=> kernel.then = "exit") /\ kernel.cpu = c
      /\ kernel.op # "exec_next_task"
      /\ ~Clearing' /\ ~Exiting'
      /\ kernel'.op = IF kernel.then = "exit" THEN "exec_next_task" ELSE "user"
      /\ kernel.then = "exit" => kernel'.cpu = c
  BY <1>1 DEF In, Clearing, Exiting, At, InUser
<1>3. /\ \A q, p : Has(q, p)' <=> Has(q, p)
      /\ \A p \in Slots : Live(p)' <=> Live(p)
      /\ \A p \in Slots, d \in Cpus :
           Runs(d, p)' <=> Runs(d, p) /\ ~(kernel.then = "exit" /\ d = c)
  BY <1>1, <1>2 DEF Places, Has, Live, Runs, In
<1>4. \A p \in Slots : Exiting /\ Runs(c, p) => ~Live(p)
  BY <1>1, <1>2 DEF Placed, ClearsCaller, ToClear, Runs, Me
<1>5. LinkedOnce' /\ LinkedByStatus'
  BY <1>1, <1>3 DEF Placed, LinkedOnce, LinkedByStatus, Places
<1>6. Somewhere'
  BY <1>2, <1>3, <1>4 DEF Placed, Somewhere
<1>7. RunsAlone' /\ RunsNoList'
  BY <1>3 DEF Placed, RunsAlone, RunsNoList
<1>8. RunsLive'
  BY <1>1, <1>2, <1>3 DEF Placed, RunsLive, Places
<1>9. NoWaiters' /\ NoBlockers'
  BY <1>1, <1>3 DEF Placed, NoWaiters, NoBlockers, Places
<1>10. ClearsCaller' /\ ClearsOther'
  BY <1>2 DEF ClearsCaller, ClearsOther
<1>. QED
  BY <1>5, <1>6, <1>7, <1>8, <1>9, <1>10 DEF Placed

\* The next task leaves the ready queue for the CPU that had none.
LEMMA PlaceExecNextTask ==
  ASSUME TypeOK, Placed, NEW c \in Cpus, exec_next_task(c)
  PROVE  Placed'
<1>1. /\ kernel.op = "exec_next_task" /\ kernel.cpu = c
      /\ ~Clearing /\ ~Exiting /\ ~Clearing' /\ ~Exiting'
      /\ kernel'.op # "exec_next_task"
      /\ UNCHANGED <<pid, owner>>
  BY DEF exec_next_task, In, Clearing, Exiting, InUser, At, identity
<1>2. \A d \in Cpus, x \in Slots :
        /\ Runs(d, x) <=> current_running[d] = x /\ d # c
        /\ Runs(d, x)' <=> current_running'[d] = x
  BY <1>1 DEF Runs, In
<1>3. ClearsCaller' /\ ClearsOther'
  BY <1>1 DEF Placed, ClearsCaller, ClearsOther
<1>4. CASE /\ current_running' = [current_running EXCEPT ![c] = Idle]
           /\ UNCHANGED <<queue, status>>
  <2>1. /\ \A q, x : Has(q, x)' <=> Has(q, x)
        /\ \A x \in Slots : Live(x)' <=> Live(x)
        /\ \A x \in Slots, d \in Cpus : Runs(d, x)' <=> Runs(d, x)
    BY <1>2, <1>4, NumTaskAssumption DEF Has, Live, TypeOK, Idle, Slots
  <2>2. LinkedOnce' /\ LinkedByStatus'
    BY <1>4, <2>1 DEF Placed, LinkedOnce, LinkedByStatus
  <2>3. Somewhere' /\ RunsAlone' /\ RunsNoList' /\ RunsLive'
    BY <1>1, <1>4, <2>1 DEF Placed, Somewhere, RunsAlone, RunsNoList, RunsLive
  <2>4. NoWaiters' /\ NoBlockers'
    BY <1>1, <1>4, <2>1 DEF Placed, NoWaiters, NoBlockers
  <2>. QED
    BY <1>3, <2>2, <2>3, <2>4 DEF Placed
<1>5. ASSUME NEW i \in DOMAIN queue[Ready],
             current_running' = [current_running EXCEPT ![c] = queue[Ready][i]],
             queue' = list_del(queue, queue[Ready][i]),
             status' = [status EXCEPT ![queue[Ready][i]] = "RUNNING"]
      PROVE  Placed'
  <2>. DEFINE p == queue[Ready][i]
  <2>1. Ready \in Queues /\ p \in Slots /\ Has(Ready, p)
    BY QueueNames, QueuedSlots DEF Has, Contains
  <2>2. queue \in Lists /\ OneEach(queue)
    BY DEF TypeOK, Lists, Placed, LinkedOnce, OneEach, Has
  <2>3. /\ OneEach(queue')
        /\ \A r \in Queues : \A x : Has(r, x)' <=> Has(r, x) /\ x # p
    <3>1. /\ OneEach(list_del(queue, p))
          /\ \A r \in Queues : \A x :
               Contains(list_del(queue, p)[r], x) <=> Contains(queue[r], x) /\ x # p
      BY <2>1, <2>2, ListDel, ZenonT(60)
    <3>. QED
      BY <1>5, <3>1 DEF Has
  <2>4. Live(p) /\ \A d \in Cpus : ~Runs(d, p)
    BY <2>1, LinkedIsIdle DEF Placed, RunsNoList
  <2>5. /\ \A x \in Slots : status'[x] = IF x = p THEN "RUNNING" ELSE status[x]
        /\ \A d \in Cpus : current_running'[d] = IF d = c THEN p ELSE current_running[d]
    BY <1>5, <2>1 DEF TypeOK
  <2>. HIDE DEF p
  <2>6. /\ \A x \in Slots : Live(x)' <=> Live(x)
        /\ \A x \in Slots, d \in Cpus :
             Runs(d, x)' <=> IF d = c THEN x = p ELSE Runs(d, x)
    BY <1>2, <2>4, <2>5 DEF Live
  <2>7. LinkedOnce'
    BY <2>3 DEF OneEach, LinkedOnce, Has
  <2>8. LinkedByStatus'
    BY <2>3, <2>5 DEF Placed, LinkedByStatus
  <2>9. Somewhere'
    <3>. SUFFICES ASSUME NEW x \in Slots, Live(x)
                  PROVE  \/ \E r \in Queues : Has(r, x)'
                         \/ \E d \in Cpus : Runs(d, x)'
      BY <2>6 DEF Somewhere
    <3>. QED
      BY <1>2, <2>3, <2>6 DEF Placed, Somewhere
  <2>10. RunsAlone' /\ RunsNoList' /\ RunsLive'
    BY <1>1, <2>1, <2>3, <2>4, <2>5, <2>6 DEF Placed, RunsAlone, RunsNoList, RunsLive
  <2>11. NoWaiters' /\ NoBlockers'
    BY <1>1, <2>3, <2>6, QueueNames DEF Placed, NoWaiters, NoBlockers
  <2>. QED
    BY <1>3, <2>7, <2>8, <2>9, <2>10, <2>11 DEF Placed
<1>. QED
  BY <1>4, <1>5, NextTask

\* A zombie PCB becomes a ready task.  Nobody waits for it.
LEMMA NewTask ==
  ASSUME TypeOK, Placed, kernel.op = "user", NEW p \in Slots, ~Live(p), NEW k,
         status' = [status EXCEPT ![p] = "READY"],
         pid' = [pid EXCEPT ![p] = k],
         queue' = [list_add_tail(queue, Ready, p) EXCEPT ![Wait(p)] = <<>>],
         UNCHANGED <<kernel, current_running, owner>>
  PROVE  Placed'
<1>1. ~Live(p) /\ Ready \in Queues /\ Wait(p) \in Queues /\ Wait(p) # Ready
  BY QueueNames
<1>2. \A r \in Queues : ~Has(r, p)
  BY <1>1, StatusLists DEF Live, Placed, LinkedByStatus
<1>3. \A x \in Slots : ~Has(Wait(p), x)
  BY <1>1 DEF Placed, NoWaiters
<1>4. /\ \A d \in Cpus, x \in Slots : Runs(d, x)' <=> Runs(d, x)
      /\ \A d \in Cpus : ~Runs(d, p)
      /\ ~Clearing' /\ ~Exiting' /\ ~Exiting
  BY <1>1 DEF Runs, In, Clearing, Exiting, Placed, RunsLive, Live
<1>5. /\ \A x \in Slots : status'[x] = IF x = p THEN "READY" ELSE status[x]
      /\ \A x \in Slots : pid'[x] = IF x = p THEN k ELSE pid[x]
      /\ \A x \in Slots : Live(x)' <=> x = p \/ Live(x)
  BY DEF TypeOK, Live
<1>6. queue \in Lists /\ OneEach(queue)
  BY DEF TypeOK, Lists, Placed, LinkedOnce, OneEach, Has
<1>. DEFINE A == list_add_tail(queue, Ready, p)
<1>7. /\ A \in Lists /\ OneEach(A)
      /\ \A r \in Queues : \A x : Contains(A[r], x) <=> Has(r, x) \/ (r = Ready /\ x = p)
  BY <1>1, <1>2, <1>6, ListAddTail DEF Has
<1>8. \A r \in Queues : queue'[r] = IF r = Wait(p) THEN <<>> ELSE A[r]
  BY <1>7 DEF Lists
<1>. HIDE DEF A
<1>9. \A x : ~Contains(<<>>, x)
  BY DEF Contains
<1>10. \A r \in Queues, x \in Slots : Has(r, x)' <=> Has(r, x) \/ (r = Ready /\ x = p)
  BY <1>1, <1>3, <1>7, <1>8, <1>9 DEF Has
<1>11. LinkedOnce'
  <2>1. \A r \in Queues : IsInjective(queue'[r])
    BY <1>7, <1>8 DEF OneEach, IsInjective
  <2>2. \A q, r \in Queues, x \in Slots : Has(q, x)' /\ Has(r, x)' => q = r
    BY <1>2, <1>10 DEF Placed, LinkedOnce
  <2>. QED
    BY <2>1, <2>2 DEF LinkedOnce
<1>12. LinkedByStatus'
  BY <1>2, <1>5, <1>10, StatusLists DEF Placed, LinkedByStatus
<1>13. Somewhere' /\ RunsAlone' /\ RunsNoList' /\ RunsLive'
  BY <1>1, <1>4, <1>5, <1>10 DEF Placed, Somewhere, RunsAlone, RunsNoList, RunsLive
<1>14. NoWaiters' /\ NoBlockers'
  BY <1>5, <1>10, QueueNames DEF Placed, NoWaiters, NoBlockers
<1>15. ClearsCaller' /\ ClearsOther'
  BY <1>4 DEF ClearsCaller, ClearsOther
<1>. QED
  BY <1>11, <1>12, <1>13, <1>14, <1>15 DEF Placed

LEMMA PlaceNewProcess ==
  ASSUME TypeOK, Placed, NEW c \in Cpus, NEW mask, Trap(c), new_process(c, mask)
  PROVE  Placed'
<1>1. /\ kernel.op = "user" /\ ~Clearing /\ kernel.op # "exec_next_task"
      /\ UNCHANGED <<current_running, owner>>
  BY DEF Trap, new_process, Clearing
<1>2. CASE kernel' = At("panic", c) /\ UNCHANGED <<status, identity, queue>>
  BY <1>1, <1>2, Advance DEF Places, identity, At
<1>3. ASSUME NEW p \in Slots,
             IsFirst(p, Zombies),
             status' = [status EXCEPT ![p] = "READY"],
             pid' = [pid EXCEPT ![p] = process_id],
             queue' = [list_add_tail(queue, Ready, p) EXCEPT ![Wait(p)] = <<>>],
             UNCHANGED kernel
      PROVE  Placed'
  <2>1. ~Live(p)
    BY <1>3 DEF IsFirst, Zombies
  <2>. QED
    BY <1>1, <1>3, <2>1, NewTask
<1>. QED
  BY <1>2, <1>3 DEF new_process

-----------------------------------------------------------------------------
(* Every step keeps Placed, unless pcb_clear meets a PCB that is in no list.*)

LEMMA PlaceCheckKilled ==
  ASSUME TypeOK, Placed, NEW c \in Cpus, Trap(c), check_killed(c), UNCHANGED Places
  PROVE  Placed'
BY Enter DEF check_killed, Doomed, Trap, Me

LEMMA PlaceDoScheduler ==
  ASSUME TypeOK, Placed, NEW c \in Cpus, do_scheduler(c)
  PROVE  Placed'
<1>1. UNCHANGED Places /\ Trap(c)
  BY DEF do_scheduler, identity, Places
<1>2. CASE kernel' = [At("check_sleeping", c) EXCEPT !.then = "yield"]
  BY <1>1, <1>2, Advance DEF Trap, Clearing, At
<1>. QED
  BY <1>1, <1>2, PlaceCheckKilled DEF do_scheduler

LEMMA PlaceDoSleep ==
  ASSUME TypeOK, Placed, NEW c \in Cpus, do_sleep(c)
  PROVE  Placed'
<1>1. UNCHANGED Places /\ Trap(c)
  BY DEF do_sleep, Syscall, identity, Places
<1>2. CASE kernel' = [At("check_sleeping", c) EXCEPT !.then = "sleep"]
  BY <1>1, <1>2, Advance DEF Trap, Clearing, At
<1>. QED
  BY <1>1, <1>2, PlaceCheckKilled DEF do_sleep

LEMMA PlaceCheckSleeping ==
  ASSUME TypeOK, Placed, NEW c \in Cpus, check_sleeping(c)
  PROVE  Placed'
<1>1. /\ UNCHANGED <<current_running, pid, owner>>
      /\ ~Clearing /\ kernel.op # "exec_next_task"
  BY DEF check_sleeping, identity, In, Clearing
<1>2. ASSUME NEW i \in DOMAIN queue[Sleep],
             status' = [status EXCEPT ![queue[Sleep][i]] = "READY"],
             queue' = list_add_tail(list_del(queue, queue[Sleep][i]), Ready,
                                    queue[Sleep][i]),
             UNCHANGED kernel
      PROVE  Placed'
  <2>1. queue[Sleep][i] \in Slots /\ Linked(queue[Sleep][i])
    BY QueueNames, QueuedSlots DEF Linked, Contains
  <2>. QED
    BY <1>1, <1>2, <2>1, Wake
<1>3. CASE proc_schedule(c, Ready, "READY")
  <2>1. /\ Ready \in Queues /\ "READY" \in Statuses /\ Ready \in ListsOf("READY")
        /\ \A p \in Slots : Ready # Wait(p)
        /\ \A b \in BlockQueues : Ready # Block(b)
    BY QueueNames, StatusLists DEF Statuses
  <2>. QED
    BY <1>1, <1>3, <2>1, GiveUp
<1>4. CASE proc_schedule(c, Sleep, "SLEEPING")
  <2>1. /\ Sleep \in Queues /\ "SLEEPING" \in Statuses /\ Sleep \in ListsOf("SLEEPING")
        /\ \A p \in Slots : Sleep # Wait(p)
        /\ \A b \in BlockQueues : Sleep # Block(b)
    BY QueueNames, StatusLists DEF Statuses
  <2>. QED
    BY <1>1, <1>4, <2>1, GiveUp
<1>. QED
  BY <1>2, <1>3, <1>4 DEF check_sleeping

LEMMA PlaceDoBlock ==
  ASSUME TypeOK, Placed, NEW c \in Cpus, NEW b \in BlockQueues, owner[b] # 0,
         do_block(c, b)
  PROVE  Placed'
<1>1. /\ UNCHANGED <<current_running, pid, owner>>
      /\ ~Clearing /\ kernel.op # "exec_next_task"
      /\ proc_schedule(c, Block(b), "BLOCKED")
  BY DEF do_block, Syscall, Trap, Clearing, identity
<1>2. /\ Block(b) \in Queues /\ "BLOCKED" \in Statuses /\ Block(b) \in ListsOf("BLOCKED")
      /\ \A p \in Slots : Block(b) # Wait(p)
      /\ \A a \in BlockQueues : Block(b) = Block(a) => owner[a] # 0
  BY QueueNames, StatusLists DEF Statuses
<1>. QED
  BY <1>1, <1>2, GiveUp

LEMMA PlaceDoUnblock ==
  ASSUME TypeOK, Placed, NEW c \in Cpus, NEW b \in BlockQueues, do_unblock(c, b)
  PROVE  Placed'
<1>. DEFINE p == Head(queue[Block(b)])
<1>1. /\ UNCHANGED <<kernel, current_running, pid, owner>>
      /\ ~Clearing
  BY DEF do_unblock, Syscall, Trap, Clearing, identity
<1>2. Block(b) \in Queues /\ queue[Block(b)] \in Seq(Slots) /\ queue[Block(b)] # <<>>
  BY QueueNames DEF TypeOK, do_unblock
<1>3. 1 \in DOMAIN queue[Block(b)] /\ p = queue[Block(b)][1]
  BY <1>2, HeadTailProperties, LenProperties, EmptySeq
<1>4. p \in Slots /\ Linked(p)
  BY <1>2, <1>3, QueuedSlots DEF Linked, Contains
<1>5. /\ queue' = list_add_tail(list_del(queue, p), Ready, p)
      /\ status' = [status EXCEPT ![p] = "READY"]
  BY DEF do_unblock
<1>. QED
  BY <1>1, <1>4, <1>5, Wake

LEMMA PlaceDoWaitpid ==
  ASSUME TypeOK, Placed, NEW c \in Cpus, NEW k, do_waitpid(c, k)
  PROVE  Placed'
<1>1. /\ UNCHANGED <<current_running, pid, owner>>
      /\ ~Clearing /\ kernel.op # "exec_next_task"
  BY DEF do_waitpid, Syscall, Trap, Clearing, identity
<1>2. PICK p \in Slots : Live(p) /\ proc_schedule(c, Wait(p), "WAITING")
  BY DEF do_waitpid, IsFirst
<1>3. /\ Wait(p) \in Queues /\ "WAITING" \in Statuses /\ Wait(p) \in ListsOf("WAITING")
      /\ \A x \in Slots : Wait(p) = Wait(x) => Live(x)
      /\ \A b \in BlockQueues : Wait(p) # Block(b)
  BY <1>2, QueueNames, StatusLists DEF Statuses
<1>. QED
  BY <1>1, <1>2, <1>3, GiveUp

LEMMA PlaceDoKill ==
  ASSUME TypeOK, Placed, NEW c \in Cpus, NEW k, do_kill(c, k)
  PROVE  Placed'
<1>1. UNCHANGED Places /\ kernel.op = "user" /\ ~Clearing
  BY DEF do_kill, Syscall, Trap, Clearing, identity, Places
<1>2. CASE UNCHANGED kernel
  BY <1>1, <1>2, Keep
<1>3. CASE kernel' = At("spin", c)
  BY <1>1, <1>3, Advance DEF At
<1>4. CASE kernel' = Leave(c, k, "kill") /\ k \notin {PidOf(Me(0)), PidOf(Me(1))}
  <2>1. \A d \in Cpus : Me(d) # Idle => pid[Me(d)] # k
    BY <1>4 DEF Cpus, PidOf
  <2>. QED
    BY <1>1, <1>4, <2>1, Enter
<1>. QED
  BY <1>2, <1>3, <1>4 DEF do_kill

\* The free IPC object that is taken has an empty queue to reset.
LEMMA PlaceIpcInit ==
  ASSUME TypeOK, Placed, NEW c \in Cpus, ipc_init(c)
  PROVE  Placed'
<1>1. /\ UNCHANGED <<current_running, status, pid>>
      /\ kernel.op = "user" /\ ~Clearing
  BY DEF ipc_init, Syscall, Trap, Clearing, identity
<1>2. ASSUME NEW b \in BlockQueues, owner[b] = 0,
             owner' = [owner EXCEPT ![b] = pid[Me(c)]],
             queue' = [queue EXCEPT ![Block(b)] = <<>>],
             UNCHANGED kernel
      PROVE  Placed'
  <2>1. queue' = queue
    <3>1. Block(b) \in Queues /\ queue[Block(b)] \in Seq(Slots)
      BY QueueNames DEF TypeOK
    <3>2. \A x \in Slots : ~Contains(queue[Block(b)], x)
      BY <1>2 DEF Placed, NoBlockers, Has
    <3>3. queue[Block(b)] = <<>>
      <4>. SUFFICES ASSUME queue[Block(b)] # <<>> PROVE FALSE
        OBVIOUS
      <4>1. 1 \in DOMAIN queue[Block(b)]
        BY <3>1, LenProperties, EmptySeq
      <4>2. queue[Block(b)][1] \in Slots
        BY <3>1, <4>1, QueuedSlots
      <4>. QED
        BY <3>2, <4>1, <4>2 DEF Contains
    <3>. QED
      BY <1>2, <3>1, <3>3 DEF TypeOK
  <2>2. /\ \A q, p : Has(q, p)' <=> Has(q, p)
        /\ \A p \in Slots : Live(p)' <=> Live(p)
        /\ \A p \in Slots, d \in Cpus : Runs(d, p)' <=> Runs(d, p)
        /\ ~Clearing' /\ ~Exiting' /\ ~Exiting
    BY <1>1, <1>2, <2>1 DEF Has, Live, Runs, In, Clearing, Exiting
  <2>3. LinkedOnce' /\ LinkedByStatus'
    BY <1>1, <2>1, <2>2 DEF Placed, LinkedOnce, LinkedByStatus
  <2>4. Somewhere' /\ RunsAlone' /\ RunsNoList' /\ RunsLive'
    BY <1>1, <2>2 DEF Placed, Somewhere, RunsAlone, RunsNoList, RunsLive
  <2>5. NoWaiters' /\ NoBlockers'
    BY <1>1, <1>2, <2>2 DEF Placed, NoWaiters, NoBlockers, TypeOK
  <2>6. ClearsCaller' /\ ClearsOther'
    BY <1>2, <2>2 DEF Placed, ClearsCaller, ClearsOther
  <2>. QED
    BY <2>3, <2>4, <2>5, <2>6 DEF Placed
<1>3. CASE kernel' = At("corrupt", c) /\ UNCHANGED <<owner, queue>>
  BY <1>1, <1>3, Advance DEF Places, At
<1>. QED
  BY <1>2, <1>3 DEF ipc_init, IsFirst

LEMMA PlaceSystemCall ==
  ASSUME TypeOK, Placed, NEW c \in Cpus, SystemCall(c)
  PROVE  Placed'
<1>1. CASE do_sleep(c)
  BY <1>1, PlaceDoSleep
<1>2. CASE do_exec(c)
  BY <1>2, PlaceNewProcess DEF do_exec, Syscall
<1>3. CASE do_fork(c)
  <2>1. CASE new_process(c, core_mask[Me(c)])
    BY <1>3, <2>1, PlaceNewProcess DEF do_fork, Syscall
  <2>2. CASE kernel' = At("panic", c) /\ UNCHANGED Places
    BY <1>3, <2>2, Advance DEF do_fork, Syscall, Trap, Clearing, At
  <2>. QED
    BY <1>3, <2>1, <2>2 DEF do_fork, Places, identity
<1>4. CASE do_exit(c)
  <2>1. UNCHANGED Places /\ kernel.op = "user" /\ Me(c) # Idle
    BY <1>4 DEF do_exit, Syscall, Trap, Places, identity, Me
  <2>. QED
    BY <1>4, <2>1, Enter DEF do_exit
<1>5. CASE \E k \in 1 .. MaxPid : do_kill(c, k) \/ do_waitpid(c, k)
  BY <1>5, PlaceDoKill, PlaceDoWaitpid
<1>6. CASE \E k \in 1 .. MaxPid, m \in Masks : do_taskset(c, k, m)
  <2>1. UNCHANGED Places /\ UNCHANGED kernel
    BY <1>6 DEF do_taskset, Places
  <2>. QED
    BY <2>1, Keep
<1>7. CASE ipc_init(c)
  BY <1>7, PlaceIpcInit
<1>9. ASSUME NEW m \in Masks, do_taskset_exec(c, m) PROVE Placed'
  BY <1>9, PlaceNewProcess DEF do_taskset_exec, Syscall
<1>8. ASSUME NEW b \in BlockQueues, owner[b] # 0,
             ipc_destroy(c, b) \/ do_block(c, b) \/ do_unblock(c, b)
      PROVE  Placed'
  <2>1. CASE ipc_destroy(c, b)
    BY <2>1, Destroy DEF ipc_destroy, identity
  <2>. QED
    BY <1>8, <2>1, PlaceDoBlock, PlaceDoUnblock
<1>. QED
  BY <1>1, <1>2, <1>3, <1>4, <1>5, <1>6, <1>7, <1>8, <1>9 DEF SystemCall

LEMMA PlacedNext ==
  ASSUME TypeOK, Placed, [Next]_vars, kernel'.op # "fault"
  PROVE  Placed'
<1>1. ASSUME NEW c \in Cpus, do_scheduler(c) PROVE Placed'
  BY <1>1, PlaceDoScheduler
<1>2. ASSUME NEW c \in Cpus, SystemCall(c) PROVE Placed'
  BY <1>2, PlaceSystemCall
<1>3. ASSUME NEW c \in Cpus, KernelStep(c) PROVE Placed'
  BY <1>3, PlaceExecNextTask, PlaceCheckSleeping, PlacePcbClear, PlaceDestroyIpc,
     PlaceLeaveTask DEF KernelStep
<1>4. ASSUME NEW p \in Slots, Expire(p) PROVE Placed'
  <2>1. UNCHANGED Places /\ UNCHANGED kernel
    BY <1>4 DEF Expire, Places, identity
  <2>. QED
    BY <2>1, Keep
<1>5. CASE UNCHANGED vars
  BY <1>5, Keep DEF vars, identity, Places
<1>. QED
  BY <1>1, <1>2, <1>3, <1>4, <1>5 DEF Next, Hang

\* A list that links nobody is empty.
LEMMA NoElements ==
  ASSUME NEW s \in Seq(Slots), \A x \in Slots : ~Contains(s, x)
  PROVE  s = <<>>
<1>. SUFFICES ASSUME s # <<>> PROVE FALSE
  OBVIOUS
<1>1. 1 \in DOMAIN s /\ 1 \in 1 .. Len(s)
  BY LenProperties, EmptySeq
<1>2. s[1] \in Slots
  BY <1>1, ElementOfSeq
<1>. QED
  BY <1>1, <1>2 DEF Contains

-----------------------------------------------------------------------------
(* Only the start of a process and pcb_clear make a PCB live or dead; any   *)
(* other step leaves the lists alone (Still) or moves tasks in one of four  *)
(* ways.                                                                    *)

Still == UNCHANGED <<status, queue>>

\* The caller leaves its CPU for the tail of list q.
Joins(c, q, st) ==
  /\ q \in ListsOf(st) /\ st # "ZOMBIE"
  /\ \A p \in Slots : q = Wait(p) => Live(p)
  /\ current_running[c] \in Slots /\ kernel.op \in {"user", "check_sleeping"}
  /\ st = "SLEEPING" => In("check_sleeping", c) /\ kernel.then = "sleep" /\ UNCHANGED expired
  /\ status' = [status EXCEPT ![current_running[c]] = st]
  /\ queue' = list_add_tail(queue, q, current_running[c])

\* Task p of list q becomes ready.
Wakes(q, p) ==
  /\ q = Sleep \/ \E b \in BlockQueues : q = Block(b)
  /\ Contains(queue[q], p)
  /\ q = Sleep => p \in expired
  /\ status' = [status EXCEPT ![p] = "READY"]
  /\ queue' = list_add_tail(list_del(queue, p), Ready, p)

\* The tasks blocked on an IPC object become ready.
Frees(b) ==
  /\ status' = made_ready(queue[Block(b)])
  /\ queue' = unblock_list(queue, Block(b))

\* The i-th task of the ready queue is picked by CPU c.
Picks(c, i) ==
  /\ In("exec_next_task", c)
  /\ Eligible(queue[Ready][i], c)
  /\ \A j \in 1 .. i-1 : ~Eligible(queue[Ready][j], c)
  /\ current_running' = [current_running EXCEPT ![c] = queue[Ready][i]]
  /\ queue' = list_del(queue, queue[Ready][i])
  /\ status' = [status EXCEPT ![queue[Ready][i]] = "RUNNING"]

Moves ==
  \/ Still
  \/ \E c \in Cpus, q \in Queues, st \in Statuses : Joins(c, q, st)
  \/ \E q \in Queues, p \in Slots : Wakes(q, p)
  \/ \E b \in BlockQueues : Frees(b)
  \/ \E c \in Cpus, i \in DOMAIN queue[Ready] : Picks(c, i)

\* The two steps that make a PCB live or dead.
Starts(p) ==
  /\ kernel.op = "user" /\ ~Live(p)
  /\ status' = [status EXCEPT ![p] = "READY"]
  /\ pid' = [pid EXCEPT ![p] = process_id]
  /\ tid' = [tid EXCEPT ![p] = 0]
  /\ queue' = [list_add_tail(queue, Ready, p) EXCEPT ![Wait(p)] = <<>>]
  /\ run_tasks' = Append(run_tasks, p)
  /\ process_id <= MaxPid /\ process_id' = process_id + 1
  /\ context' = [context EXCEPT ![p] = ToUser]
  /\ UNCHANGED <<kernel, current_running, expired>>

\* pcb_clear of PCB p.
Clears(c, p) ==
  /\ In("pcb_clear", c) /\ p \in ToClear
  /\ LET Q == IF p = Me(c) THEN queue ELSE list_del(queue, p)
     IN /\ status' = [made_ready(Q[Wait(p)]) EXCEPT ![p] = "ZOMBIE"]
        /\ queue' = unblock_list(Q, Wait(p))
  /\ kernel' = [kernel EXCEPT !.op = "destroy_ipc"]
  /\ UNCHANGED <<pid, tid, context, run_tasks, process_id, current_running, expired>>

\* pcb_clear of a PCB that is in no list.
Faults(c, p) ==
  /\ In("pcb_clear", c) /\ p \in ToClear /\ p # Me(c) /\ ~Linked(p)
  /\ kernel'.op = "fault"

\* What a step does to run_tasks and to the kernel: a process begins to be cleared,
\* or has been, or neither.
EntersClear ==
  /\ ~Clearing /\ kernel'.op = "pcb_clear" /\ UNCHANGED <<run_tasks, current_running>>
  /\ \E v \in Slots :
       Live(v) /\ pid[v] = kernel'.pid /\ (kernel'.then = "exit" => v = Me(kernel'.cpu))
LeavesClear ==
  /\ kernel.op = "pcb_clear" /\ ToClear = {} /\ kernel'.op \in {"exec_next_task", "user"}
  /\ \E i \in DOMAIN run_tasks :
       pid[run_tasks[i]] = kernel.pid /\ run_tasks' = RemoveAt(run_tasks, i)
SameClear ==
  /\ UNCHANGED run_tasks /\ (Clearing' <=> Clearing)
  /\ Clearing => /\ UNCHANGED current_running
                 /\ kernel'.pid = kernel.pid
                 /\ kernel'.cpu = kernel.cpu /\ kernel'.then = kernel.then
  /\ kernel'.op = "fault" => kernel.op = "fault"
  /\ kernel'.op = "resume" => UNCHANGED <<kernel, current_running>> \/ Resumes'

Plain ==
  /\ Moves
  /\ UNCHANGED <<pid, tid, context, process_id>>
  /\ EntersClear \/ LeavesClear \/ SameClear

Held == <<current_running, pid, tid, context, process_id, run_tasks>>

LEMMA SameKernel ==
  ASSUME UNCHANGED <<run_tasks, kernel, current_running>>
  PROVE  SameClear
<1>1. Clearing' <=> Clearing
  BY DEF Clearing
<1>. QED
  BY <1>1 DEF SameClear

LEMMA CallerLives ==
  ASSUME TypeOK, Placed, NEW c \in Cpus, current_running[c] # Idle,
         kernel.op \in {"user", "check_sleeping"}
  PROVE  current_running[c] \in Slots /\ Live(current_running[c])
<1>1. current_running[c] \in Slots
  BY DEF TypeOK
<1>. QED
  BY <1>1, RunningHere DEF Clearing

LEMMA SchedulesPlainly ==
  ASSUME TypeOK, Placed, NEW c \in Cpus, NEW q \in Queues, NEW st \in Statuses,
         proc_schedule(c, q, st), q \in ListsOf(st), st # "ZOMBIE",
         \A p \in Slots : q = Wait(p) => Live(p),
         kernel.op \in {"user", "check_sleeping"},
         st = "SLEEPING" => In("check_sleeping", c) /\ kernel.then = "sleep" /\ UNCHANGED expired,
         UNCHANGED Held
  PROVE  Plain
<1>1. SameClear
  BY DEF Held, proc_schedule, SameClear, Clearing, At
<1>2. CASE current_running[c] = Idle
  BY <1>1, <1>2 DEF Held, proc_schedule, Plain, Moves, Still
<1>3. CASE current_running[c] # Idle
  <2>1. Joins(c, q, st)
    BY <1>3 DEF Joins, TypeOK, proc_schedule
  <2>. QED
    BY <1>1, <2>1 DEF Held, Plain, Moves
<1>. QED
  BY <1>2, <1>3

LEMMA WakesPlainly ==
  ASSUME TypeOK, NEW q \in Queues, NEW i \in DOMAIN queue[q],
         q = Sleep \/ \E b \in BlockQueues : q = Block(b),
         q = Sleep => queue[q][i] \in expired,
         status' = [status EXCEPT ![queue[q][i]] = "READY"],
         queue' = list_add_tail(list_del(queue, queue[q][i]), Ready, queue[q][i]),
         UNCHANGED <<kernel, Held>>
  PROVE  Plain
<1>1. queue[q][i] \in Slots /\ Contains(queue[q], queue[q][i])
  BY QueuedSlots DEF Contains
<1>2. Wakes(q, queue[q][i])
  BY <1>1 DEF Wakes
<1>3. SameClear
  BY SameKernel DEF Held
<1>. QED
  BY <1>1, <1>2, <1>3 DEF Held, Plain, Moves

LEMMA KilledPlainly ==
  ASSUME TypeOK, Placed, NEW c \in Cpus, Trap(c), check_killed(c), Still,
         UNCHANGED Held
  PROVE  Plain
<1>1. current_running[c] \in Slots /\ Live(current_running[c])
  BY CallerLives DEF check_killed, Doomed, Trap
<1>2. EntersClear
  BY <1>1 DEF Held, check_killed, EntersClear, Leave, Trap, Clearing, Me
<1>. QED
  BY <1>2 DEF Held, Plain, Moves

LEMMA KernelStepKinds ==
  ASSUME TypeOK, Placed, NEW c \in Cpus, KernelStep(c)
  PROVE  Plain \/ \E p \in Slots : Clears(c, p) \/ Faults(c, p)
<1>1. CASE exec_next_task(c)
  <2>1. UNCHANGED <<run_tasks, pid, tid, context, process_id>>
    BY <1>1 DEF exec_next_task, identity
  <2>4. kernel.op = "exec_next_task" /\ kernel.cpu = c
    BY <1>1 DEF exec_next_task, In
  <2>5. \/ kernel' = InUser
        \/ kernel' = At("resume", c) /\ current_running'[c] # Idle
    <3>1. ASSUME NEW i \in DOMAIN queue[Ready],
                 current_running' = [current_running EXCEPT ![c] = queue[Ready][i]]
          PROVE  current_running'[c] # Idle
      BY <3>1, QueueNames, QueuedSlots, NumTaskAssumption, SMTT(60) DEF TypeOK, Slots, Idle
    <3>. QED
      BY <1>1, <3>1 DEF exec_next_task
  <2>3. SameClear
    BY <2>1, <2>4, <2>5 DEF SameClear, Clearing, InUser, At, Resumes, Me
  <2>2. Moves
    BY <1>1 DEF exec_next_task, Moves, Still, Picks
  <2>. QED
    BY <2>1, <2>2, <2>3 DEF Plain
<1>2. CASE check_sleeping(c)
  <2>1. UNCHANGED <<Held, expired>> /\ kernel.op = "check_sleeping"
    BY <1>2 DEF check_sleeping, identity, Held, In
  <2>2. CASE proc_schedule(c, Ready, "READY")
    BY <2>1, <2>2, QueueNames, StatusLists, SchedulesPlainly DEF Statuses
  <2>3. CASE kernel.then = "sleep" /\ proc_schedule(c, Sleep, "SLEEPING")
    <3>1. In("check_sleeping", c)
      BY <1>2 DEF check_sleeping
    <3>. QED
      BY <2>1, <2>3, <3>1, QueueNames, StatusLists, SchedulesPlainly DEF Statuses
  <2>4. ASSUME NEW i \in DOMAIN queue[Sleep], queue[Sleep][i] \in expired,
               status' = [status EXCEPT ![queue[Sleep][i]] = "READY"],
               queue' = list_add_tail(list_del(queue, queue[Sleep][i]), Ready,
                                      queue[Sleep][i]),
               UNCHANGED kernel
        PROVE  Plain
    BY <2>1, <2>4, QueueNames, WakesPlainly
  <2>. QED
    BY <1>2, <2>2, <2>3, <2>4 DEF check_sleeping
<1>3. CASE pcb_clear(c)
  <2>1. PICK p \in Slots :
          /\ IsFirst(p, ToClear)
          /\ LET Q == IF p = Me(c) THEN queue ELSE list_del(queue, p)
             IN \/ p # Me(c) /\ ~Linked(p) /\ kernel' = At("fault", c)
                \/ /\ p = Me(c) \/ Linked(p)
                   /\ status' = [made_ready(Q[Wait(p)]) EXCEPT ![p] = "ZOMBIE"]
                   /\ queue' = unblock_list(Q, Wait(p))
                   /\ kernel' = [kernel EXCEPT !.op = "destroy_ipc"]
    BY <1>3 DEF pcb_clear
  <2>2. /\ In("pcb_clear", c)
        /\ UNCHANGED <<Held, expired>>
    BY <1>3 DEF pcb_clear, identity, Held
  <2>3. p \in ToClear
    BY <2>1 DEF IsFirst
  <2>4. CASE p # Me(c) /\ ~Linked(p) /\ kernel' = At("fault", c)
    BY <2>2, <2>3, <2>4 DEF Faults, At
  <2>5. CASE p = Me(c) \/ Linked(p)
    BY <2>1, <2>2, <2>3, <2>5 DEF Clears, Held
  <2>. QED
    BY <2>1, <2>4, <2>5
<1>4. CASE destroy_ipc(c)
  <2>1. /\ UNCHANGED Held /\ kernel.op = "destroy_ipc"
        /\ UNCHANGED kernel \/ kernel' = [kernel EXCEPT !.op = "pcb_clear"]
    BY <1>4 DEF destroy_ipc, In, identity, Held
  <2>2. SameClear
    BY <2>1 DEF Held, SameClear, Clearing, TypeOK
  <2>3. Moves
    BY <1>4 DEF destroy_ipc, destroy, Moves, Frees, Still
  <2>. QED
    BY <2>1, <2>2, <2>3 DEF Held, Plain
<1>5. CASE leave_task(c)
  <2>1. LeavesClear
    BY <1>5 DEF leave_task, LeavesClear, In, At, InUser
  <2>2. Still /\ UNCHANGED <<pid, tid, context, process_id>>
    BY <1>5 DEF leave_task, Still, identity, Held
  <2>. QED
    BY <2>1, <2>2 DEF Plain, Moves
<1>. QED
  BY <1>1, <1>2, <1>3, <1>4, <1>5 DEF KernelStep

LEMMA NewProcessKinds ==
  ASSUME TypeOK, NEW c \in Cpus, NEW mask, Trap(c), new_process(c, mask)
  PROVE  Plain \/ \E p \in Slots : Starts(p)
<1>1. CASE /\ kernel' = At("panic", c)
           /\ UNCHANGED <<status, identity, queue, run_tasks, process_id, context>>
  <2>1. UNCHANGED <<run_tasks, current_running, pid, tid, context, process_id, status,
                    queue>>
    BY <1>1 DEF new_process, identity
  <2>2. kernel'.op = "panic" /\ ~Clearing
    BY <1>1 DEF Trap, Clearing, At
  <2>. QED
    BY <2>1, <2>2 DEF Plain, Moves, Still, SameClear, Clearing
<1>2. CASE UNCHANGED kernel /\ process_id' = process_id + 1 /\ Zombies # {}
  BY <1>2 DEF new_process, Trap, Starts, IsFirst, Zombies
<1>. QED
  BY <1>1, <1>2 DEF new_process, IsFirst

LEMMA SystemCallKinds ==
  ASSUME TypeOK, Placed, NEW c \in Cpus, SystemCall(c)
  PROVE  Plain \/ \E p \in Slots : Starts(p)
<1>0. ASSUME Trap(c), Still, UNCHANGED Held,
             UNCHANGED kernel \/ kernel'.op \in {"panic", "spin", "corrupt", "check_sleeping"}
      PROVE  Plain
  BY <1>0, SameKernel DEF Trap, Plain, Moves, SameClear, Clearing, Held
<1>1. CASE do_sleep(c)
  <2>1. Trap(c) /\ Still /\ UNCHANGED Held
    BY <1>1 DEF do_sleep, Syscall, Still, identity, Held
  <2>2. CASE kernel' = [At("check_sleeping", c) EXCEPT !.then = "sleep"]
    BY <1>0, <2>1, <2>2 DEF At
  <2>. QED
    BY <1>1, <2>1, <2>2, KilledPlainly DEF do_sleep
<1>2. CASE do_exec(c)
  BY <1>2, NewProcessKinds DEF do_exec, Syscall
<1>3. CASE do_fork(c)
  <2>1. CASE kernel' = At("panic", c) /\ Still /\ UNCHANGED Held
    BY <1>0, <1>3, <2>1 DEF do_fork, Syscall, At
  <2>. QED
    BY <1>3, <2>1, NewProcessKinds DEF do_fork, Syscall, Still, identity, Held
<1>4. CASE do_exit(c)
  <2>1. current_running[c] \in Slots /\ Live(current_running[c])
    BY <1>4, CallerLives DEF do_exit, Syscall, Trap
  <2>2. EntersClear
    BY <1>4, <2>1 DEF do_exit, Syscall, Trap, EntersClear, Leave, Clearing, Me
  <2>. QED
    BY <1>4, <2>2 DEF do_exit, Plain, Moves, Still, identity, Held
<1>5. ASSUME NEW k \in 1 .. MaxPid, do_kill(c, k) PROVE Plain
  <2>1. Trap(c) /\ Still /\ UNCHANGED Held
    BY <1>5 DEF do_kill, Syscall, Still, identity, Held
  <2>2. CASE kernel' = Leave(c, k, "kill") /\ \E p \in Slots : pid[p] = k /\ Live(p)
    <3>1. EntersClear
      BY <2>1, <2>2 DEF Trap, EntersClear, Leave, Clearing, Held
    <3>. QED
      BY <2>1, <3>1 DEF Plain, Moves, Held
  <2>3. CASE UNCHANGED kernel \/ kernel' = At("spin", c)
    BY <1>0, <2>1, <2>3 DEF At
  <2>. QED
    BY <1>5, <2>2, <2>3 DEF do_kill
<1>6. ASSUME NEW k \in 1 .. MaxPid, do_waitpid(c, k) PROVE Plain
  <2>1. Trap(c) /\ UNCHANGED Held
    BY <1>6 DEF do_waitpid, Syscall, identity, Held
  <2>2. PICK p \in Slots : Live(p) /\ proc_schedule(c, Wait(p), "WAITING")
    BY <1>6 DEF do_waitpid, IsFirst
  <2>3. /\ Wait(p) \in Queues /\ "WAITING" \in Statuses /\ Wait(p) \in ListsOf("WAITING")
        /\ \A x \in Slots : Wait(p) = Wait(x) => Live(x)
    BY <2>2, QueueNames, StatusLists DEF Statuses
  <2>. QED
    BY <2>1, <2>2, <2>3, SchedulesPlainly DEF Trap
<1>7. ASSUME NEW m \in Masks, do_taskset_exec(c, m) PROVE Plain \/ \E p \in Slots : Starts(p)
  BY <1>7, NewProcessKinds DEF do_taskset_exec, Syscall
<1>8. ASSUME NEW m \in Masks, NEW k \in 1 .. MaxPid, do_taskset(c, k, m) PROVE Plain
  BY <1>0, <1>8 DEF do_taskset, Syscall, Still, Held
<1>9. CASE ipc_init(c)
  <2>1. Trap(c) /\ UNCHANGED <<Held, status>>
    BY <1>9 DEF ipc_init, Syscall, identity, Held
  <2>2. CASE kernel' = At("corrupt", c) /\ UNCHANGED queue
    BY <1>0, <2>1, <2>2 DEF Still, At, Held
  <2>3. ASSUME NEW b \in BlockQueues, owner[b] = 0, UNCHANGED kernel,
               queue' = [queue EXCEPT ![Block(b)] = <<>>]
        PROVE  Plain
    <3>1. Block(b) \in Queues /\ queue[Block(b)] \in Seq(Slots)
      BY QueueNames DEF TypeOK
    <3>2. \A x \in Slots : ~Contains(queue[Block(b)], x)
      BY <2>3 DEF Placed, NoBlockers, Has
    <3>3. queue[Block(b)] = <<>>
      BY <3>1, <3>2, NoElements
    <3>4. queue' = queue
      BY <2>3, <3>1, <3>3 DEF TypeOK
    <3>. QED
      BY <1>0, <2>1, <2>3, <3>4 DEF Still, Held
  <2>. QED
    BY <1>9, <2>2, <2>3 DEF ipc_init, IsFirst
<1>10. ASSUME NEW b \in BlockQueues, ipc_destroy(c, b) PROVE Plain
  <2>1. Trap(c) /\ UNCHANGED <<kernel, Held>> /\ Frees(b)
    BY <1>10 DEF ipc_destroy, destroy, Frees, Syscall, identity, Held
  <2>. QED
    BY <2>1, SameKernel DEF Plain, Moves, Held
<1>11. ASSUME NEW b \in BlockQueues, do_block(c, b) PROVE Plain
  <2>1. Trap(c) /\ UNCHANGED Held
    BY <1>11 DEF do_block, Syscall, identity, Held
  <2>2. /\ Block(b) \in Queues /\ "BLOCKED" \in Statuses /\ Block(b) \in ListsOf("BLOCKED")
        /\ \A x \in Slots : Block(b) # Wait(x)
    BY QueueNames, StatusLists DEF Statuses
  <2>. QED
    BY <1>11, <2>1, <2>2, SchedulesPlainly DEF Trap, do_block
<1>12. ASSUME NEW b \in BlockQueues, do_unblock(c, b) PROVE Plain
  <2>1. UNCHANGED <<kernel, Held>>
    BY <1>12 DEF do_unblock, identity, Held
  <2>2. /\ Block(b) \in Queues /\ queue[Block(b)] \in Seq(Slots) /\ queue[Block(b)] # <<>>
        /\ Block(b) # Ready /\ Block(b) # Sleep
    BY <1>12, QueueNames DEF TypeOK, do_unblock
  <2>3. 1 \in DOMAIN queue[Block(b)] /\ Head(queue[Block(b)]) = queue[Block(b)][1]
    BY <2>2, HeadTailProperties, LenProperties, EmptySeq
  <2>. QED
    BY <1>12, <2>1, <2>2, <2>3, WakesPlainly DEF do_unblock
<1>. QED
  BY <1>1, <1>2, <1>3, <1>4, <1>5, <1>6, <1>7, <1>8, <1>9, <1>10, <1>11, <1>12
     DEF SystemCall

LEMMA StepKinds ==
  ASSUME TypeOK, Placed, [Next]_vars
  PROVE  \/ Plain
         \/ \E p \in Slots : Starts(p)
         \/ \E c \in Cpus, p \in Slots : Clears(c, p) \/ Faults(c, p)
<1>1. ASSUME NEW c \in Cpus, do_scheduler(c) PROVE Plain
  <2>1. Trap(c) /\ Still /\ UNCHANGED Held
    BY <1>1 DEF do_scheduler, Still, identity, Held
  <2>2. CASE kernel' = [At("check_sleeping", c) EXCEPT !.then = "yield"]
    BY <2>1, <2>2 DEF Trap, Plain, Moves, SameClear, Clearing, At, Held
  <2>. QED
    BY <1>1, <2>1, <2>2, KilledPlainly DEF do_scheduler
<1>2. ASSUME NEW p \in Slots, Expire(p) PROVE Plain
  BY <1>2, SameKernel DEF Expire, Plain, Moves, Still, identity
<1>3. CASE UNCHANGED vars
  BY <1>3, SameKernel DEF vars, Plain, Moves, Still, identity
<1>. QED
  BY <1>1, <1>2, <1>3, KernelStepKinds, SystemCallKinds DEF Next, Hang

-----------------------------------------------------------------------------
(* Who is alive, and who waits for whom.                                    *)

LEMMA MovesKeepLives ==
  ASSUME TypeOK, Placed, Moves
  PROVE  \A x \in Slots : Live(x)' <=> Live(x)
<1>0. \A q \in Queues, x \in Slots : Contains(queue[q], x) => Live(x)
  BY LinkedIsIdle DEF Has, Placed
<1>1. CASE Still
  BY <1>1 DEF Still, Live
<1>2. ASSUME NEW c \in Cpus, NEW q \in Queues, NEW st \in Statuses, Joins(c, q, st)
      PROVE  \A x \in Slots : Live(x)' <=> Live(x)
  <2>1. current_running[c] \in Slots /\ Live(current_running[c]) /\ st # "ZOMBIE"
    BY <1>2, RunningHere DEF Joins, Clearing
  <2>. QED
    BY <1>2, <2>1 DEF Joins, Live, TypeOK
<1>3. ASSUME NEW q \in Queues, NEW p \in Slots, Wakes(q, p)
      PROVE  \A x \in Slots : Live(x)' <=> Live(x)
  BY <1>0, <1>3 DEF Wakes, Live, TypeOK
<1>4. ASSUME NEW b \in BlockQueues, Frees(b)
      PROVE  \A x \in Slots : Live(x)' <=> Live(x)
  BY <1>0, <1>4, QueueNames DEF Frees, made_ready, Live
<1>5. ASSUME NEW c \in Cpus, NEW i \in DOMAIN queue[Ready], Picks(c, i)
      PROVE  \A x \in Slots : Live(x)' <=> Live(x)
  <2>1. queue[Ready][i] \in Slots /\ Contains(queue[Ready], queue[Ready][i])
    BY QueueNames, QueuedSlots DEF Contains
  <2>. QED
    BY <1>0, <1>5, <2>1, QueueNames DEF Picks, Live, TypeOK
<1>. QED
  BY <1>1, <1>2, <1>3, <1>4, <1>5 DEF Moves

\* Where the tasks are after such a step.
LEMMA ListsAre == TypeOK /\ Placed => queue \in Lists /\ OneEach(queue)
BY DEF TypeOK, Lists, Placed, LinkedOnce, OneEach, Has

LEMMA JoinsLists ==
  ASSUME TypeOK, Placed, NEW c \in Cpus, NEW q \in Queues, NEW st, Joins(c, q, st)
  PROVE  \A r \in Queues : \A x : Has(r, x)' <=> Has(r, x) \/ (r = q /\ x = current_running[c])
<1>. DEFINE me == current_running[c]
<1>1. queue \in Lists /\ me \in Slots /\ queue' = list_add_tail(queue, q, me)
  BY ListsAre DEF Joins
<1>. HIDE DEF me
<1>2. \A r \in Queues : \A x :
        Contains(list_add_tail(queue, q, me)[r], x) <=> Contains(queue[r], x) \/ (r = q /\ x = me)
  BY <1>1, ListAddTail
<1>. QED
  BY <1>1, <1>2 DEF Has, me

LEMMA WakesLists ==
  ASSUME TypeOK, Placed, NEW q \in Queues, NEW p \in Slots, Wakes(q, p)
  PROVE  \A r \in Queues : \A x : Has(r, x)' <=> IF x = p THEN r = Ready ELSE Has(r, x)
<1>. DEFINE D == list_del(queue, p)
<1>1. Ready \in Queues
  BY QueueNames
<1>2. /\ D \in Lists
      /\ \A r \in Queues : ~Contains(D[r], p)
      /\ \A r \in Queues : \A x : x # p => (Contains(D[r], x) <=> Has(r, x))
  BY ListsAre, ListDel DEF Has
<1>3. queue' = list_add_tail(D, Ready, p)
  BY DEF Wakes
<1>. HIDE DEF D
<1>4. \A r \in Queues : \A x :
        Contains(list_add_tail(D, Ready, p)[r], x) <=> Contains(D[r], x) \/ (r = Ready /\ x = p)
  BY <1>1, <1>2, ListAddTail
<1>5. \A r \in Queues : \A x : Has(r, x)' <=> Contains(D[r], x) \/ (r = Ready /\ x = p)
  BY <1>3, <1>4 DEF Has
<1>. QED
  BY <1>2, <1>5

LEMMA FreesLists ==
  ASSUME TypeOK, Placed, NEW b \in BlockQueues, Frees(b)
  PROVE  \A r \in Queues : \A x :
           Has(r, x)' <=> \/ r = Ready /\ (Has(Ready, x) \/ Has(Block(b), x))
                          \/ r # Ready /\ r # Block(b) /\ Has(r, x)
<1>1. Block(b) \in Queues /\ Block(b) # Ready /\ queue' = unblock_list(queue, Block(b))
  BY QueueNames DEF Frees
<1>. QED
  BY <1>1, ListsAre, UnblockList DEF Has

LEMMA PicksLists ==
  ASSUME TypeOK, Placed, NEW c \in Cpus, NEW i \in DOMAIN queue[Ready], Picks(c, i)
  PROVE  \A r \in Queues : \A x : Has(r, x)' <=> Has(r, x) /\ x # queue[Ready][i]
<1>1. queue[Ready][i] \in Slots /\ queue' = list_del(queue, queue[Ready][i])
  BY QueueNames, QueuedSlots DEF Picks
<1>. QED
  BY <1>1, ListsAre, ListDel, SMTT(60) DEF Has

LEMMA StartsLists ==
  ASSUME TypeOK, Placed, NEW p \in Slots, Starts(p)
  PROVE  /\ \A x \in Slots : Live(x)' <=> Live(x) \/ x = p
         /\ \A r \in Queues : ~Has(r, p)
         /\ \A r \in Queues, x \in Slots : Has(r, x)' <=> Has(r, x) \/ (r = Ready /\ x = p)
<1>1. ~Live(p) /\ Ready \in Queues /\ Wait(p) \in Queues /\ Wait(p) # Ready
  BY QueueNames DEF Starts
<1>2. \A r \in Queues : ~Has(r, p)
  BY <1>1, StatusLists DEF Live, Placed, LinkedByStatus
<1>3. \A x \in Slots : ~Has(Wait(p), x)
  BY <1>1 DEF Placed, NoWaiters
<1>. DEFINE A == list_add_tail(queue, Ready, p)
<1>4. /\ A \in Lists
      /\ \A r \in Queues : \A x : Contains(A[r], x) <=> Has(r, x) \/ (r = Ready /\ x = p)
  BY <1>1, ListsAre, ListAddTail DEF Has
<1>5. \A r \in Queues : queue'[r] = IF r = Wait(p) THEN <<>> ELSE A[r]
  BY <1>4 DEF Lists, Starts
<1>. HIDE DEF A
<1>6. \A x : ~Contains(<<>>, x)
  BY DEF Contains
<1>7. \A r \in Queues, x \in Slots : Has(r, x)' <=> Has(r, x) \/ (r = Ready /\ x = p)
  BY <1>1, <1>3, <1>4, <1>5, <1>6 DEF Has
<1>8. \A x \in Slots : Live(x)' <=> Live(x) \/ x = p
  BY DEF Starts, TypeOK, Live
<1>. QED
  BY <1>2, <1>7, <1>8

LEMMA ClearsLists ==
  ASSUME TypeOK, Placed, NEW c \in Cpus, NEW p \in Slots, Clears(c, p)
  PROVE  /\ \A x \in Slots : Live(x)' <=> Live(x) /\ x # p
         /\ \A r \in Queues : \A x :
              Has(r, x)' <=> /\ x # p
                             /\ \/ r = Ready /\ (Has(Ready, x) \/ Has(Wait(p), x))
                                \/ r # Ready /\ r # Wait(p) /\ Has(r, x)
         /\ \A x \in Slots : status'[x] = IF x = p THEN "ZOMBIE"
                                          ELSE IF Has(Wait(p), x) THEN "READY" ELSE status[x]
<1>. DEFINE Q == IF p = Me(c) THEN queue ELSE list_del(queue, p)
            q == Wait(p)
<1>1. /\ status' = [made_ready(Q[q]) EXCEPT ![p] = "ZOMBIE"]
      /\ queue' = unblock_list(Q, q)
      /\ In("pcb_clear", c)
  BY DEF Clears
<1>2. queue \in Lists /\ OneEach(queue) /\ Ready \in Queues /\ q \in Queues /\ q # Ready
  BY QueueNames, ListsAre
<1>3. /\ Q \in Lists /\ OneEach(Q)
      /\ \A r \in Queues : \A x : Contains(Q[r], x) <=> Has(r, x) /\ x # p
  <2>1. CASE p = Me(c)
    <3>1. \A r \in Queues : ~Has(r, p)
      BY <1>1, <2>1 DEF Placed, RunsNoList, Me, Runs, In
    <3>. QED
      BY <1>2, <2>1, <3>1 DEF Has
  <2>2. CASE p # Me(c)
    BY <1>2, <2>2, ListDel DEF Has
  <2>. QED
    BY <2>1, <2>2
<1>. HIDE DEF Q, q
<1>4. \A r \in Queues : \A x :
        Has(r, x)' <=> \/ r = Ready /\ (Contains(Q[Ready], x) \/ Contains(Q[q], x))
                       \/ r # Ready /\ r # q /\ Contains(Q[r], x)
  BY <1>1, <1>2, <1>3, Unblocked
<1>5. /\ \A x \in Slots : status'[x] = IF x = p THEN "ZOMBIE"
                                       ELSE IF Has(q, x) THEN "READY" ELSE status[x]
      /\ \A x \in Slots : Has(q, x) => Live(x)
  BY <1>1, <1>2, <1>3, LinkedIsIdle DEF made_ready, Placed
<1>6. \A x \in Slots : Live(x)' <=> Live(x) /\ x # p
  BY <1>5 DEF Live
<1>. QED
  BY <1>2, <1>3, <1>4, <1>5, <1>6 DEF q

-----------------------------------------------------------------------------
(* Without threads a process is one PCB, with a pid of its own.             *)

\* leave_task meets no PCB that it cannot unlink: the PCB it clears is the
\* caller, which is not unlinked, or runs on no CPU, and so is linked.
LEMMA ClearedIsLinked ==
  ASSUME TypeOK, PlaceInv, NEW c \in Cpus, In("pcb_clear", c), NEW p \in ToClear,
         p # Me(c)
  PROVE  Linked(p) /\ kernel.then # "exit"
<1>1. Clearing /\ kernel.cpu = c /\ kernel.op # "exec_next_task"
  BY DEF In, Clearing
<1>2. p \in Slots /\ Live(p) /\ pid[p] = kernel.pid
  BY DEF ToClear
<1>3. ~Exiting /\ kernel.then # "exit"
  BY <1>1 DEF PlaceInv, ClearsSelf, Exiting
<1>4. \A d \in Cpus : ~Runs(d, p)
  BY <1>1, <1>2, <1>3, NumTaskAssumption
     DEF PlaceInv, Placed, ClearsOther, Runs, Me, Idle, Slots
<1>. QED
  BY <1>2, <1>3, <1>4 DEF PlaceInv, Placed, Somewhere, Linked, Has

LEMMA ProcessSteps ==
  ASSUME TypeOK, PlaceInv, [Next]_vars
  PROVE  \/ Plain
         \/ \E p \in Slots : Starts(p)
         \/ \E c \in Cpus, p \in Slots : Clears(c, p)
BY StepKinds, ClearedIsLinked DEF PlaceInv, Faults

LEMMA PlaceInit == Init => PlaceInv
<1>. SUFFICES ASSUME Init PROVE PlaceInv
  OBVIOUS
<1>1. OwnPids /\ OldPids
  BY DEF Init, OwnPids, OldPids, Live
<1>2. ClearsSelf /\ NeverFaults
  BY DEF Init, ClearsSelf, NeverFaults, Exiting, Clearing, InUser, At
<1>. QED
  BY <1>1, <1>2, PlacedInit DEF PlaceInv

LEMMA PlaceNext == TypeOK /\ PlaceInv /\ [Next]_vars => PlaceInv'
<1>. SUFFICES ASSUME TypeOK, PlaceInv, [Next]_vars PROVE PlaceInv'
  OBVIOUS
<1>0. Placed
  BY DEF PlaceInv
<1>1. CASE Plain
  <2>1. /\ \A x \in Slots : Live(x)' <=> Live(x)
        /\ UNCHANGED <<pid, process_id>>
    BY <1>0, <1>1, MovesKeepLives DEF Plain
  <2>2. OwnPids' /\ OldPids'
    BY <2>1 DEF PlaceInv, OwnPids, OldPids
  <2>3. CASE EntersClear
    <3>1. PICK v \in Slots : /\ Live(v) /\ pid[v] = kernel'.pid
                             /\ kernel'.then = "exit" => v = Me(kernel'.cpu)
      BY <2>3 DEF EntersClear
    <3>2. kernel'.op = "pcb_clear" /\ UNCHANGED current_running
      BY <2>3 DEF EntersClear
    <3>3. \A x \in Slots : Live(x) /\ pid[x] = kernel'.pid => x = v
      BY <3>1 DEF PlaceInv, OwnPids
    <3>4. ClearsSelf'
      BY <2>1, <3>1, <3>2, <3>3 DEF ClearsSelf, Exiting, ToClear, Me
    <3>. QED
      BY <2>2, <3>2, <3>4, <1>0, PlacedNext DEF PlaceInv, NeverFaults
  <2>4. CASE LeavesClear
    <3>1. kernel'.op \in {"exec_next_task", "user"}
      BY <2>4 DEF LeavesClear
    <3>2. ClearsSelf'
      BY <3>1 DEF ClearsSelf, Exiting, Clearing
    <3>. QED
      BY <2>2, <3>1, <3>2, <1>0, PlacedNext DEF PlaceInv, NeverFaults
  <2>5. CASE SameClear
    <3>1. NeverFaults'
      BY <2>5 DEF SameClear, PlaceInv, NeverFaults
    <3>2. ClearsSelf'
      <4>1. CASE ~Clearing
        BY <2>5, <4>1 DEF SameClear, ClearsSelf, Exiting
      <4>2. CASE Clearing
        <5>1. /\ kernel'.pid = kernel.pid /\ kernel'.then = kernel.then
              /\ kernel'.cpu = kernel.cpu /\ UNCHANGED current_running
          BY <2>5, <4>2 DEF SameClear, TypeOK
        <5>2. ToClear' = ToClear
          BY <2>1, <5>1 DEF ToClear
        <5>. QED
          BY <4>2, <5>1, <5>2 DEF PlaceInv, ClearsSelf, Exiting, Me
      <4>. QED
        BY <4>1, <4>2
    <3>. QED
      BY <2>2, <3>1, <3>2, <1>0, PlacedNext DEF PlaceInv, NeverFaults
  <2>. QED
    BY <1>1, <2>3, <2>4, <2>5 DEF Plain
<1>2. ASSUME NEW p \in Slots, Starts(p) PROVE PlaceInv'
  <2>1. \A x \in Slots : Live(x)' <=> Live(x) \/ x = p
    BY <1>0, <1>2, StartsLists
  <2>2. /\ pid' = [pid EXCEPT ![p] = process_id] /\ process_id' = process_id + 1
        /\ ~Live(p) /\ kernel.op = "user" /\ UNCHANGED kernel
    BY <1>2 DEF Starts
  <2>3. OwnPids' /\ OldPids'
    BY <2>1, <2>2, SMTT(60) DEF PlaceInv, OwnPids, OldPids, TypeOK
  <2>4. ClearsSelf' /\ NeverFaults'
    BY <2>2 DEF ClearsSelf, NeverFaults, Exiting, Clearing
  <2>. QED
    BY <2>3, <2>4, <1>0, PlacedNext DEF PlaceInv, NeverFaults
<1>3. ASSUME NEW c \in Cpus, NEW p \in Slots, Clears(c, p) PROVE PlaceInv'
  <2>1. \A x \in Slots : Live(x)' <=> Live(x) /\ x # p
    BY <1>0, <1>3, ClearsLists
  <2>2. /\ UNCHANGED <<pid, process_id, current_running>>
        /\ kernel.op = "pcb_clear" /\ kernel'.op = "destroy_ipc" /\ kernel'.pid = kernel.pid
        /\ kernel'.then = kernel.then /\ kernel'.cpu = kernel.cpu
    BY <1>3 DEF Clears, In, TypeOK
  <2>3. OwnPids' /\ OldPids'
    BY <2>1, <2>2 DEF PlaceInv, OwnPids, OldPids
  <2>4. ToClear' \subseteq ToClear
    BY <2>1, <2>2 DEF ToClear
  <2>5. ClearsSelf' /\ NeverFaults'
    BY <2>2, <2>4 DEF PlaceInv, ClearsSelf, NeverFaults, Exiting, Clearing, Me
  <2>. QED
    BY <2>2, <2>3, <2>5, <1>0, PlacedNext DEF PlaceInv
<1>. QED
  BY <1>1, <1>2, <1>3, ProcessSteps

\* PlaceInv is an invariant of the kernel, whatever calls programs make.
THEOREM Placement == Spec => []PlaceInv
<1>. QED
  BY TypeCorrect, PlaceInit, PlaceNext, PTL DEF Spec

-----------------------------------------------------------------------------
(* What follows from it.                                                    *)

\* What Placed says, as the runs state it.
LEMMA PlacedMeans ==
  ASSUME TypeOK, Placed
  PROVE  OnePlace /\ StatusOfList /\ NoLostTask /\ NoOrphanedWaiter
<1>1. ASSUME NEW q \in Queues, NEW i \in DOMAIN queue[q]
      PROVE  Has(q, queue[q][i]) /\ queue[q][i] \in Slots
  <2>1. queue[q] \in Seq(Slots)
    BY DEF TypeOK
  <2>2. i \in 1 .. Len(queue[q])
    BY <2>1, LenProperties
  <2>3. Has(q, queue[q][i])
    BY <2>2, Zenon DEF Has, Contains
  <2>. QED
    BY <2>3, QueuedSlots
<1>2. OnePlace
  <2>. SUFFICES ASSUME NEW q \in Queues, NEW r \in Queues,
                       NEW i \in DOMAIN queue[q], NEW j \in DOMAIN queue[r],
                       queue[q][i] = queue[r][j]
                PROVE  q = r /\ i = j
    BY DEF OnePlace
  <2>1. Has(q, queue[q][i]) /\ Has(r, queue[q][i]) /\ queue[q][i] \in Slots
    BY <1>1
  <2>2. q = r
    BY <2>1, Zenon DEF Placed, LinkedOnce
  <2>3. IsInjective(queue[q]) /\ j \in DOMAIN queue[q] /\ queue[q][i] = queue[q][j]
    BY <2>2, Zenon DEF Placed, LinkedOnce
  <2>4. i = j
    BY <2>3, Zenon DEF IsInjective
  <2>. QED
    BY <2>2, <2>4
<1>3. StatusOfList
  <2>. SUFFICES ASSUME NEW q \in Queues, NEW i \in DOMAIN queue[q]
                PROVE  q \in ListsOf(status[queue[q][i]])
    BY DEF StatusOfList
  <2>. QED
    BY <1>1, Zenon DEF Placed, LinkedByStatus
<1>4. NoLostTask
  <2>. SUFFICES ASSUME NEW p \in Slots
                PROVE  /\ Live(p) => Linked(p) \/ \E c \in Cpus : Runs(c, p)
                       /\ \A c \in Cpus : Runs(c, p) =>
                            ~Linked(p) /\ (Live(p) => status[p] = "RUNNING")
                       /\ Runs(0, p) => ~Runs(1, p)
    BY DEF NoLostTask
  <2>1. Live(p) => Linked(p) \/ \E c \in Cpus : Runs(c, p)
    BY DEF Placed, Somewhere, Linked, Has
  <2>2. \A c \in Cpus : Runs(c, p) => ~Linked(p) /\ (Live(p) => status[p] = "RUNNING")
    BY DEF Placed, RunsNoList, RunsLive, Linked, Has
  <2>3. Runs(0, p) => ~Runs(1, p)
    BY DEF Placed, RunsAlone, Cpus
  <2>. QED
    BY <2>1, <2>2, <2>3
<1>5. NoOrphanedWaiter
  <2>. SUFFICES ASSUME NEW p \in Slots, ~Live(p), queue[Wait(p)] # <<>>
                PROVE  FALSE
    BY DEF NoOrphanedWaiter
  <2>1. Wait(p) \in Queues /\ queue[Wait(p)] \in Seq(Slots)
    BY QueueNames DEF TypeOK
  <2>2. 1 \in DOMAIN queue[Wait(p)]
    BY <2>1, LenProperties, EmptySeq
  <2>3. queue[Wait(p)][1] \in Slots /\ Has(Wait(p), queue[Wait(p)][1])
    BY <1>1, <2>1, <2>2
  <2>. QED
    BY <2>3 DEF Placed, NoWaiters
<1>. QED
  BY <1>2, <1>3, <1>4, <1>5

\* The list node of a PCB is never linked twice (libs/list.c).
THEOREM LinkedAtMostOnce == Spec => []OnePlace
BY TypeCorrect, Placement, PlacedMeans, PTL DEF PlaceInv

\* The status of a linked PCB names its list; a dead or running one is in none.
THEOREM StatusNamesList == Spec => []StatusOfList
BY TypeCorrect, Placement, PlacedMeans, PTL DEF PlaceInv

\* No task is lost by the scheduler, and none runs twice.
THEOREM NoTaskLost == Spec => []NoLostTask
BY TypeCorrect, Placement, PlacedMeans, PTL DEF PlaceInv

\* Whoever waits for a process is woken when it dies, before its PCB is used again.
THEOREM WaitersFreed == Spec => []NoOrphanedWaiter
BY TypeCorrect, Placement, PlacedMeans, PTL DEF PlaceInv

-----------------------------------------------------------------------------
(* The list of processes.                                                   *)

LEMMA RunListInit == Init => RunListInv
<1>. SUFFICES ASSUME Init PROVE RunListInv
  OBVIOUS
<1>1. 0 \in Slots
  BY NumTaskAssumption DEF Slots
<1>2. \A p \in Slots : Contains(run_tasks, p) <=> Live(p)
  BY <1>1 DEF Init, Contains, Live
<1>3. IsInjective(run_tasks) /\ ~Clearing /\ \A p \in Slots : tid[p] = 0
  BY DEF Init, IsInjective, Clearing, InUser, At
<1>. QED
  BY <1>2, <1>3 DEF RunListInv

LEMMA RunListNext == TypeOK /\ PlaceInv /\ RunListInv /\ [Next]_vars => RunListInv'
<1>. SUFFICES ASSUME TypeOK, PlaceInv, RunListInv, [Next]_vars PROVE RunListInv'
  OBVIOUS
<1>0. run_tasks \in Seq(Slots)
  BY DEF TypeOK
<1>1. CASE Plain
  <2>1. UNCHANGED <<pid, tid>> /\ \A x \in Slots : Live(x)' <=> Live(x)
    BY <1>1, MovesKeepLives DEF Plain, PlaceInv
  <2>2. CASE SameClear
    <3>1. UNCHANGED run_tasks /\ (Clearing' <=> Clearing)
      BY <2>2 DEF SameClear
    <3>2. ASSUME Clearing, NEW v \in Slots, ClearsVictim(v) PROVE ClearsVictim(v)'
      <4>1. kernel'.pid = kernel.pid
        BY <2>2, <3>2 DEF SameClear
      <4>. QED
        BY <2>1, <3>1, <3>2, <4>1 DEF ClearsVictim
    <3>. QED
      BY <2>1, <3>1, <3>2 DEF RunListInv
  <2>3. CASE EntersClear
    <3>1. PICK v \in Slots : Live(v) /\ pid[v] = kernel'.pid
      BY <2>3 DEF EntersClear
    <3>2. ~Clearing /\ Clearing' /\ UNCHANGED run_tasks
      BY <2>3 DEF EntersClear, Clearing
    <3>3. ClearsVictim(v)'
      BY <2>1, <3>1, <3>2 DEF ClearsVictim, RunListInv, PlaceInv, Placed, OwnPids
    <3>. QED
      BY <2>1, <3>2, <3>3 DEF RunListInv
  <2>4. CASE LeavesClear
    <3>1. PICK i \in DOMAIN run_tasks :
            pid[run_tasks[i]] = kernel.pid /\ run_tasks' = RemoveAt(run_tasks, i)
      BY <2>4 DEF LeavesClear
    <3>2. Clearing /\ ToClear = {} /\ ~Clearing'
      BY <2>4 DEF LeavesClear, Clearing
    <3>3. PICK v \in Slots : ClearsVictim(v)
      BY <3>2 DEF RunListInv
    <3>4. DOMAIN run_tasks = 1 .. Len(run_tasks) /\ run_tasks[i] \in Slots
      BY <1>0, <3>1, LenProperties, ElementOfSeq
    <3>5. ~Live(v)
      BY <3>2, <3>3 DEF ToClear, ClearsVictim
    <3>6. run_tasks[i] = v
      BY <3>1, <3>2, <3>3, <3>4 DEF ToClear, ClearsVictim, Contains
    <3>7. run_tasks' = unlink(run_tasks, v)
      <4>1. Contains(run_tasks, v)
        BY <3>6 DEF Contains
      <4>2. PICK k \in 1 .. Len(run_tasks) :
              run_tasks[k] = v /\ unlink(run_tasks, v) = RemoveAt(run_tasks, k)
        BY <1>0, <4>1, UnlinkIsRemoveAt
      <4>3. k = i
        BY <3>4, <3>6, <4>2 DEF RunListInv, IsInjective
      <4>. QED
        BY <3>1, <4>2, <4>3
    <3>8. /\ IsInjective(run_tasks')
          /\ \A p \in Slots : Contains(run_tasks', p) <=> Contains(run_tasks, p) /\ p # v
      BY <1>0, <3>7, UnlinkElements, UnlinkInjective DEF RunListInv
    <3>9. \A p \in Slots : Contains(run_tasks', p) <=> Live(p)
      BY <3>3, <3>5, <3>8 DEF ClearsVictim
    <3>. QED
      BY <2>1, <3>2, <3>8, <3>9 DEF RunListInv
  <2>. QED
    BY <1>1, <2>2, <2>3, <2>4 DEF Plain
<1>2. ASSUME NEW p \in Slots, Starts(p) PROVE RunListInv'
  <2>1. /\ ~Clearing /\ ~Clearing' /\ ~Live(p)
        /\ run_tasks' = Append(run_tasks, p) /\ tid' = [tid EXCEPT ![p] = 0]
    BY <1>2 DEF Starts, Clearing
  <2>2. \A x \in Slots : Contains(run_tasks, x) <=> Live(x)
    BY <2>1 DEF RunListInv
  <2>3. /\ IsInjective(run_tasks')
        /\ \A x \in Slots : Contains(run_tasks', x) <=> Contains(run_tasks, x) \/ x = p
    BY <1>0, <2>1, <2>2, AppendElements DEF RunListInv
  <2>4. \A x \in Slots : Live(x)' <=> Live(x) \/ x = p
    BY <1>2, StartsLists DEF PlaceInv
  <2>5. \A x \in Slots : tid'[x] = 0
    BY <2>1 DEF TypeOK, RunListInv
  <2>. QED
    BY <2>1, <2>2, <2>3, <2>4, <2>5 DEF RunListInv
<1>3. ASSUME NEW c \in Cpus, NEW p \in Slots, Clears(c, p) PROVE RunListInv'
  <2>1. /\ Clearing /\ Clearing' /\ kernel'.pid = kernel.pid /\ p \in ToClear
        /\ UNCHANGED <<pid, tid, run_tasks>>
    BY <1>3 DEF Clears, In, Clearing, TypeOK
  <2>2. PICK v \in Slots : ClearsVictim(v)
    BY <2>1 DEF RunListInv
  <2>3. p = v
    BY <2>1, <2>2 DEF ClearsVictim, ToClear
  <2>4. \A x \in Slots : Live(x)' <=> Live(x) /\ x # p
    BY <1>3, ClearsLists DEF PlaceInv
  <2>5. ClearsVictim(v)'
    BY <2>1, <2>2, <2>3, <2>4 DEF ClearsVictim
  <2>. QED
    BY <2>1, <2>5 DEF RunListInv
<1>. QED
  BY <1>1, <1>2, <1>3, ProcessSteps

\* exec, fork, exit and kill keep RunListInv: while a process is cleared run_tasks still
\* has it, and leave_task then takes out that one.
THEOREM RunListHolds == Spec => []RunListInv
<1>. QED
  BY TypeCorrect, Placement, RunListInit, RunListNext, PTL DEF Spec

\* new_process and leave_task keep run_tasks: between system calls it has every live
\* process once and no other, and no two of these have the same pid.
THEOREM RunListIsExact == Spec => []RunTasksExact
<1>1. TypeOK /\ PlaceInv /\ RunListInv => RunTasksExact
  <2>. SUFFICES ASSUME TypeOK, PlaceInv, RunListInv, kernel.op = "user"
                PROVE  /\ IsInjective(run_tasks)
                       /\ ToSet(run_tasks) = Mains
                       /\ \A p, q \in Mains : pid[p] = pid[q] => p = q
    BY DEF RunTasksExact
  <2>1. /\ IsInjective(run_tasks)
        /\ \A p \in Slots : Contains(run_tasks, p) <=> Live(p)
        /\ \A p \in Slots : p \in Mains <=> Live(p)
    BY DEF RunListInv, Clearing, Mains
  <2>2. run_tasks \in Seq(Slots)
    BY DEF TypeOK
  <2>3. /\ ToSet(run_tasks) \subseteq Slots
        /\ \A x : x \in ToSet(run_tasks) <=> Contains(run_tasks, x)
    BY <2>2, SetOfElements
  <2>4. ToSet(run_tasks) = Mains
    BY <2>1, <2>3 DEF Mains
  <2>5. \A p, q \in Mains : pid[p] = pid[q] => p = q
    BY <2>1 DEF Mains, PlaceInv, Placed, OwnPids
  <2>. QED
    BY <2>1, <2>4, <2>5
<1>. QED
  BY <1>1, TypeCorrect, Placement, RunListHolds, PTL

-----------------------------------------------------------------------------
(* The refinement of module ProcTable.                                      *)

LivePids == {pid[p] : p \in Mains}
Pairs    == UNION {{<<pid[w], pid[p]>> : w \in ToSet(queue[Wait(p)])} : p \in Slots}

LEMMA TableIs ==
  TypeOK /\ RunListInv =>
    /\ \A k : k \in LivePids <=> \E p \in Slots : Live(p) /\ pid[p] = k
    /\ \A e : e \in Pairs <=> \E p, w \in Slots : Has(Wait(p), w) /\ e = <<pid[w], pid[p]>>
<1>. SUFFICES ASSUME TypeOK, RunListInv
              PROVE  /\ \A k : k \in LivePids <=> \E p \in Slots : Live(p) /\ pid[p] = k
                     /\ \A e : e \in Pairs <=>
                          \E p, w \in Slots : Has(Wait(p), w) /\ e = <<pid[w], pid[p]>>
  OBVIOUS
<1>1. \A k : k \in LivePids <=> \E p \in Slots : Live(p) /\ pid[p] = k
  BY DEF LivePids, Mains, RunListInv
<1>2. \A p \in Slots : queue[Wait(p)] \in Seq(Slots)
  BY QueueNames DEF TypeOK
<1>3. \A p \in Slots : /\ ToSet(queue[Wait(p)]) \subseteq Slots
                       /\ \A w : w \in ToSet(queue[Wait(p)]) <=> Has(Wait(p), w)
  BY <1>2, SetOfElements DEF Has
<1>4. \A e : e \in Pairs <=> \E p, w \in Slots : Has(Wait(p), w) /\ e = <<pid[w], pid[p]>>
  BY <1>3 DEF Pairs
<1>. QED
  BY <1>1, <1>4

LEMMA TableIsNext ==
  ASSUME TypeOK', RunListInv'
  PROVE  /\ \A k : k \in LivePids' <=> \E p \in Slots : Live(p)' /\ pid'[p] = k
         /\ \A e : e \in Pairs' <=> \E p, w \in Slots : Has(Wait(p), w)' /\ e = <<pid'[w], pid'[p]>>
<1>1. (/\ \A k : k \in LivePids <=> \E p \in Slots : Live(p) /\ pid[p] = k
       /\ \A e : e \in Pairs <=> \E p, w \in Slots : Has(Wait(p), w) /\ e = <<pid[w], pid[p]>>)'
  BY TableIs, PTL
<1>. QED
  BY <1>1 DEF Has, Live, Slots, Wait

\* Only waitpid adds to a wait list, and only pcb_clear takes from one.
LEMMA MovesKeepWaits ==
  ASSUME TypeOK, Placed, Moves,
         ~\E c \in Cpus, st \in Statuses, p \in Slots : Joins(c, Wait(p), st)
  PROVE  \A p, w \in Slots : Has(Wait(p), w)' <=> Has(Wait(p), w)
<1>. SUFFICES ASSUME NEW p \in Slots, NEW w \in Slots
              PROVE  Has(Wait(p), w)' <=> Has(Wait(p), w)
  OBVIOUS
<1>0. /\ Wait(p) \in Queues /\ Wait(p) # Ready /\ Wait(p) # Sleep /\ Ready \in Queues
      /\ \A b : Wait(p) # Block(b)
  BY QueueNames
<1>. DEFINE q == Wait(p)
<1>. HIDE DEF q
<1>00. \A r \in Queues : Has(r, w) /\ Has(q, w) => r = q
  BY <1>0 DEF Placed, LinkedOnce, q
<1>1. CASE Still
  BY <1>1 DEF Still, Has
<1>2. ASSUME NEW c \in Cpus, NEW r \in Queues, NEW st \in Statuses, Joins(c, r, st)
      PROVE  Has(q, w)' <=> Has(q, w)
  <2>1. r # q
    BY <1>2 DEF q
  <2>. QED
    BY <1>0, <1>2, <2>1, JoinsLists DEF q
<1>3. ASSUME NEW r \in Queues, NEW x \in Slots, Wakes(r, x)
      PROVE  Has(q, w)' <=> Has(q, w)
  <2>1. r # q /\ Has(r, x)
    BY <1>0, <1>3 DEF Wakes, Has, q
  <2>. QED
    BY <1>0, <1>00, <1>3, <2>1, WakesLists DEF q
<1>4. ASSUME NEW b \in BlockQueues, Frees(b) PROVE Has(q, w)' <=> Has(q, w)
  BY <1>0, <1>4, FreesLists DEF q
<1>5. ASSUME NEW c \in Cpus, NEW i \in DOMAIN queue[Ready], Picks(c, i)
      PROVE  Has(q, w)' <=> Has(q, w)
  <2>1. Has(Ready, queue[Ready][i])
    BY DEF Has, Contains
  <2>. QED
    BY <1>0, <1>00, <1>5, <2>1, PicksLists DEF q
<1>. QED
  BY <1>1, <1>2, <1>3, <1>4, <1>5 DEF Moves, q

LEMMA TableInit == Init => Table!Init
<1>. SUFFICES ASSUME Init PROVE Table!Init
  OBVIOUS
<1>1. TypeOK /\ RunListInv
  BY TypeInit, RunListInit
<1>2. 0 \in Slots
  BY NumTaskAssumption DEF Slots
<1>3. LivePids = {1}
  BY <1>1, <1>2, TableIs DEF Init, Live
<1>4. \A p, w \in Slots : ~Has(Wait(p), w)
  BY QueueNames DEF Init, Has, Contains
<1>5. Pairs = {}
  BY <1>1, <1>4, TableIs
<1>. QED
  BY <1>3, <1>5 DEF Init, Table!Init, LivePids, Pairs

LEMMA TableNext ==
  TypeOK /\ TypeOK' /\ PlaceInv /\ RunListInv /\ RunListInv' /\ [Next]_vars
    => [Table!Next]_<<LivePids, process_id, Pairs>>
<1>. SUFFICES ASSUME TypeOK, TypeOK', PlaceInv, RunListInv, RunListInv', [Next]_vars
              PROVE  Table!Next \/ UNCHANGED <<LivePids, process_id, Pairs>>
  OBVIOUS
<1>1. /\ \A k : k \in LivePids <=> \E p \in Slots : Live(p) /\ pid[p] = k
      /\ \A e : e \in Pairs <=> \E p, w \in Slots : Has(Wait(p), w) /\ e = <<pid[w], pid[p]>>
  BY TableIs
<1>2. /\ \A k : k \in LivePids' <=> \E p \in Slots : Live(p)' /\ pid'[p] = k
      /\ \A e : e \in Pairs' <=> \E p, w \in Slots : Has(Wait(p), w)' /\ e = <<pid'[w], pid'[p]>>
  BY TableIsNext
<1>3. CASE Plain
  <2>1. Moves /\ UNCHANGED <<pid, process_id>> /\ \A x \in Slots : Live(x)' <=> Live(x)
    BY <1>3, MovesKeepLives DEF Plain, PlaceInv
  <2>2. LivePids' = LivePids
    BY <1>1, <1>2, <2>1
  <2>3. ASSUME NEW c \in Cpus, NEW st \in Statuses, NEW p \in Slots, Joins(c, Wait(p), st)
        PROVE  Table!Next
    <3>. DEFINE me == current_running[c]
    <3>1. me \in Slots /\ Live(me) /\ Live(p) /\ \A q \in Queues : ~Has(q, me)
      BY <2>3, RunningHere DEF Joins, Clearing, PlaceInv
    <3>2. \A y, w \in Slots : Has(Wait(y), w)' <=> Has(Wait(y), w) \/ (y = p /\ w = me)
      BY <2>3, JoinsLists, QueueNames DEF PlaceInv
    <3>. HIDE DEF me
    <3>3. PICK a, k : a = pid[me] /\ k = pid[p]
      OBVIOUS
    <3>4. a \in LivePids /\ k \in LivePids
      BY <1>1, <3>1, <3>3
    <3>5. \A e \in Pairs : e[1] # a
      <4>. SUFFICES ASSUME NEW y \in Slots, NEW w \in Slots, Has(Wait(y), w), pid[w] = pid[me]
                    PROVE  FALSE
        BY <1>1, <3>3
      <4>1. Live(w)
        BY QueueNames, LinkedIsIdle DEF PlaceInv, Placed
      <4>2. w = me
        BY <3>1, <4>1 DEF PlaceInv, Placed, OwnPids
      <4>. QED
        BY <3>1, <4>2, QueueNames
    <3>6. Pairs' = Pairs \cup {<<a, k>>}
      BY <1>1, <1>2, <2>1, <3>1, <3>2, <3>3
    <3>7. Table!WaitFor(a, k)
      BY <2>1, <2>2, <3>4, <3>5, <3>6 DEF Table!WaitFor, LivePids, Pairs
    <3>. QED
      BY <3>4, <3>7 DEF Table!Next, LivePids
  <2>4. CASE ~\E c \in Cpus, st \in Statuses, p \in Slots : Joins(c, Wait(p), st)
    <3>1. \A p, w \in Slots : Has(Wait(p), w)' <=> Has(Wait(p), w)
      BY <2>1, <2>4, MovesKeepWaits DEF PlaceInv
    <3>2. Pairs' = Pairs
      BY <1>1, <1>2, <2>1, <3>1
    <3>. QED
      BY <2>1, <2>2, <3>2
  <2>. QED
    BY <2>3, <2>4
<1>4. ASSUME NEW p \in Slots, Starts(p) PROVE Table!Next
  <2>1. /\ \A x \in Slots : Live(x)' <=> Live(x) \/ x = p
        /\ \A r \in Queues : ~Has(r, p)
        /\ \A r \in Queues, x \in Slots : Has(r, x)' <=> Has(r, x) \/ (r = Ready /\ x = p)
    BY <1>4, StartsLists DEF PlaceInv
  <2>2. /\ \A x \in Slots : pid'[x] = IF x = p THEN process_id ELSE pid[x]
        /\ ~Live(p) /\ process_id <= MaxPid /\ process_id' = process_id + 1
    BY <1>4 DEF Starts, TypeOK
  <2>3. LivePids' = LivePids \cup {process_id}
    BY <1>1, <1>2, <2>1, <2>2
  <2>4. \A x \in Slots : ~Has(Wait(p), x)
    BY <2>2 DEF PlaceInv, Placed, NoWaiters
  <2>5. \A y, w \in Slots : /\ Has(Wait(y), w)' <=> Has(Wait(y), w)
                            /\ Has(Wait(y), w) => y # p /\ w # p
    BY <2>1, <2>4, QueueNames
  <2>6. Pairs' = Pairs
    BY <1>1, <1>2, <2>2, <2>5, ZenonT(60)
  <2>. QED
    BY <2>2, <2>3, <2>6 DEF Table!Next, Table!Spawn, LivePids, Pairs
<1>5. ASSUME NEW c \in Cpus, NEW p \in Slots, Clears(c, p) PROVE Table!Next
  <2>0. PICK k : k = pid[p]
    OBVIOUS
  <2>1. /\ \A x \in Slots : Live(x)' <=> Live(x) /\ x # p
        /\ \A r \in Queues : \A x :
             Has(r, x)' <=> /\ x # p
                            /\ \/ r = Ready /\ (Has(Ready, x) \/ Has(Wait(p), x))
                               \/ r # Ready /\ r # Wait(p) /\ Has(r, x)
    BY <1>5, ClearsLists DEF PlaceInv
  <2>2. Live(p) /\ UNCHANGED <<pid, process_id>>
    BY <1>5 DEF Clears, ToClear
  <2>3. \A x \in Slots : Live(x) /\ pid[x] = k => x = p
    BY <2>0, <2>2 DEF PlaceInv, Placed, OwnPids
  <2>4. k \in LivePids
    BY <1>1, <2>0, <2>2
  <2>5. LivePids' = LivePids \ {k}
    BY <1>1, <1>2, <2>0, <2>1, <2>2, <2>3
  <2>6. \A y, w \in Slots : Has(Wait(y), w)' <=> Has(Wait(y), w) /\ w # p /\ y # p
    BY <2>1, QueueNames
  <2>7. \A y, w \in Slots : Has(Wait(y), w) => /\ pid[w] = k <=> w = p
                                               /\ pid[y] = k <=> y = p
    <3>. SUFFICES ASSUME NEW y \in Slots, NEW w \in Slots, Has(Wait(y), w)
                  PROVE  Live(w) /\ Live(y)
      BY <2>0, <2>3
    <3>1. Live(w)
      BY QueueNames, LinkedIsIdle DEF PlaceInv, Placed
    <3>2. Live(y)
      BY DEF PlaceInv, Placed, NoWaiters
    <3>. QED
      BY <3>1, <3>2
  <2>8. Pairs' = {e \in Pairs : e[1] # k /\ e[2] # k}
    <3>1. \A e : e \in Pairs' <=> \E y, w \in Slots : /\ Has(Wait(y), w) /\ e = <<pid[w], pid[y]>>
                                                     /\ pid[w] # k /\ pid[y] # k
      BY <1>2, <2>2, <2>6, <2>7
    <3>. QED
      BY <1>1, <3>1
  <2>9. Table!Die(k)
    BY <2>2, <2>4, <2>5, <2>8 DEF Table!Die, LivePids, Pairs
  <2>. QED
    BY <2>4, <2>9 DEF Table!Next, LivePids
<1>. QED
  BY <1>3, <1>4, <1>5, ProcessSteps

\* exec, fork, exit, kill and waitpid, with all that happens on the lists, implement the
\* process table: a pid is never used again, and waitpid ends when the process does.
THEOREM TableIsKept == Spec => ProcTableHolds
<1>1. TypeOK /\ TypeOK' /\ PlaceInv /\ RunListInv /\ RunListInv' /\ [Next]_vars
        => [Table!Next]_(Table!tableVars)
  BY TableNext DEF Table!tableVars, LivePids, Pairs
<1>. QED
  BY <1>1, TableInit, TypeCorrect, Placement, RunListHolds, PTL
     DEF Spec, ProcTableHolds, Table!Spec

-----------------------------------------------------------------------------
(* Sleep.                                                                   *)

LEMMA SleepsLaterNext ==
  ASSUME TypeOK, PlaceInv, SleepsLater, [Next]_vars
  PROVE  SleepsLater'
<1>0. ASSUME UNCHANGED <<kernel, current_running, expired>> PROVE SleepsLater'
  BY <1>0 DEF SleepsLater, Me
<1>00. ASSUME kernel'.op # "check_sleeping" PROVE SleepsLater'
  BY <1>00 DEF SleepsLater
<1>1. ASSUME NEW c \in Cpus, do_scheduler(c) PROVE SleepsLater'
  BY <1>1 DEF do_scheduler, check_killed, Leave, At, SleepsLater
<1>2. ASSUME NEW c \in Cpus, SystemCall(c) PROVE SleepsLater'
  <2>1. CASE do_sleep(c)
    <3>1. /\ expired' = expired \ {current_running[c]} /\ UNCHANGED current_running
          /\ \/ kernel'.op = "pcb_clear"
             \/ kernel' = [At("check_sleeping", c) EXCEPT !.then = "sleep"]
      BY <2>1 DEF do_sleep, check_killed, Leave
    <3>2. kernel'.op = "check_sleeping" => kernel'.cpu = c
      BY <3>1 DEF At
    <3>. QED
      BY <3>1, <3>2 DEF SleepsLater, Me
  <2>2. ASSUME NEW m, Syscall(c), new_process(c, m) PROVE SleepsLater'
    BY <2>2, <1>00 DEF Syscall, Trap, new_process, At
  <2>3. CASE do_exec(c) \/ do_fork(c) \/ do_exit(c)
    BY <2>2, <2>3, <1>00 DEF do_exec, do_fork, do_exit, At, Leave
  <2>4. ASSUME NEW k \in 1 .. MaxPid, do_kill(c, k) PROVE SleepsLater'
    <3>1. /\ kernel.op = "user"
          /\ kernel' = kernel \/ kernel' = At("spin", c) \/ kernel' = Leave(c, k, "kill")
      BY <2>4 DEF do_kill, Syscall, Trap
    <3>. QED
      BY <3>1, <1>00 DEF At, Leave
  <2>9. ASSUME NEW k \in 1 .. MaxPid, do_waitpid(c, k) PROVE SleepsLater'
    <3>1. kernel' = At("exec_next_task", c)
      BY <2>9 DEF do_waitpid, proc_schedule
    <3>. QED
      BY <3>1, <1>00 DEF At
  <2>5. ASSUME NEW m \in Masks, do_taskset_exec(c, m) PROVE SleepsLater'
    BY <2>2, <2>5 DEF do_taskset_exec
  <2>6. ASSUME NEW m \in Masks, NEW k \in 1 .. MaxPid, do_taskset(c, k, m) PROVE SleepsLater'
    BY <2>6, <1>00 DEF do_taskset, Syscall, Trap
  <2>7. CASE ipc_init(c)
    <3>1. kernel.op = "user" /\ (kernel' = kernel \/ kernel' = At("corrupt", c))
      BY <2>7 DEF ipc_init, Syscall, Trap
    <3>. QED
      BY <3>1, <1>00 DEF At
  <2>8. ASSUME NEW b \in BlockQueues, ipc_destroy(c, b) \/ do_block(c, b) \/ do_unblock(c, b)
        PROVE  SleepsLater'
    BY <2>8, <1>00 DEF ipc_destroy, do_block, do_unblock, proc_schedule, Syscall, Trap, At
  <2>. QED
    BY <1>2, <2>1, <2>3, <2>4, <2>5, <2>6, <2>7, <2>8, <2>9 DEF SystemCall
<1>3. ASSUME NEW c \in Cpus, KernelStep(c) PROVE SleepsLater'
  <2>1. CASE check_sleeping(c)
    BY <1>0, <1>00, <2>1 DEF check_sleeping, proc_schedule, At
  <2>2. CASE exec_next_task(c)
    <3>1. kernel' = InUser \/ kernel' = At("resume", c)
      BY <2>2 DEF exec_next_task
    <3>. QED
      BY <1>00, <3>1 DEF InUser, At
  <2>3. CASE pcb_clear(c)
    <3>1. kernel' = At("fault", c) \/ kernel' = [kernel EXCEPT !.op = "destroy_ipc"]
      BY <2>3 DEF pcb_clear
    <3>. QED
      BY <1>00, <3>1 DEF At, TypeOK
  <2>4. CASE destroy_ipc(c)
    <3>1. /\ kernel.op = "destroy_ipc"
          /\ kernel' = kernel \/ kernel' = [kernel EXCEPT !.op = "pcb_clear"]
      BY <2>4 DEF destroy_ipc, In
    <3>. QED
      BY <1>00, <3>1 DEF TypeOK
  <2>5. CASE leave_task(c)
    BY <1>00, <2>5 DEF leave_task, InUser, At
  <2>. QED
    BY <1>3, <2>1, <2>2, <2>3, <2>4, <2>5 DEF KernelStep
<1>4. ASSUME NEW p \in Slots, Expire(p) PROVE SleepsLater'
  BY <1>00, <1>4 DEF Expire
<1>5. CASE UNCHANGED vars
  BY <1>0, <1>5 DEF vars
<1>. QED
  BY <1>1, <1>2, <1>3, <1>4, <1>5 DEF Next, Hang

\* A task joins the sleep queue while its wake-up time is to come, and leaves it when
\* that time has come, or dies.
LEMMA SleepStep ==
  ASSUME TypeOK, PlaceInv, SleepsLater, [Next]_vars, NEW p \in Slots
  PROVE  /\ ~Has(Sleep, p) /\ Has(Sleep, p)' => p \notin expired'
         /\ Has(Sleep, p) /\ ~Has(Sleep, p)'
              => (p \in expired /\ status'[p] = "READY") \/ status'[p] = "ZOMBIE"
<1>0. /\ Sleep \in Queues /\ Ready \in Queues /\ Sleep # Ready
      /\ \A x : Sleep # Wait(x) /\ Sleep # Block(x)
  BY QueueNames
<1>1. CASE Moves
  <2>1. CASE Still
    BY <2>1 DEF Still, Has
  <2>2. ASSUME NEW c \in Cpus, NEW q \in Queues, NEW st \in Statuses, Joins(c, q, st)
        PROVE  /\ Has(Sleep, p) => Has(Sleep, p)'
               /\ ~Has(Sleep, p) /\ Has(Sleep, p)' => p \notin expired'
    <3>1. Has(Sleep, p)' <=> Has(Sleep, p) \/ (Sleep = q /\ p = current_running[c])
      BY <1>0, <2>2, JoinsLists DEF PlaceInv
    <3>2. Sleep = q => st = "SLEEPING"
      <4>1. Sleep = q => Sleep \in ListsOf(st) /\ st # "ZOMBIE"
        BY <2>2 DEF Joins
      <4>2. Sleep \in ListsOf(st) => st \in {"SLEEPING", "ZOMBIE"}
        <5>1. \A t \in {"BLOCKED", "RUNNING", "READY", "WAITING", "EXITED"} :
                Sleep \notin ListsOf(t)
          BY <1>0, StatusLists, QueueNames
        <5>. QED
          BY <5>1 DEF Statuses
      <4>. QED
        BY <4>1, <4>2
    <3>3. Sleep = q => Me(c) \notin expired /\ UNCHANGED expired
      BY <2>2, <3>2 DEF Joins, SleepsLater, In
    <3>. QED
      BY <3>1, <3>3 DEF Me
  <2>3. ASSUME NEW q \in Queues, NEW x \in Slots, Wakes(q, x)
        PROVE  /\ Has(Sleep, p)' => Has(Sleep, p)
               /\ Has(Sleep, p) /\ ~Has(Sleep, p)' => p \in expired /\ status'[p] = "READY"
    <3>1. Has(Sleep, p)' <=> p # x /\ Has(Sleep, p)
      BY <1>0, <2>3, WakesLists DEF PlaceInv
    <3>2. Has(Sleep, x) => q = Sleep
      BY <1>0, <2>3 DEF Wakes, PlaceInv, Placed, LinkedOnce, Has
    <3>. QED
      BY <2>3, <3>1, <3>2 DEF Wakes, TypeOK
  <2>4. ASSUME NEW b \in BlockQueues, Frees(b) PROVE Has(Sleep, p)' <=> Has(Sleep, p)
    BY <1>0, <2>4, FreesLists DEF PlaceInv
  <2>5. ASSUME NEW c \in Cpus, NEW i \in DOMAIN queue[Ready], Picks(c, i)
        PROVE  Has(Sleep, p)' <=> Has(Sleep, p)
    <3>1. Has(Ready, queue[Ready][i]) /\ queue[Ready][i] \in Slots
      BY <1>0, QueuedSlots DEF Has, Contains
    <3>2. ~Has(Sleep, queue[Ready][i])
      BY <1>0, <3>1 DEF PlaceInv, Placed, LinkedOnce
    <3>. QED
      BY <1>0, <2>5, <3>2, PicksLists DEF PlaceInv
  <2>. QED
    BY <1>1, <2>1, <2>2, <2>3, <2>4, <2>5 DEF Moves
<1>2. ASSUME NEW x \in Slots, Starts(x) PROVE Has(Sleep, p)' <=> Has(Sleep, p)
  BY <1>0, <1>2, StartsLists DEF PlaceInv
<1>3. ASSUME NEW c \in Cpus, NEW x \in Slots, Clears(c, x)
      PROVE  /\ Has(Sleep, p)' => Has(Sleep, p)
             /\ Has(Sleep, p) /\ ~Has(Sleep, p)' => status'[p] = "ZOMBIE"
  <2>1. Has(Sleep, p)' <=> p # x /\ Has(Sleep, p)
    BY <1>0, <1>3, ClearsLists DEF PlaceInv
  <2>2. status'[x] = "ZOMBIE"
    BY <1>3 DEF Clears, made_ready
  <2>. QED
    BY <2>1, <2>2
<1>. QED
  BY <1>1, <1>2, <1>3, ProcessSteps DEF Plain

\* do_sleep and check_sleeping: a sleep is not cut short, whatever the other CPU does.
THEOREM SleepsAreWhole == Spec => SleepNotCutShort
<1>1. Init => SleepsLater
  BY DEF Init, SleepsLater, InUser, At
<1>2. TypeOK /\ PlaceInv /\ SleepsLater /\ [Next]_vars => SleepsLater'
  BY SleepsLaterNext
<1>3. TypeOK /\ PlaceInv /\ SleepsLater /\ [Next]_vars =>
        [\A p \in Slots :
           /\ ~Contains(queue[Sleep], p) /\ Contains(queue'[Sleep], p) => p \notin expired'
           /\ Contains(queue[Sleep], p) /\ ~Contains(queue'[Sleep], p)
                => (p \in expired /\ status'[p] = "READY") \/ status'[p] = "ZOMBIE"]_vars
  BY SleepStep DEF Has
<1>. QED
  BY <1>1, <1>2, <1>3, TypeCorrect, Placement, PTL DEF Spec, SleepNotCutShort

-----------------------------------------------------------------------------
(* Dispatch.                                                                *)

\* list_del, list_add_tail and unblock_list keep the order of the ready queue, for all
\* but the task that list_del takes out.
LEMMA ListsInOrder ==
  ASSUME NEW Q \in Lists, NEW x, NEW y, Precedes(Q[Ready], x, y)
  PROVE  /\ \A e : x # e /\ y # e => Precedes(list_del(Q, e)[Ready], x, y)
         /\ \A q \in Queues, e \in Slots : Precedes(list_add_tail(Q, q, e)[Ready], x, y)
         /\ \A q \in Queues \ {Ready} : Precedes(unblock_list(Q, q)[Ready], x, y)
<1>1. Ready \in Queues /\ Q[Ready] \in Seq(Slots) /\ \A q \in Queues : Q[q] \in Seq(Slots)
  BY QueueNames DEF Lists
<1>2. ASSUME NEW e, x # e, y # e PROVE Precedes(list_del(Q, e)[Ready], x, y)
  <2>1. list_del(Q, e)[Ready] = unlink(Q[Ready], e)
    BY <1>1 DEF list_del
  <2>2. Precedes(unlink(Q[Ready], e), x, y)
    BY <1>1, <1>2, UnlinkOrder
  <2>. QED
    BY <2>1, <2>2
<1>3. ASSUME NEW q \in Queues, NEW e \in Slots
      PROVE  Precedes(list_add_tail(Q, q, e)[Ready], x, y)
  <2>1. list_add_tail(Q, q, e)[Ready] = IF q = Ready THEN Append(Q[Ready], e) ELSE Q[Ready]
    BY <1>1 DEF list_add_tail, Lists
  <2>2. Precedes(Append(Q[Ready], e), x, y)
    BY <1>1, AppendOrder
  <2>. QED
    BY <2>1, <2>2
<1>4. ASSUME NEW q \in Queues \ {Ready} PROVE Precedes(unblock_list(Q, q)[Ready], x, y)
  <2>1. unblock_list(Q, q)[Ready] = Q[Ready] \o Q[q]
    BY <1>1 DEF unblock_list, Lists
  <2>2. Precedes(Q[Ready] \o Q[q], x, y)
    BY <1>1, ConcatOrder
  <2>. QED
    BY <2>1, <2>2
<1>. QED
  BY <1>2, <1>3, <1>4

\* Who may overtake whom in the ready queue.
LEMMA OrderStep ==
  ASSUME TypeOK, PlaceInv, [Next]_vars, NEW p \in Slots, NEW q \in Slots,
         Before(queue, p, q), ~Before(queue', p, q)
  PROVE  \/ ~Contains(queue'[Ready], p)
         \/ status'[q] = "ZOMBIE"
         \/ \E c \in Cpus : current_running'[c] = q /\ ~Allowed(p, c)
<1>0. \A Q : Before(Q, p, q) <=> Precedes(Q[Ready], p, q)
  BY DEF Before, Precedes
<1>1. /\ Ready \in Queues /\ queue \in Lists /\ OneEach(queue)
      /\ Precedes(queue[Ready], p, q) /\ ~Precedes(queue'[Ready], p, q)
      /\ Has(Ready, p) /\ Has(Ready, q)
  <2>1. queue \in Lists /\ OneEach(queue)
    BY ListsAre DEF PlaceInv
  <2>2. Has(Ready, p) /\ Has(Ready, q)
    BY DEF Before, Has, Contains
  <2>. QED
    BY <1>0, <2>1, <2>2, QueueNames
<1>2. CASE Moves
  <2>1. CASE Still
    BY <1>1, <2>1 DEF Still
  <2>2. ASSUME NEW c \in Cpus, NEW r \in Queues, NEW st \in Statuses, Joins(c, r, st)
        PROVE  FALSE
    <3>1. PICK e \in Slots : queue' = list_add_tail(queue, r, e)
      BY <2>2 DEF Joins
    <3>2. Precedes(list_add_tail(queue, r, e)[Ready], p, q)
      BY <1>1, ListsInOrder
    <3>. QED
      BY <1>1, <3>1, <3>2
  <2>3. ASSUME NEW r \in Queues, NEW e \in Slots, Wakes(r, e) PROVE FALSE
    <3>. DEFINE D == list_del(queue, e)
    <3>1. r # Ready /\ Has(r, e) /\ queue' = list_add_tail(D, Ready, e)
      BY <2>3, QueueNames DEF Wakes, Has
    <3>2. e # p /\ e # q
      BY <1>1, <3>1 DEF PlaceInv, Placed, LinkedOnce
    <3>3. D \in Lists /\ Precedes(D[Ready], p, q)
      BY <1>1, <3>2, ListDel, ListsInOrder
    <3>. HIDE DEF D
    <3>4. Precedes(list_add_tail(D, Ready, e)[Ready], p, q)
      BY <1>1, <3>3, ListsInOrder
    <3>. QED
      BY <1>1, <3>1, <3>4
  <2>4. ASSUME NEW b \in BlockQueues, Frees(b) PROVE FALSE
    <3>1. Block(b) \in Queues \ {Ready} /\ queue' = unblock_list(queue, Block(b))
      BY <2>4, QueueNames DEF Frees
    <3>2. Precedes(unblock_list(queue, Block(b))[Ready], p, q)
      BY <1>1, <3>1, ListsInOrder
    <3>. QED
      BY <1>1, <3>1, <3>2
  <2>5. ASSUME NEW c \in Cpus, NEW i \in DOMAIN queue[Ready], Picks(c, i)
        PROVE  \/ ~Contains(queue'[Ready], p)
               \/ current_running'[c] = q /\ ~Allowed(p, c)
    <3>. DEFINE e == queue[Ready][i]
    <3>1. e \in Slots /\ queue' = list_del(queue, e) /\ current_running'[c] = e
      BY <1>1, <2>5, QueuedSlots DEF Picks, TypeOK
    <3>2. CASE e = p
      BY <1>1, <2>5, <3>2, PicksLists DEF Has, PlaceInv
    <3>3. CASE e = q
      <4>1. PICK k, l \in DOMAIN queue[Ready] : k < l /\ queue[Ready][k] = p /\ queue[Ready][l] = q
        BY <1>1 DEF Precedes
      <4>2. l = i
        BY <1>1, <3>3, <4>1 DEF OneEach, IsInjective
      <4>3. k \in 1 .. i - 1
        <5>1. DOMAIN queue[Ready] = 1 .. Len(queue[Ready]) /\ Len(queue[Ready]) \in Nat
          BY <1>1, LenProperties DEF Lists
        <5>. QED
          BY <4>1, <4>2, <5>1
      <4>. QED
        BY <2>5, <3>1, <3>3, <4>1, <4>3 DEF Picks, Eligible, Allowed
    <3>4. CASE e # p /\ e # q
      <4>1. Precedes(list_del(queue, e)[Ready], p, q)
        BY <1>1, <3>4, ListsInOrder
      <4>. QED
        BY <1>1, <3>1, <4>1
    <3>. QED
      BY <3>2, <3>3, <3>4
  <2>. QED
    BY <1>2, <2>1, <2>2, <2>3, <2>4, <2>5 DEF Moves
<1>3. ASSUME NEW e \in Slots, Starts(e) PROVE FALSE
  <2>1. /\ queue' = [list_add_tail(queue, Ready, e) EXCEPT ![Wait(e)] = <<>>]
        /\ Wait(e) # Ready
    BY <1>3, QueueNames DEF Starts
  <2>2. Precedes(list_add_tail(queue, Ready, e)[Ready], p, q)
    BY <1>1, ListsInOrder
  <2>3. queue'[Ready] = list_add_tail(queue, Ready, e)[Ready]
    BY <1>1, <2>1 DEF list_add_tail, Lists
  <2>. QED
    BY <1>1, <2>2, <2>3
<1>4. ASSUME NEW c \in Cpus, NEW e \in Slots, Clears(c, e)
      PROVE  ~Contains(queue'[Ready], p) \/ status'[q] = "ZOMBIE"
  <2>1. CASE e = p
    BY <1>1, <1>4, <2>1, ClearsLists DEF Has, PlaceInv
  <2>2. CASE e = q
    BY <1>4, <2>2 DEF Clears, made_ready
  <2>3. CASE e # p /\ e # q
    <3>. DEFINE Q == IF e = Me(c) THEN queue ELSE list_del(queue, e)
    <3>1. Wait(e) \in Queues \ {Ready} /\ queue' = unblock_list(Q, Wait(e))
      BY <1>4, QueueNames DEF Clears
    <3>2. Q \in Lists /\ Precedes(Q[Ready], p, q)
      BY <1>1, <2>3, ListDel, ListsInOrder
    <3>. HIDE DEF Q
    <3>3. Precedes(unblock_list(Q, Wait(e))[Ready], p, q)
      BY <3>1, <3>2, ListsInOrder
    <3>. QED
      BY <1>1, <3>1, <3>3
  <2>. QED
    BY <2>1, <2>2, <2>3
<1>. QED
  BY <1>2, <1>3, <1>4, ProcessSteps DEF Plain

\* Only exec_next_task changes what a CPU runs, and only it lets a CPU out of itself.
LEMMA Dispatches ==
  ASSUME TypeOK, [Next]_vars, NEW c \in Cpus, ~exec_next_task(c)
  PROVE  /\ current_running'[c] = current_running[c]
         /\ ~(In("exec_next_task", c) /\ kernel'.op = "user")
<1>1. ASSUME UNCHANGED current_running, kernel.op # "exec_next_task" \/ UNCHANGED kernel
      PROVE  /\ current_running'[c] = current_running[c]
             /\ ~(In("exec_next_task", c) /\ kernel'.op = "user")
  BY <1>1 DEF In
<1>2. ASSUME NEW d \in Cpus, do_scheduler(d)
      PROVE  UNCHANGED current_running /\ kernel.op = "user"
  BY <1>2 DEF do_scheduler, Trap
<1>3. ASSUME NEW d \in Cpus, SystemCall(d)
      PROVE  UNCHANGED current_running /\ kernel.op = "user"
  <2>1. CASE do_sleep(d) \/ do_exec(d) \/ do_fork(d) \/ do_exit(d)
    BY <2>1 DEF do_sleep, do_exec, do_fork, do_exit, new_process, Syscall, Trap
  <2>2. ASSUME NEW k \in 1 .. MaxPid, do_kill(d, k) \/ do_waitpid(d, k)
        PROVE  UNCHANGED current_running /\ kernel.op = "user"
    BY <2>2 DEF do_kill, do_waitpid, Syscall, Trap
  <2>3. ASSUME NEW m \in Masks, do_taskset_exec(d, m)
        PROVE  UNCHANGED current_running /\ kernel.op = "user"
    BY <2>3 DEF do_taskset_exec, new_process, Syscall, Trap
  <2>4. ASSUME NEW m \in Masks, NEW k \in 1 .. MaxPid, do_taskset(d, k, m)
        PROVE  UNCHANGED current_running /\ kernel.op = "user"
    BY <2>4 DEF do_taskset, Syscall, Trap
  <2>5. CASE ipc_init(d)
    BY <2>5 DEF ipc_init, Syscall, Trap
  <2>6. ASSUME NEW b \in BlockQueues, ipc_destroy(d, b) \/ do_block(d, b) \/ do_unblock(d, b)
        PROVE  UNCHANGED current_running /\ kernel.op = "user"
    BY <2>6 DEF ipc_destroy, do_block, do_unblock, Syscall, Trap
  <2>. QED
    BY <1>3, <2>1, <2>2, <2>3, <2>4, <2>5, <2>6 DEF SystemCall
<1>4. ASSUME NEW d \in Cpus, KernelStep(d)
      PROVE  /\ current_running'[c] = current_running[c]
             /\ ~(In("exec_next_task", c) /\ kernel'.op = "user")
  <2>1. CASE exec_next_task(d)
    <3>1. d # c /\ In("exec_next_task", d)
      BY <2>1 DEF exec_next_task
    <3>2. current_running'[c] = current_running[c]
      BY <2>1, <3>1 DEF exec_next_task, TypeOK
    <3>. QED
      BY <3>1, <3>2 DEF In
  <2>2. CASE check_sleeping(d) \/ pcb_clear(d) \/ destroy_ipc(d) \/ leave_task(d)
    BY <2>2, <1>1 DEF check_sleeping, pcb_clear, destroy_ipc, leave_task, In
  <2>. QED
    BY <1>4, <2>1, <2>2 DEF KernelStep
<1>5. ASSUME NEW p \in Slots, Expire(p) PROVE UNCHANGED <<current_running, kernel>>
  BY <1>5 DEF Expire
<1>6. CASE UNCHANGED vars
  BY <1>1, <1>6 DEF vars
<1>. QED
  BY <1>1, <1>2, <1>3, <1>4, <1>5, <1>6 DEF Next, Hang

\* Whom exec_next_task picks.
LEMMA DispatchStep ==
  ASSUME TypeOK, PlaceInv, [Next]_vars, NEW c \in Cpus
  PROVE  /\ Started(c) => Allowed(current_running'[c], c)
         /\ current_running'[c] = Idle /\ In("exec_next_task", c) /\ kernel'.op = "user"
              => \A p \in Slots : status[p] = "READY" => ~Allowed(p, c)
<1>1. CASE ~exec_next_task(c)
  BY <1>1, Dispatches DEF Started
<1>2. ASSUME In("exec_next_task", c), NEW i \in DOMAIN queue[Ready], Eligible(queue[Ready][i], c),
             current_running' = [current_running EXCEPT ![c] = queue[Ready][i]]
      PROVE  Allowed(current_running'[c], c) /\ current_running'[c] # Idle
  <2>1. queue[Ready][i] \in Slots /\ current_running'[c] = queue[Ready][i]
    BY <1>2, QueueNames, QueuedSlots DEF TypeOK
  <2>. QED
    BY <1>2, <2>1, NumTaskAssumption DEF Eligible, Allowed, Slots, Idle
<1>3. ASSUME In("exec_next_task", c), \A i \in DOMAIN queue[Ready] : ~Eligible(queue[Ready][i], c),
             current_running' = [current_running EXCEPT ![c] = Idle]
      PROVE  /\ current_running'[c] = Idle
             /\ \A p \in Slots : status[p] = "READY" => ~Allowed(p, c)
  <2>1. ASSUME NEW p \in Slots, status[p] = "READY" PROVE Has(Ready, p)
    <3>1. ~Exiting /\ Live(p)
      BY <1>3, <2>1 DEF In, Exiting, Clearing, Live
    <3>2. ~\E d \in Cpus : Runs(d, p)
      BY <2>1, <3>1 DEF PlaceInv, Placed, RunsLive
    <3>3. PICK q \in Queues : Has(q, p)
      BY <3>1, <3>2 DEF PlaceInv, Placed, Somewhere
    <3>4. q \in ListsOf("READY")
      BY <2>1, <3>3 DEF PlaceInv, Placed, LinkedByStatus
    <3>. QED
      BY <3>3, <3>4, StatusLists
  <2>2. ASSUME NEW p \in Slots, status[p] = "READY" PROVE ~Allowed(p, c)
    <3>1. PICK i \in DOMAIN queue[Ready] : queue[Ready][i] = p
      BY <2>1, <2>2 DEF Has, Contains
    <3>. QED
      BY <1>3, <3>1 DEF Eligible, Allowed
  <2>. QED
    BY <1>3, <2>2 DEF TypeOK
<1>. QED
  BY <1>1, <1>2, <1>3 DEF exec_next_task, Started

\* proc_schedule and exec_next_task: on each core the ready queue is first come, first
\* served, and no core is idle while a ready task may use it.
THEOREM FirstComeFirstServed == Spec => DispatchInOrder
<1>1. TypeOK /\ PlaceInv /\ [Next]_vars =>
        [/\ \A p, q \in Slots :
              Before(queue, p, q) /\ ~Before(queue', p, q) =>
                \/ ~Contains(queue'[Ready], p)
                \/ status'[q] = "ZOMBIE"
                \/ \E c \in Cpus : current_running'[c] = q /\ ~Allowed(p, c)
         /\ \A c \in Cpus :
              /\ Started(c) => Allowed(current_running'[c], c)
              /\ current_running'[c] = Idle /\ In("exec_next_task", c) /\ kernel'.op = "user"
                   => \A p \in Slots : status[p] = "READY" => ~Allowed(p, c)]_vars
  BY OrderStep, DispatchStep
<1>. QED
  BY <1>1, TypeCorrect, Placement, PTL DEF Spec, DispatchInOrder
=============================================================================
