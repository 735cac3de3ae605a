----------------------------- MODULE ThreadProof -----------------------------
(***************************************************************************)
(* Proofs about module Thread, for every value of the constants: the       *)
(* types, the places of the PCBs until the kernel is lost, and what a      *)
(* process and a joiner can rely on.                                       *)
(*                                                                         *)
(* A step of Thread is one of Process, which Placed and StepKinds of       *)
(* ProcessProof tell enough about, or one of the calls of threads: create  *)
(* is the start of a task (NewTask), exit and the end of join move one     *)
(* task and unblock its wait list (WaitersReady), and the rest of join     *)
(* gives the CPU up (GiveUp).                                              *)
(*                                                                         *)
(* What concerns the tasks of one process (FamilyInv, MainsListed) holds   *)
(* if only main threads join.  With two joiners of one thread the second   *)
(* one reaps a PCB that may be another process's by then.                  *)
(***************************************************************************)
EXTENDS ThreadInv, ProcessProof

-----------------------------------------------------------------------------
(* Type correctness.                                                        *)

LEMMA CallerIsSlot ==
  ASSUME TypeOK, NEW c \in Cpus, Me(c) # Idle
  PROVE  Me(c) \in Slots
BY DEF TypeOK, Me

LEMMA TypeCreate ==
  ASSUME TypeOK, NEW c \in Cpus, do_thread_create(c)
  PROVE  TypeOK'
<1>1. Me(c) \in Slots /\ Unchanged
  BY CallerIsSlot DEF do_thread_create, Syscall, Me
<1>2. CASE /\ kernel' = At("panic", c)
           /\ UNCHANGED <<status, identity, to_kill, context, queue>>
  <2>1. kernel' \in Kernels
    BY <1>2, Positions DEF Ops
  <2>. QED
    BY <1>1, <1>2, <2>1 DEF Unchanged, TypeOK, Kernels, identity
<1>3. ASSUME NEW p \in Slots,
             status' = [status EXCEPT ![p] = "READY"],
             pid' = [pid EXCEPT ![p] = pid[Me(c)]],
             tid' = [tid EXCEPT ![p] = child_t_num[Me(c)] + 1],
             child_t_num' = [child_t_num EXCEPT ![Me(c)] = @ + 1],
             core_mask' = [core_mask EXCEPT ![p] = core_mask[Me(c)]],
             to_kill' = [to_kill EXCEPT ![p] = FALSE],
             context' = [context EXCEPT ![p] = ToUser],
             queue' = [list_add_tail(queue, Ready, p) EXCEPT ![Wait(p)] = <<>>],
             UNCHANGED kernel
      PROVE  TypeOK'
  <2>1. queue' \in [Queues -> Seq(Slots)]
    <3>1. list_add_tail(queue, Ready, p) \in Lists
      BY ListAddTail, QueueNames DEF TypeOK, Lists
    <3>. QED
      BY <1>3, <3>1, EmptySeq DEF Lists
  <2>2. /\ pid' \in [Slots -> 0 .. MaxPid]
        /\ tid' \in [Slots -> Nat] /\ child_t_num' \in [Slots -> Nat]
        /\ core_mask' \in [Slots -> Masks] /\ to_kill' \in [Slots -> BOOLEAN]
    BY <1>1, <1>3 DEF TypeOK
  <2>3. status' \in [Slots -> Statuses] /\ context' \in [Slots -> Contexts]
    BY <1>3 DEF TypeOK, Statuses, Contexts
  <2>. QED
    BY <1>1, <1>3, <2>1, <2>2, <2>3 DEF Unchanged, TypeOK
<1>. QED
  BY <1>2, <1>3 DEF do_thread_create

\* The wait list of p is unblocked, and p gets the status st.
LEMMA RetireType ==
  ASSUME TypeOK, NEW p \in Slots, NEW st \in Statuses
  PROVE  /\ unblock_list(queue, Wait(p)) \in Lists
         /\ [made_ready(queue[Wait(p)]) EXCEPT ![p] = st] \in [Slots -> Statuses]
<1>1. queue \in Lists /\ Wait(p) \in Queues /\ Wait(p) # Ready
  BY QueueNames DEF TypeOK, Lists
<1>2. made_ready(queue[Wait(p)]) \in [Slots -> Statuses]
  BY MadeReadyType DEF TypeOK
<1>. QED
  BY <1>1, <1>2, UnblockList

LEMMA TypeThreadExit ==
  ASSUME TypeOK, NEW c \in Cpus, do_thread_exit(c)
  PROVE  TypeOK'
<1>1. Me(c) \in Slots /\ Unchanged /\ UNCHANGED <<identity, to_kill, context>>
  BY CallerIsSlot DEF do_thread_exit, Syscall, Me
<1>2. kernel' \in Kernels
  BY Positions DEF do_thread_exit, Ops
<1>3. CASE UNCHANGED <<status, queue>>
  BY <1>1, <1>2, <1>3 DEF Unchanged, TypeOK, Kernels, identity
<1>4. CASE park(Me(c))
  <2>1. /\ unblock_list(queue, Wait(Me(c))) \in Lists
        /\ status' \in [Slots -> Statuses]
    BY <1>1, <1>4, RetireType DEF park, Statuses
  <2>2. list_add_tail(unblock_list(queue, Wait(Me(c))), Exits, Me(c)) \in Lists
    BY <1>1, <2>1, ListAddTail, QueueNames
  <2>. QED
    BY <1>1, <1>2, <1>4, <2>1, <2>2 DEF park, Unchanged, TypeOK, Kernels, identity, Lists
<1>. QED
  BY <1>3, <1>4 DEF do_thread_exit

LEMMA TypeReap ==
  ASSUME TypeOK, NEW c \in Cpus, NEW p \in Slots, reap(c, p),
         Unchanged, UNCHANGED <<identity, to_kill>>
  PROVE  TypeOK'
<1>1. kernel' \in Kernels
  BY Positions DEF reap, Ops
<1>2. /\ unblock_list(queue, Wait(p)) \in Lists
      /\ status' \in [Slots -> Statuses]
  BY RetireType DEF reap, Statuses
<1>3. list_del(unblock_list(queue, Wait(p)), p) \in Lists
  BY <1>2, ListDel
<1>4. context' \in [Slots -> Contexts]
  BY DEF reap, TypeOK, Contexts
<1>. QED
  BY <1>1, <1>2, <1>3, <1>4 DEF reap, Unchanged, TypeOK, Kernels, identity, Lists

LEMMA TypeJoin ==
  ASSUME TypeOK, NEW c \in Cpus, NEW t \in 0 .. NUM_MAX_TASK, join(c, t),
         Unchanged, UNCHANGED <<identity, to_kill>>
  PROVE  TypeOK'
<1>1. ASSUME NEW q \in Queues, NEW st \in Statuses, NEW x \in Contexts,
             proc_schedule(c, q, st), context' = [context EXCEPT ![Me(c)] = x]
      PROVE  TypeOK'
  <2>1. /\ kernel' \in Kernels
        /\ status' \in [Slots -> Statuses]
        /\ queue' \in [Queues -> Seq(Slots)]
    BY <1>1, ProcScheduleType
  <2>2. context' \in [Slots -> Contexts]
    BY <1>1 DEF TypeOK
  <2>. QED
    BY <2>1, <2>2 DEF Unchanged, TypeOK, Kernels, identity
<1>2. CASE proc_schedule(c, Ready, "READY") /\ context' = [context EXCEPT ![Me(c)] = Find(t)]
  BY <1>1, <1>2, QueueNames DEF Statuses, Contexts
<1>3. ASSUME NEW p \in Slots, proc_schedule(c, Wait(p), "WAITING"),
             context' = [context EXCEPT ![Me(c)] = Reap(p)]
      PROVE  TypeOK'
  BY <1>1, <1>3, QueueNames DEF Statuses, Contexts
<1>. QED
  BY <1>2, <1>3, TypeReap DEF join

LEMMA TypeThreadYield ==
  ASSUME TypeOK, NEW c \in Cpus, do_thread_yield(c)
  PROVE  TypeOK'
<1>1. Me(c) \in Slots
  BY CallerIsSlot DEF do_thread_yield, Syscall, Me
<1>2. kernel' \in Kernels
  BY Positions DEF do_thread_yield, Ops
<1>3. UNCHANGED <<identity, to_kill, context, run_tasks, process_id, expired, owner>>
  BY DEF do_thread_yield
<1>4. CASE UNCHANGED <<current_running, status, queue>>
  BY <1>2, <1>3, <1>4 DEF TypeOK, Kernels, identity
<1>5. ASSUME NEW i \in DOMAIN queue[Ready],
             current_running' = [current_running EXCEPT ![c] = queue[Ready][i]],
             queue' = list_add_tail(list_del(queue, queue[Ready][i]), Ready, Me(c)),
             status' = [status EXCEPT ![Me(c)] = "RUNNING"]
      PROVE  TypeOK'
  <2>1. queue[Ready][i] \in Slots
    BY QueueNames, QueuedSlots
  <2>2. list_del(queue, queue[Ready][i]) \in Lists
    BY <2>1, ListDel DEF TypeOK, Lists
  <2>3. queue' \in Lists
    BY <1>1, <1>5, <2>2, ListAddTail, QueueNames
  <2>4. /\ current_running' \in [Cpus -> Slots \cup {Idle}]
        /\ status' \in [Slots -> Statuses]
    BY <1>1, <1>5, <2>1 DEF TypeOK, Statuses
  <2>. QED
    BY <1>2, <1>3, <2>3, <2>4 DEF TypeOK, Kernels, identity, Lists
<1>. QED
  BY <1>4, <1>5 DEF do_thread_yield

\* What a step of a thread call is: the last two are the steps of do_thread_join.
LEMMA ThreadSteps ==
  ASSUME TypeOK, [ThreadNext]_vars
  PROVE  \/ [Next]_vars
         \/ \E c \in Cpus :
              \/ do_thread_create(c) \/ do_thread_exit(c) \/ do_thread_yield(c)
              \/ \E t \in 1 .. NUM_MAX_TASK : do_thread_join(c, t)
              \/ resume(c)
<1>1. \A t \in 1 .. MAX_THREAD_NUM : t \in 1 .. NUM_MAX_TASK
  BY MaxThreadAssumption, NumTaskAssumption
<1>. QED
  BY <1>1 DEF ThreadNext

LEMMA ThreadTypeNext == TypeOK /\ [ThreadNext]_vars => TypeOK'
<1>. SUFFICES ASSUME TypeOK, [ThreadNext]_vars PROVE TypeOK'
  OBVIOUS
<1>1. CASE [Next]_vars
  BY <1>1, TypeNext
<1>2. ASSUME NEW c \in Cpus, NEW t \in 1 .. NUM_MAX_TASK, do_thread_join(c, t)
      PROVE  TypeOK'
  <2>1. t \in 0 .. NUM_MAX_TASK
    OBVIOUS
  <2>. QED
    BY <1>2, <2>1, TypeJoin DEF do_thread_join
<1>3. ASSUME NEW c \in Cpus, resume(c) PROVE TypeOK'
  BY <1>3, TypeJoin, TypeReap DEF resume
<1>. QED
  BY <1>1, <1>2, <1>3, ThreadSteps, TypeCreate, TypeThreadExit, TypeThreadYield

\* Every variable keeps its type with threads, too.
THEOREM ThreadTypes == ThreadSpec => []TypeOK
BY TypeInit, ThreadTypeNext, PTL DEF ThreadSpec

-----------------------------------------------------------------------------
(* A thread exits, and is reaped.                                           *)

\* Where the tasks are when the waiters of p are made ready.
LEMMA WaitersReady ==
  ASSUME TypeOK, Placed, NEW p \in Slots
  PROVE  /\ unblock_list(queue, Wait(p)) \in Lists
         /\ OneEach(unblock_list(queue, Wait(p)))
         /\ \A r \in Queues : \A x :
              Contains(unblock_list(queue, Wait(p))[r], x)
                <=> \/ r = Ready /\ (Has(Ready, x) \/ Has(Wait(p), x))
                    \/ r # Ready /\ r # Wait(p) /\ Has(r, x)
         /\ \A x \in Slots : Has(Wait(p), x) => Live(x) /\ status[x] = "WAITING"
<1>1. Wait(p) \in Queues /\ Wait(p) # Ready
  BY QueueNames
<1>2. queue \in Lists /\ OneEach(queue)
  BY ListsAre
<1>3. /\ unblock_list(queue, Wait(p)) \in Lists
      /\ OneEach(unblock_list(queue, Wait(p)))
      /\ \A r \in Queues : \A x :
           Contains(unblock_list(queue, Wait(p))[r], x)
             <=> \/ r = Ready /\ (Contains(queue[Ready], x) \/ Contains(queue[Wait(p)], x))
                 \/ r # Ready /\ r # Wait(p) /\ Contains(queue[r], x)
  BY <1>1, <1>2, UnblockList
<1>4. \A x \in Slots : Has(Wait(p), x) => Live(x) /\ status[x] = "WAITING"
  BY <1>1, StatusLists, QueueNames DEF Placed, LinkedByStatus, Statuses, TypeOK, Live
<1>. QED
  BY <1>3, <1>4 DEF Has

LEMMA ParkLists ==
  ASSUME TypeOK, Placed, NEW p \in Slots, \A r \in Queues : ~Has(r, p), Live(p), park(p)
  PROVE  /\ OneEach(queue')
         /\ \A r \in Queues : \A x :
              Has(r, x)' <=> \/ r = Exits /\ x = p
                             \/ r = Ready /\ (Has(Ready, x) \/ Has(Wait(p), x))
                             \/ r # Ready /\ r # Wait(p) /\ Has(r, x)
         /\ \A x \in Slots : status'[x] = IF x = p THEN "EXITED"
                                          ELSE IF Has(Wait(p), x) THEN "READY" ELSE status[x]
         /\ \A x \in Slots : Live(x)' <=> Live(x)
<1>. DEFINE U == unblock_list(queue, Wait(p))
<1>1. /\ queue' = list_add_tail(U, Exits, p)
      /\ status' = [made_ready(queue[Wait(p)]) EXCEPT ![p] = "EXITED"]
      /\ Exits \in Queues /\ Ready \in Queues /\ Wait(p) \in Queues
  BY QueueNames DEF park
<1>2. /\ U \in Lists /\ OneEach(U)
      /\ \A r \in Queues : \A x :
           Contains(U[r], x) <=> \/ r = Ready /\ (Has(Ready, x) \/ Has(Wait(p), x))
                                 \/ r # Ready /\ r # Wait(p) /\ Has(r, x)
      /\ \A x \in Slots : Has(Wait(p), x) => Live(x) /\ status[x] = "WAITING"
  BY WaitersReady
<1>. HIDE DEF U
<1>3. \A r \in Queues : ~Contains(U[r], p)
  BY <1>1, <1>2
<1>4. /\ OneEach(list_add_tail(U, Exits, p))
      /\ \A r \in Queues : \A x :
           Contains(list_add_tail(U, Exits, p)[r], x)
             <=> Contains(U[r], x) \/ (r = Exits /\ x = p)
  BY <1>1, <1>2, <1>3, ListAddTail
<1>5. \A r \in Queues : \A x : Has(r, x)' <=> Contains(U[r], x) \/ (r = Exits /\ x = p)
  BY <1>1, <1>4 DEF Has
<1>6. \A x \in Slots : status'[x] = IF x = p THEN "EXITED"
                                    ELSE IF Has(Wait(p), x) THEN "READY" ELSE status[x]
  BY <1>1 DEF made_ready, Has
<1>7. \A x \in Slots : Live(x)' <=> Live(x)
  BY <1>2, <1>6 DEF Live
<1>. QED
  BY <1>1, <1>2, <1>4, <1>5, <1>6, <1>7

LEMMA ReapLists ==
  ASSUME TypeOK, Placed, NEW c \in Cpus, NEW p \in Slots, reap(c, p)
  PROVE  /\ OneEach(queue')
         /\ \A r \in Queues : \A x :
              Has(r, x)' <=> /\ x # p
                             /\ \/ r = Ready /\ (Has(Ready, x) \/ Has(Wait(p), x))
                                \/ r # Ready /\ r # Wait(p) /\ Has(r, x)
         /\ \A x \in Slots : status'[x] = IF x = p THEN "ZOMBIE"
                                          ELSE IF Has(Wait(p), x) THEN "READY" ELSE status[x]
         /\ \A x \in Slots : Live(x)' <=> Live(x) /\ x # p
<1>. DEFINE U == unblock_list(queue, Wait(p))
<1>1. /\ queue' = list_del(U, p)
      /\ status' = [made_ready(queue[Wait(p)]) EXCEPT ![p] = "ZOMBIE"]
  BY DEF reap
<1>2. /\ U \in Lists /\ OneEach(U)
      /\ \A r \in Queues : \A x :
           Contains(U[r], x) <=> \/ r = Ready /\ (Has(Ready, x) \/ Has(Wait(p), x))
                                 \/ r # Ready /\ r # Wait(p) /\ Has(r, x)
      /\ \A x \in Slots : Has(Wait(p), x) => Live(x) /\ status[x] = "WAITING"
  BY WaitersReady
<1>. HIDE DEF U
<1>3. /\ OneEach(list_del(U, p))
      /\ \A r \in Queues : \A x : Contains(list_del(U, p)[r], x) <=> Contains(U[r], x) /\ x # p
  BY <1>2, ListDel
<1>4. \A r \in Queues : \A x : Has(r, x)' <=> Contains(U[r], x) /\ x # p
  BY <1>1, <1>3 DEF Has
<1>5. \A x \in Slots : status'[x] = IF x = p THEN "ZOMBIE"
                                    ELSE IF Has(Wait(p), x) THEN "READY" ELSE status[x]
  BY <1>1 DEF made_ready, Has
<1>6. \A x \in Slots : Live(x)' <=> Live(x) /\ x # p
  BY <1>2, <1>5 DEF Live
<1>. QED
  BY <1>1, <1>2, <1>3, <1>4, <1>5, <1>6

\* do_thread_exit: the caller leaves its CPU for the exit list.
LEMMA PlaceThreadExit ==
  ASSUME TypeOK, Placed, NEW c \in Cpus, do_thread_exit(c)
  PROVE  Placed'
<1>1. /\ kernel.op = "user" /\ ~Clearing /\ ~Exiting /\ Me(c) # Idle
      /\ UNCHANGED <<current_running, pid, owner>>
  BY DEF do_thread_exit, Syscall, Trap, Unchanged, identity, Clearing, Exiting, Me
<1>2. CASE kernel' = At("panic", c) /\ UNCHANGED <<status, queue>>
  BY <1>1, <1>2, Advance DEF Places, At
<1>3. CASE park(Me(c)) /\ kernel' = At("exec_next_task", c)
  <2>. DEFINE me == Me(c)
  <2>1. /\ me \in Slots /\ Live(me) /\ status[me] = "RUNNING"
        /\ \A r \in Queues : ~Has(r, me)
        /\ \A d \in Cpus : current_running[d] = me => d = c
    BY <1>1, CallerIsSlot, RunningHere DEF Me
  <2>2. /\ OneEach(queue')
        /\ \A r \in Queues : \A x :
             Has(r, x)' <=> \/ r = Exits /\ x = me
                            \/ r = Ready /\ (Has(Ready, x) \/ Has(Wait(me), x))
                            \/ r # Ready /\ r # Wait(me) /\ Has(r, x)
        /\ \A x \in Slots : status'[x] = IF x = me THEN "EXITED"
                                         ELSE IF Has(Wait(me), x) THEN "READY" ELSE status[x]
        /\ \A x \in Slots : Live(x)' <=> Live(x)
    BY <1>3, <2>1, ParkLists
  <2>3. /\ Ready \in Queues /\ Exits \in Queues /\ Wait(me) \in Queues
        /\ Wait(me) # Ready /\ Wait(me) # Exits /\ Ready # Exits
    BY <2>1, QueueNames
  <2>4. /\ \A d \in Cpus, x \in Slots : Runs(d, x)' <=> Runs(d, x) /\ d # c
        /\ Runs(c, me) /\ \A x \in Slots : Runs(c, x) => x = me
        /\ ~Clearing' /\ ~Exiting'
    BY <1>1, <1>3, <2>1 DEF Runs, In, At, Me, Clearing, Exiting
  <2>. HIDE DEF me
  <2>5. LinkedOnce'
    BY <2>2 DEF OneEach, LinkedOnce, Has
  <2>6. LinkedByStatus'
    <3>1. \A r \in Queues, x \in Slots : r # Wait(me) /\ Has(r, x) => ~Has(Wait(me), x)
      BY <2>3 DEF Placed, LinkedOnce
    <3>. QED
      BY <2>1, <2>2, <2>3, <3>1, StatusLists DEF Placed, LinkedByStatus
  <2>7. Somewhere'
    <3>. SUFFICES ASSUME NEW x \in Slots, Live(x)
                  PROVE  \/ \E r \in Queues : Has(r, x)'
                         \/ \E d \in Cpus : Runs(d, x)'
      BY <2>2 DEF Somewhere
    <3>. QED
      BY <2>2, <2>3, <2>4 DEF Placed, Somewhere
  <2>8. RunsAlone' /\ RunsNoList' /\ RunsLive'
    <3>1. \A d \in Cpus, x \in Slots : Runs(d, x)' => x # me /\ status[x] = "RUNNING"
      BY <1>1, <2>1, <2>4 DEF Placed, RunsLive, Runs
    <3>2. \A x \in Slots : status[x] = "RUNNING" => \A r \in Queues : ~Has(r, x)
      BY LinkedIsIdle DEF Placed
    <3>. QED
      BY <2>2, <2>3, <2>4, <3>1, <3>2 DEF Placed, RunsAlone, RunsNoList, RunsLive
  <2>9. NoWaiters' /\ NoBlockers'
    BY <1>1, <2>2, QueueNames DEF Placed, NoWaiters, NoBlockers
  <2>10. ClearsCaller' /\ ClearsOther'
    BY <2>4 DEF ClearsCaller, ClearsOther
  <2>. QED
    BY <2>5, <2>6, <2>7, <2>8, <2>9, <2>10 DEF Placed
<1>. QED
  BY <1>2, <1>3 DEF do_thread_exit

\* The end of do_thread_join: a thread that could be unlinked is gone.
LEMMA PlaceReap ==
  ASSUME TypeOK, Placed, NEW c \in Cpus, NEW p \in Slots, reap(c, p),
         kernel.op \in {"user", "resume"}, kernel'.op # "fault",
         UNCHANGED <<current_running, pid, owner>>
  PROVE  Placed'
<1>1. /\ Linked(p) /\ kernel' = InUser
      /\ ~Clearing /\ ~Exiting /\ ~Clearing' /\ ~Exiting'
  BY DEF reap, At, InUser, Clearing, Exiting
<1>2. /\ OneEach(queue')
      /\ \A r \in Queues : \A x :
           Has(r, x)' <=> /\ x # p
                          /\ \/ r = Ready /\ (Has(Ready, x) \/ Has(Wait(p), x))
                             \/ r # Ready /\ r # Wait(p) /\ Has(r, x)
      /\ \A x \in Slots : status'[x] = IF x = p THEN "ZOMBIE"
                                       ELSE IF Has(Wait(p), x) THEN "READY" ELSE status[x]
      /\ \A x \in Slots : Live(x)' <=> Live(x) /\ x # p
  BY ReapLists
<1>3. Ready \in Queues /\ Wait(p) \in Queues /\ Wait(p) # Ready
  BY QueueNames
<1>4. /\ \A d \in Cpus, x \in Slots : Runs(d, x)' <=> Runs(d, x)
      /\ \A d \in Cpus : ~Runs(d, p)
  BY <1>1 DEF Runs, In, InUser, At, Placed, RunsNoList, Linked, Has
<1>5. LinkedOnce'
  BY <1>2 DEF OneEach, LinkedOnce, Has
<1>6. LinkedByStatus'
  <2>1. \A r \in Queues, x \in Slots : r # Wait(p) /\ Has(r, x) => ~Has(Wait(p), x)
    BY <1>3 DEF Placed, LinkedOnce
  <2>. QED
    BY <1>2, <1>3, <2>1, StatusLists DEF Placed, LinkedByStatus
<1>7. Somewhere'
  <2>. SUFFICES ASSUME NEW x \in Slots, Live(x), x # p
                PROVE  \/ \E r \in Queues : Has(r, x)'
                       \/ \E d \in Cpus : Runs(d, x)'
    BY <1>2 DEF Somewhere
  <2>. QED
    BY <1>2, <1>3, <1>4 DEF Placed, Somewhere
<1>8. RunsAlone' /\ RunsNoList' /\ RunsLive'
  <2>1. \A d \in Cpus, x \in Slots : Runs(d, x) => x # p /\ status[x] = "RUNNING"
    BY <1>1, <1>4 DEF Placed, RunsLive
  <2>2. \A x \in Slots : status[x] = "RUNNING" => \A r \in Queues : ~Has(r, x)
    BY LinkedIsIdle DEF Placed
  <2>. QED
    BY <1>2, <1>3, <1>4, <2>1, <2>2 DEF Placed, RunsAlone, RunsNoList, RunsLive
<1>9. NoWaiters' /\ NoBlockers'
  BY <1>2, QueueNames DEF Placed, NoWaiters, NoBlockers
<1>10. ClearsCaller' /\ ClearsOther'
  BY <1>1 DEF ClearsCaller, ClearsOther
<1>. QED
  BY <1>5, <1>6, <1>7, <1>8, <1>9, <1>10 DEF Placed

LEMMA PlaceJoin ==
  ASSUME TypeOK, Placed, NEW c \in Cpus, NEW t, join(c, t),
         kernel.op \in {"user", "resume"}, kernel'.op # "fault",
         UNCHANGED <<current_running, pid, owner>>
  PROVE  Placed'
<1>1. ~Clearing /\ kernel.op # "exec_next_task"
  BY DEF Clearing
<1>2. CASE proc_schedule(c, Ready, "READY")
  <2>1. /\ Ready \in Queues /\ "READY" \in Statuses /\ Ready \in ListsOf("READY")
        /\ \A p \in Slots : Ready # Wait(p)
        /\ \A b \in BlockQueues : Ready # Block(b)
    BY QueueNames, StatusLists DEF Statuses
  <2>. QED
    BY <1>1, <1>2, <2>1, GiveUp
<1>3. ASSUME NEW p \in Slots, Live(p), proc_schedule(c, Wait(p), "WAITING")
      PROVE  Placed'
  <2>1. /\ Wait(p) \in Queues /\ "WAITING" \in Statuses /\ Wait(p) \in ListsOf("WAITING")
        /\ \A x \in Slots : Wait(p) = Wait(x) => Live(x)
        /\ \A b \in BlockQueues : Wait(p) # Block(b)
    BY <1>3, QueueNames, StatusLists DEF Statuses
  <2>. QED
    BY <1>1, <1>3, <2>1, GiveUp
<1>. QED
  BY <1>2, <1>3, PlaceReap DEF join, IsFirst

LEMMA PlaceCreate ==
  ASSUME TypeOK, Placed, NEW c \in Cpus, do_thread_create(c)
  PROVE  Placed'
<1>1. /\ kernel.op = "user" /\ ~Clearing
      /\ UNCHANGED <<current_running, owner>>
  BY DEF do_thread_create, Syscall, Trap, Unchanged, Clearing
<1>2. CASE kernel' = At("panic", c) /\ UNCHANGED <<status, identity, queue>>
  BY <1>1, <1>2, Advance DEF Places, identity, At
<1>3. ASSUME NEW p \in Slots, IsFirst(p, Zombies),
             status' = [status EXCEPT ![p] = "READY"],
             pid' = [pid EXCEPT ![p] = pid[Me(c)]],
             queue' = [list_add_tail(queue, Ready, p) EXCEPT ![Wait(p)] = <<>>],
             UNCHANGED kernel
      PROVE  Placed'
  <2>1. ~Live(p)
    BY <1>3 DEF IsFirst, Zombies
  <2>. QED
    BY <1>1, <1>3, <2>1, NewTask
<1>. QED
  BY <1>2, <1>3 DEF do_thread_create

\* A lost kernel stays as it is; only the clock goes on.
LEMMA LostForEver ==
  ASSUME Lost, [ThreadNext]_vars
  PROVE  UNCHANGED kernel
<1>1. \A c \in Cpus : ~Trap(c) /\ ~KernelStep(c) /\ ~resume(c)
  BY DEF Lost, Trap, KernelStep, resume, exec_next_task, check_sleeping, pcb_clear,
         destroy_ipc, leave_task, In
<1>2. \A c \in Cpus : ~do_scheduler(c) /\ ~SystemCall(c)
  BY <1>1 DEF do_scheduler, SystemCall, do_sleep, do_exec, do_fork, do_exit, do_kill,
              do_waitpid, do_taskset_exec, do_taskset, ipc_init, ipc_destroy, do_block,
              do_unblock, Syscall
<1>3. \A c \in Cpus :
        /\ ~do_thread_create(c) /\ ~do_thread_exit(c) /\ ~do_thread_yield(c)
        /\ \A t \in 1 .. MAX_THREAD_NUM : ~do_thread_join(c, t)
  BY <1>1 DEF do_thread_create, do_thread_exit, do_thread_yield, do_thread_join, Syscall
<1>4. ASSUME NEW p \in Slots, Expire(p) PROVE UNCHANGED kernel
  BY <1>4 DEF Expire
<1>5. Next => UNCHANGED kernel
  BY <1>1, <1>2, <1>4 DEF Next, Hang, vars
<1>6. ThreadNext => UNCHANGED kernel
  BY <1>1, <1>3, <1>5 DEF ThreadNext
<1>. QED
  BY <1>6 DEF vars

-----------------------------------------------------------------------------
(* The places of the PCBs.                                                  *)

LEMMA PlaceThreadNext == TypeOK /\ StaysPlaced /\ [ThreadNext]_vars => StaysPlaced'
<1>. SUFFICES ASSUME TypeOK, StaysPlaced, [ThreadNext]_vars, ~Lost' PROVE Placed'
  BY DEF StaysPlaced
<1>1. ~Lost /\ Placed /\ kernel'.op # "fault" /\ kernel'.op # "corrupt"
  BY LostForEver DEF Lost, StaysPlaced
<1>2. CASE [Next]_vars
  BY <1>1, <1>2, PlacedNext
<1>3. ASSUME NEW c \in Cpus, do_thread_create(c) PROVE Placed'
  BY <1>1, <1>3, PlaceCreate
<1>4. ASSUME NEW c \in Cpus, do_thread_exit(c) PROVE Placed'
  BY <1>1, <1>4, PlaceThreadExit
<1>5. ASSUME NEW c \in Cpus, do_thread_yield(c) PROVE Placed'
  <2>1. kernel.op = "user" /\ ~Clearing /\ UNCHANGED <<pid, owner>>
    BY <1>5 DEF do_thread_yield, Syscall, Trap, Clearing, identity
  <2>2. kernel' = At("spin", c) /\ UNCHANGED <<current_running, status, queue>>
    BY <1>1, <1>5 DEF do_thread_yield, At
  <2>. QED
    BY <1>1, <2>1, <2>2, Advance DEF Places, At
<1>6. ASSUME NEW c \in Cpus, NEW t \in 1 .. NUM_MAX_TASK, do_thread_join(c, t)
      PROVE  Placed'
  <2>1. /\ kernel.op = "user" /\ join(c, t)
        /\ UNCHANGED <<current_running, pid, owner>>
    BY <1>6 DEF do_thread_join, Syscall, Trap, identity, Unchanged
  <2>. QED
    BY <1>1, <2>1, PlaceJoin
<1>7. ASSUME NEW c \in Cpus, resume(c) PROVE Placed'
  <2>1. kernel.op = "resume" /\ UNCHANGED <<current_running, pid, owner>>
    BY <1>7 DEF resume, In, identity, Unchanged
  <2>. QED
    BY <1>1, <1>7, <2>1, PlaceJoin, PlaceReap DEF resume
<1>. QED
  BY <1>2, <1>3, <1>4, <1>5, <1>6, <1>7, ThreadSteps

\* Every PCB is in its place until the kernel is lost.
THEOREM ThreadPlacement == ThreadSpec => []StaysPlaced
<1>1. Init => StaysPlaced
  BY PlacedInit DEF StaysPlaced
<1>. QED
  BY <1>1, ThreadTypes, PlaceThreadNext, PTL DEF ThreadSpec

\* Lists, CPUs and waiters hold with threads what they hold without: linked at most
\* once, by status; live and so linked or running; nobody waits for the dead.
THEOREM ThreadsStayPlaced == ThreadSpec => []ThreadsPlaced
<1>1. TypeOK /\ StaysPlaced => ThreadsPlaced
  BY PlacedMeans DEF StaysPlaced, ThreadsPlaced, Lost
<1>. QED
  BY <1>1, ThreadTypes, ThreadPlacement, PTL

-----------------------------------------------------------------------------
(* A process and its threads.                                               *)

LEMMA ContextNames ==
  /\ \A t, p : Find(t) # Reap(p)
  /\ \A t : Find(t) # ToUser
  /\ \A p : Reap(p) # ToUser
  /\ \A t, u : Find(t) = Find(u) => t = u
  /\ \A p, q : Reap(p) = Reap(q) => p = q
BY DEF Find, Reap, ToUser

\* What w was switched out for is in order.
Sound(w) ==
  /\ \A t \in 0 .. NUM_MAX_TASK : context[w] = Find(t) => tid[w] = 0 /\ t # 0
  /\ \A p \in Slots : context[w] = Reap(p) => Owed(w, p)

\* Steps that start no task: nobody is taken from a process but who dies with it or
\* is a child, and joiners keep what they wait for.
LEMMA FamilyKept ==
  ASSUME TypeOK, Family, UNCHANGED <<pid, tid, process_id>>,
         \A x \in Slots : Live(x)' => Live(x),
         \A x \in Slots : Live(x)' /\ ~Dying(x)' => ~Dying(x),
         \A x \in Slots : Live(x) /\ tid[x] = 0 /\ ~Dying(x)' => Live(x)',
         \A w \in Slots : Live(w)' => context'[w] = context[w] \/ Sound(w)',
         \A w, p \in Slots :
           Live(w)' /\ ~Dying(w)' /\ context'[w] = context[w] /\ context[w] = Reap(p) /\ Owed(w, p)
             => Owed(w, p)'
  PROVE  Family'
<1>1. Mains' \subseteq Mains
  BY DEF Mains
<1>2. MainPids' /\ OldPids'
  BY <1>1 DEF Family, MainPids, OldPids, Mains
<1>3. HaveMains'
  <2>. SUFFICES ASSUME NEW p \in Slots, Live(p)', ~Dying(p)'
                PROVE  \E m \in Mains' : pid'[m] = pid'[p]
    BY DEF HaveMains
  <2>1. PICK m \in Mains : pid[m] = pid[p]
    BY DEF Family, HaveMains
  <2>2. ~Dying(m)' /\ m \in Slots /\ Live(m) /\ tid[m] = 0
    BY <2>1 DEF Dying, Clearing, Mains
  <2>. QED
    BY <2>1, <2>2 DEF Mains
<1>4. Finders'
  BY DEF Family, Finders, Sound
<1>5. Joiners'
  <2>. SUFFICES ASSUME NEW w \in Slots, NEW p \in Slots, Live(w)', ~Dying(w)',
                       context'[w] = Reap(p)
                PROVE  Owed(w, p)'
    BY DEF Joiners
  <2>1. CASE context'[w] = context[w]
    BY <2>1 DEF Family, Joiners
  <2>2. CASE Sound(w)'
    BY <2>2 DEF Sound
  <2>. QED
    BY <2>1, <2>2
<1>. QED
  BY <1>2, <1>3, <1>4, <1>5 DEF Family

\* A task starts: the main one of a new process, or a child of one that lives.
LEMMA FamilyGrows ==
  ASSUME TypeOK, Family, ~Clearing, UNCHANGED kernel, NEW p \in Slots, ~Live(p),
         NEW k, NEW n, k < process_id',
         process_id \in Nat, process_id' \in Nat, process_id <= process_id',
         pid' = [pid EXCEPT ![p] = k], tid' = [tid EXCEPT ![p] = n],
         \/ n = 0 /\ k = process_id
         \/ n # 0 /\ \E m \in Mains : pid[m] = k,
         context' = [context EXCEPT ![p] = ToUser],
         status' = [status EXCEPT ![p] = "READY"],
         \A r \in Queues, x \in Slots : Has(r, x) => Has(r, x)'
  PROVE  Family'
<1>0. /\ \A x \in Slots : Live(x)' <=> Live(x) \/ x = p
      /\ ~Clearing' /\ \A x : ~Dying(x) /\ ~Dying(x)'
      /\ \A x \in Slots : x # p => pid'[x] = pid[x] /\ tid'[x] = tid[x]
                                   /\ context'[x] = context[x] /\ status'[x] = status[x]
      /\ pid'[p] = k /\ tid'[p] = n /\ context'[p] = ToUser
      /\ \A x \in Slots : pid[x] \in Nat
  BY DEF Live, Dying, Clearing, TypeOK
<1>1. \A x \in Slots : x \in Mains' <=> x \in Mains \/ (x = p /\ n = 0)
  BY <1>0 DEF Mains
<1>2. OldPids'
  BY <1>0 DEF Family, OldPids
<1>3. MainPids'
  <2>1. \A x \in Mains : x \in Slots /\ x # p /\ pid[x] < process_id
    BY DEF Mains, Family, OldPids
  <2>2. n = 0 => \A x \in Mains : pid[x] # k
    BY <1>0, <2>1
  <2>. QED
    BY <1>0, <1>1, <2>1, <2>2 DEF Family, MainPids, Mains
<1>4. HaveMains'
  <2>. SUFFICES ASSUME NEW x \in Slots, Live(x)'
                PROVE  \E m \in Mains' : pid'[m] = pid'[x]
    BY DEF HaveMains
  <2>1. \A m \in Mains : m \in Slots /\ m \in Mains' /\ pid'[m] = pid[m]
    BY <1>0, <1>1 DEF Mains
  <2>2. CASE x # p
    BY <1>0, <2>1, <2>2 DEF Family, HaveMains
  <2>3. CASE x = p
    BY <1>0, <1>1, <2>1, <2>3
  <2>. QED
    BY <2>2, <2>3
<1>5. Finders'
  BY <1>0, ContextNames DEF Family, Finders
<1>6. Joiners'
  <2>. SUFFICES ASSUME NEW w \in Slots, NEW q \in Slots, Live(w)', context'[w] = Reap(q)
                PROVE  Owed(w, q)'
    BY DEF Joiners
  <2>1. w # p /\ Live(w) /\ context[w] = Reap(q)
    BY <1>0, ContextNames
  <2>2. Owed(w, q) /\ q # p /\ Live(q)'
    BY <1>0, <2>1 DEF Family, Joiners, Owed
  <2>3. Has(Wait(q), w) => Has(Wait(q), w)'
    BY QueueNames
  <2>. QED
    BY <1>0, <2>1, <2>2, <2>3 DEF Owed
<1>. QED
  BY <1>2, <1>3, <1>4, <1>5, <1>6 DEF Family

LEMMA FamilyStill ==
  ASSUME TypeOK, Family, ~Clearing, ~Clearing',
         UNCHANGED <<pid, tid, process_id, context, status, queue>>
  PROVE  Family'
<1>1. \A x \in Slots : /\ Live(x)' <=> Live(x)
                       /\ ~Dying(x) /\ ~Dying(x)'
                       /\ \A p \in Slots : Owed(x, p)' <=> Owed(x, p)
  BY DEF Live, Dying, Owed, Has
<1>. QED
  BY <1>1, FamilyKept

\* Moves leave joiners in their wait list and exited threads on the exit list.
LEMMA MovesKeepJoiners ==
  ASSUME TypeOK, Placed, Moves
  PROVE  /\ \A p, w \in Slots : Has(Wait(p), w) => Has(Wait(p), w)'
         /\ \A p \in Slots : status[p] = "EXITED" => status'[p] = "EXITED"
<1>1. \A p, w \in Slots : Has(Wait(p), w) => Has(Wait(p), w)'
  <2>1. ASSUME NEW c \in Cpus, NEW st \in Statuses, NEW p \in Slots, Joins(c, Wait(p), st)
        PROVE  \A r \in Queues, w \in Slots : Has(r, w) => Has(r, w)'
    <3>1. Wait(p) \in Queues
      BY QueueNames
    <3>. QED
      BY <2>1, <3>1, JoinsLists
  <2>2. ASSUME NEW c \in Cpus, NEW st, NEW p \in Slots, Joins(c, Wait(p), st)
        PROVE  st \in Statuses
    BY <2>2, StatusLists DEF Joins, ListsOf, Statuses
  <2>. QED
    BY <2>1, <2>2, QueueNames, MovesKeepWaits
<1>2. \A q \in Queues, p \in Slots : Has(q, p) /\ status[p] = "EXITED" => q = Exits
  BY StatusLists DEF Placed, LinkedByStatus
<1>3. ASSUME NEW p \in Slots, status[p] = "EXITED" PROVE status'[p] = "EXITED"
  <2>1. CASE Still
    BY <1>3, <2>1 DEF Still
  <2>2. ASSUME NEW c \in Cpus, NEW q \in Queues, NEW st \in Statuses, Joins(c, q, st)
        PROVE  status'[p] = "EXITED"
    <3>1. current_running[c] \in Slots /\ status[current_running[c]] = "RUNNING"
      BY <2>2, RunningHere DEF Joins, Clearing
    <3>. QED
      BY <1>3, <2>2, <3>1 DEF Joins
  <2>3. ASSUME NEW q \in Queues, NEW x \in Slots, Wakes(q, x) PROVE status'[p] = "EXITED"
    <3>1. Has(q, x) /\ q # Exits
      BY <2>3, QueueNames DEF Wakes, Has
    <3>. QED
      BY <1>2, <1>3, <2>3, <3>1 DEF Wakes
  <2>4. ASSUME NEW b \in BlockQueues, Frees(b) PROVE status'[p] = "EXITED"
    <3>1. ~Has(Block(b), p)
      BY <1>2, <1>3, QueueNames
    <3>. QED
      BY <1>3, <2>4, <3>1 DEF Frees, made_ready, Has
  <2>5. ASSUME NEW c \in Cpus, NEW i \in DOMAIN queue[Ready], Picks(c, i)
        PROVE  status'[p] = "EXITED"
    <3>1. Has(Ready, queue[Ready][i]) /\ queue[Ready][i] \in Slots
      BY QueueNames, QueuedSlots DEF Has, Contains
    <3>. QED
      BY <1>2, <1>3, <2>5, <3>1, QueueNames DEF Picks
  <2>. QED
    BY <2>1, <2>2, <2>3, <2>4, <2>5 DEF Moves
<1>. QED
  BY <1>1, <1>3

LEMMA FamilyPlain ==
  ASSUME TypeOK, Placed, Family, Plain
  PROVE  Family'
<1>1. Moves /\ UNCHANGED <<pid, tid, context, process_id>>
  BY DEF Plain
<1>2. \A x \in Slots : Live(x)' <=> Live(x)
  BY <1>1, MovesKeepLives
<1>3. \A x \in Slots : Live(x) /\ ~Dying(x)' => ~Dying(x)
  <2>1. CASE EntersClear
    BY <2>1 DEF EntersClear, Dying
  <2>2. CASE LeavesClear
    BY <2>2 DEF LeavesClear, Dying, ToClear
  <2>3. CASE SameClear
    BY <1>1, <2>3 DEF SameClear, Dying
  <2>. QED
    BY <2>1, <2>2, <2>3 DEF Plain
<1>4. \A w, p \in Slots : Owed(w, p) => Owed(w, p)'
  BY <1>1, <1>2, MovesKeepJoiners DEF Owed
<1>. QED
  BY <1>1, <1>2, <1>3, <1>4, FamilyKept

LEMMA FamilyClears ==
  ASSUME TypeOK, Placed, Family, NEW c \in Cpus, NEW p \in Slots, Clears(c, p)
  PROVE  Family'
<1>1. /\ \A x \in Slots : Live(x)' <=> Live(x) /\ x # p
      /\ \A r \in Queues : \A x :
           Has(r, x)' <=> /\ x # p
                          /\ \/ r = Ready /\ (Has(Ready, x) \/ Has(Wait(p), x))
                             \/ r # Ready /\ r # Wait(p) /\ Has(r, x)
      /\ \A x \in Slots : status'[x] = IF x = p THEN "ZOMBIE"
                                       ELSE IF Has(Wait(p), x) THEN "READY" ELSE status[x]
  BY ClearsLists
<1>2. /\ UNCHANGED <<pid, tid, context, process_id>>
      /\ kernel' = [kernel EXCEPT !.op = "destroy_ipc"]
      /\ kernel.op = "pcb_clear" /\ pid[p] = kernel.pid
  BY DEF Clears, In, ToClear
<1>3. /\ \A x \in Slots : Dying(x)' <=> Dying(x)
      /\ Dying(p)
  BY <1>2 DEF Dying, Clearing, TypeOK
<1>4. ASSUME NEW w \in Slots, NEW q \in Slots, Live(w)', ~Dying(w)', Owed(w, q)
      PROVE  Owed(w, q)'
  <2>1. w # p /\ q # p
    BY <1>1, <1>2, <1>3, <1>4 DEF Owed, Dying
  <2>2. Has(Wait(q), w) => Has(Wait(q), w)'
    BY <1>1, <2>1, QueueNames
  <2>3. status[q] = "EXITED" => status'[q] = "EXITED"
    <3>1. Has(Wait(p), q) => status[q] = "WAITING"
      BY WaitersReady
    <3>. QED
      BY <1>1, <2>1, <3>1
  <2>. QED
    BY <1>1, <1>2, <1>4, <2>1, <2>2, <2>3 DEF Owed
<1>. QED
  BY <1>1, <1>2, <1>3, <1>4, FamilyKept

LEMMA FamilyStarts ==
  ASSUME TypeOK, Placed, Family, NEW p \in Slots, Starts(p)
  PROVE  Family'
<1>1. \A r \in Queues, x \in Slots : Has(r, x) => Has(r, x)'
  BY StartsLists
<1>2. process_id \in Nat /\ process_id' = process_id + 1 /\ ~Clearing
  BY DEF Starts, TypeOK, Clearing
<1>3. process_id' \in Nat /\ process_id < process_id' /\ process_id <= process_id'
  BY <1>2
<1>. QED
  BY <1>1, <1>2, <1>3, FamilyGrows DEF Starts

-----------------------------------------------------------------------------

\* Outside the kernel, and where a system call goes on, the caller is a live task
\* whose process is not being cleared.
LEMMA CallerIs ==
  ASSUME TypeOK, Placed, NEW c \in Cpus, Me(c) # Idle, kernel.op \in {"user", "resume"}
  PROVE  /\ Me(c) \in Slots /\ Live(Me(c)) /\ status[Me(c)] = "RUNNING"
         /\ \A r \in Queues : ~Has(r, Me(c))
         /\ ~Clearing /\ \A x : ~Dying(x)
<1>1. Me(c) \in Slots /\ ~Clearing
  BY CallerIsSlot DEF Clearing
<1>. QED
  BY <1>1, RunningHere DEF Me, Dying

LEMMA FamilyCreate ==
  ASSUME TypeOK, Placed, Family, NEW c \in Cpus, do_thread_create(c)
  PROVE  Family'
<1>1. kernel.op = "user" /\ Me(c) # Idle /\ UNCHANGED process_id
  BY DEF do_thread_create, Syscall, Trap, Me, Unchanged
<1>2. /\ Me(c) \in Slots /\ Live(Me(c)) /\ ~Clearing
      /\ \A x : ~Dying(x)
  BY <1>1, CallerIs
<1>3. CASE /\ kernel' = At("panic", c)
           /\ UNCHANGED <<status, identity, context, queue>>
  <2>1. ~Clearing' /\ UNCHANGED <<pid, tid>>
    BY <1>3 DEF Clearing, At, identity
  <2>. QED
    BY <1>1, <1>2, <1>3, <2>1, FamilyStill
<1>4. ASSUME NEW p \in Slots, ~Live(p),
             status' = [status EXCEPT ![p] = "READY"],
             pid' = [pid EXCEPT ![p] = pid[Me(c)]],
             tid' = [tid EXCEPT ![p] = child_t_num[Me(c)] + 1],
             context' = [context EXCEPT ![p] = ToUser],
             queue' = [list_add_tail(queue, Ready, p) EXCEPT ![Wait(p)] = <<>>],
             UNCHANGED kernel
      PROVE  Family'
  <2>1. \A r \in Queues, x \in Slots : Has(r, x) => Has(r, x)'
    <3>1. Ready \in Queues /\ queue \in Lists /\ \A x \in Slots : ~Has(Wait(p), x)
      BY <1>4, QueueNames, ListsAre DEF Placed, NoWaiters
    <3>. DEFINE A == list_add_tail(queue, Ready, p)
    <3>2. /\ A \in Lists
          /\ \A r \in Queues : \A x :
               Contains(A[r], x) <=> Contains(queue[r], x) \/ (r = Ready /\ x = p)
      BY <3>1, ListAddTail
    <3>3. \A r \in Queues : r # Wait(p) => queue'[r] = A[r]
      BY <1>4, <3>2 DEF Lists
    <3>. HIDE DEF A
    <3>. QED
      BY <3>1, <3>2, <3>3 DEF Has
  <2>2. \E m \in Mains : pid[m] = pid[Me(c)]
    BY <1>2 DEF Family, HaveMains
  <2>3. child_t_num[Me(c)] + 1 # 0 /\ process_id \in Nat /\ process_id <= process_id
    BY <1>2 DEF TypeOK
  <2>4. pid[Me(c)] < process_id'
    BY <1>1, <1>2 DEF Family, OldPids
  <2>. QED
    BY <1>1, <1>2, <1>4, <2>1, <2>2, <2>3, <2>4, FamilyGrows
<1>. QED
  BY <1>3, <1>4 DEF do_thread_create, IsFirst, Zombies

LEMMA FamilyExit ==
  ASSUME TypeOK, Placed, Family, NEW c \in Cpus, do_thread_exit(c)
  PROVE  Family'
<1>1. /\ kernel.op = "user" /\ Me(c) # Idle
      /\ UNCHANGED <<process_id, pid, tid, context>>
  BY DEF do_thread_exit, Syscall, Trap, Me, Unchanged, identity
<1>2. /\ Me(c) \in Slots /\ Live(Me(c)) /\ ~Clearing /\ status[Me(c)] = "RUNNING"
      /\ \A r \in Queues : ~Has(r, Me(c))
  BY <1>1, CallerIs
<1>3. ~Clearing' /\ \A x : ~Dying(x) /\ ~Dying(x)'
  BY <1>2 DEF do_thread_exit, Clearing, At, Dying
<1>4. CASE UNCHANGED <<status, queue>>
  BY <1>1, <1>2, <1>3, <1>4, FamilyStill
<1>5. CASE park(Me(c))
  <2>. DEFINE me == Me(c)
  <2>1. /\ \A r \in Queues : \A x :
             Has(r, x)' <=> \/ r = Exits /\ x = me
                            \/ r = Ready /\ (Has(Ready, x) \/ Has(Wait(me), x))
                            \/ r # Ready /\ r # Wait(me) /\ Has(r, x)
        /\ \A x \in Slots : status'[x] = IF x = me THEN "EXITED"
                                         ELSE IF Has(Wait(me), x) THEN "READY" ELSE status[x]
        /\ \A x \in Slots : Live(x)' <=> Live(x)
    BY <1>2, <1>5, ParkLists
  <2>2. ASSUME NEW w \in Slots, NEW q \in Slots, Owed(w, q)
        PROVE  Owed(w, q)'
    <3>1. q # me /\ Has(Wait(q), w) => Has(Wait(q), w)'
      BY <2>1, QueueNames
    <3>2. status[q] = "EXITED" => status'[q] = "EXITED"
      <4>1. Has(Wait(me), q) => status[q] = "WAITING"
        BY <1>2, WaitersReady
      <4>. QED
        BY <2>1, <4>1
    <3>. QED
      BY <1>1, <2>1, <2>2, <3>1, <3>2 DEF Owed
  <2>. HIDE DEF me
  <2>. QED
    BY <1>1, <1>3, <2>1, <2>2, FamilyKept
<1>. QED
  BY <1>4, <1>5 DEF do_thread_exit

\* The reaped thread is a child, and its one joiner is the caller.
LEMMA FamilyReap ==
  ASSUME TypeOK, Placed, Family, NEW c \in Cpus, NEW p \in Slots, reap(c, p),
         Me(c) # Idle, kernel.op \in {"user", "resume"}, kernel'.op # "fault",
         tid[Me(c)] = 0, tid[p] # 0, pid[p] = pid[Me(c)],
         UNCHANGED <<pid, tid, process_id>>
  PROVE  Family'
<1>0. PICK me \in Slots : me = Me(c)
  BY CallerIs
<1>1. /\ Live(me) /\ ~Clearing /\ \A x : ~Dying(x)
  BY <1>0, CallerIs
<1>2. /\ kernel' = InUser /\ context' = [context EXCEPT ![me] = ToUser]
  BY <1>0 DEF reap, At
<1>3. \A x : ~Dying(x)'
  BY <1>2 DEF Dying, Clearing, InUser, At
<1>4. /\ \A r \in Queues : \A x :
           Has(r, x)' <=> /\ x # p
                          /\ \/ r = Ready /\ (Has(Ready, x) \/ Has(Wait(p), x))
                             \/ r # Ready /\ r # Wait(p) /\ Has(r, x)
      /\ \A x \in Slots : status'[x] = IF x = p THEN "ZOMBIE"
                                       ELSE IF Has(Wait(p), x) THEN "READY" ELSE status[x]
      /\ \A x \in Slots : Live(x)' <=> Live(x) /\ x # p
  BY ReapLists
<1>5. \A w \in Slots : context'[w] = context[w] \/ Sound(w)'
  <2>1. Sound(me)'
    BY <1>1, <1>2, ContextNames DEF TypeOK, Sound
  <2>2. \A w \in Slots : w # me => context'[w] = context[w]
    BY <1>2 DEF TypeOK
  <2>. QED
    BY <2>1, <2>2
<1>6. ASSUME NEW w \in Slots, NEW q \in Slots, Live(w)', context'[w] = context[w],
             context[w] = Reap(q), Owed(w, q)
      PROVE  Owed(w, q)'
  <2>1. w # me /\ w # p /\ Live(w)
    BY <1>1, <1>2, <1>4, <1>6, ContextNames DEF TypeOK
  <2>2. q # p
    BY <1>0, <1>1, <1>6, <2>1 DEF Owed, Family, MainPids, Mains
  <2>3. Has(Wait(q), w) => Has(Wait(q), w)'
    BY <1>4, <2>1, <2>2, QueueNames
  <2>4. status[q] = "EXITED" => status'[q] = "EXITED"
    <3>1. Has(Wait(p), q) => status[q] = "WAITING"
      BY WaitersReady
    <3>. QED
      BY <1>4, <2>2, <3>1
  <2>. QED
    BY <1>4, <1>6, <2>2, <2>3, <2>4 DEF Owed
<1>. QED
  BY <1>1, <1>3, <1>4, <1>5, <1>6, FamilyKept

\* The caller goes to list q, and x says what it will do when it runs again.
LEMMA FamilyWaits ==
  ASSUME TypeOK, Placed, Family, NEW c \in Cpus, NEW q \in Queues, NEW st, NEW x \in Contexts,
         proc_schedule(c, q, st), st # "ZOMBIE",
         Me(c) # Idle, kernel.op \in {"user", "resume"}, tid[Me(c)] = 0,
         context' = [context EXCEPT ![Me(c)] = x],
         \/ \E t \in 1 .. NUM_MAX_TASK : x = Find(t)
         \/ \E p \in Slots : /\ x = Reap(p) /\ q = Wait(p)
                             /\ Live(p) /\ pid[p] = pid[Me(c)] /\ tid[p] # 0,
         UNCHANGED <<pid, tid, process_id>>
  PROVE  Family'
<1>0. PICK me \in Slots : me = Me(c)
  BY CallerIs
<1>1. /\ Live(me) /\ ~Clearing /\ (\A y : ~Dying(y))
      /\ status[me] = "RUNNING"
  BY <1>0, CallerIs
<1>2. /\ status' = [status EXCEPT ![me] = st]
      /\ queue' = list_add_tail(queue, q, me)
      /\ kernel' = At("exec_next_task", c)
  BY <1>0 DEF proc_schedule, Me
<1>3. \A y : ~Dying(y)'
  BY <1>2 DEF Dying, Clearing, At
<1>4. \A y \in Slots : Live(y)' <=> Live(y)
  BY <1>1, <1>2 DEF Live, TypeOK
<1>5. \A r \in Queues : \A y : Has(r, y)' <=> Has(r, y) \/ (r = q /\ y = me)
  <2>1. \A r \in Queues : \A y :
          Contains(list_add_tail(queue, q, me)[r], y)
            <=> Contains(queue[r], y) \/ (r = q /\ y = me)
    BY <1>1, ListsAre, ListAddTail
  <2>. QED
    BY <1>2, <2>1 DEF Has
<1>6. \A w, p \in Slots : Owed(w, p) => Owed(w, p)'
  <2>1. \A p \in Slots : status[p] = "EXITED" => status'[p] = "EXITED"
    BY <1>1, <1>2
  <2>. QED
    BY <1>4, <1>5, <2>1, QueueNames DEF Owed
<1>7. Sound(me)'
  <2>1. context'[me] = x /\ tid'[me] = 0
    BY <1>0, <1>1 DEF TypeOK
  <2>2. ASSUME NEW t \in 1 .. NUM_MAX_TASK, x = Find(t) PROVE Sound(me)'
    BY <2>1, <2>2, ContextNames DEF Sound
  <2>3. ASSUME NEW p \in Slots, x = Reap(p), q = Wait(p),
               Live(p), pid[p] = pid[me], tid[p] # 0
        PROVE  Sound(me)'
    <3>1. Owed(me, p)'
      BY <1>4, <1>5, <2>1, <2>3 DEF Owed
    <3>. QED
      BY <2>1, <2>3, <3>1, ContextNames DEF Sound
  <2>. QED
    BY <1>0, <2>2, <2>3
<1>8. \A w \in Slots : w # me => context'[w] = context[w]
  BY <1>0 DEF TypeOK
<1>. QED
  BY <1>1, <1>3, <1>4, <1>6, <1>7, <1>8, FamilyKept

LEMMA FamilyJoin ==
  ASSUME TypeOK, Placed, Family, NEW c \in Cpus, NEW t \in 1 .. NUM_MAX_TASK, join(c, t),
         Me(c) # Idle, kernel.op \in {"user", "resume"}, kernel'.op # "fault",
         tid[Me(c)] = 0, UNCHANGED <<pid, tid, process_id>>
  PROVE  Family'
<1>1. t \in 0 .. NUM_MAX_TASK /\ t # 0
  OBVIOUS
<1>2. CASE proc_schedule(c, Ready, "READY") /\ context' = [context EXCEPT ![Me(c)] = Find(t)]
  <2>1. Ready \in Queues /\ Find(t) \in Contexts
    BY <1>1, QueueNames DEF Contexts
  <2>. QED
    BY <1>2, <2>1, FamilyWaits
<1>3. ASSUME NEW p \in Slots, Live(p), pid[p] = pid[Me(c)], tid[p] = t,
             proc_schedule(c, Wait(p), "WAITING"),
             context' = [context EXCEPT ![Me(c)] = Reap(p)]
      PROVE  Family'
  <2>1. Wait(p) \in Queues /\ Reap(p) \in Contexts /\ tid[p] # 0
    BY <1>1, <1>3, QueueNames DEF Contexts
  <2>. QED
    BY <1>3, <2>1, FamilyWaits
<1>4. ASSUME NEW p \in Slots, pid[p] = pid[Me(c)], tid[p] = t, reap(c, p)
      PROVE  Family'
  BY <1>1, <1>4, FamilyReap
<1>. QED
  BY <1>2, <1>3, <1>4 DEF join, IsFirst

-----------------------------------------------------------------------------

LEMMA FamilyInit == Init => FamilyInv
<1>. SUFFICES ASSUME Init PROVE Family /\ Resumes
  BY DEF FamilyInv
<1>1. /\ \A p \in Slots : Live(p) <=> p = 0
      /\ \A p \in Slots : tid[p] = 0 /\ context[p] = ToUser /\ pid[p] < process_id
      /\ 0 \in Slots
  BY NumTaskAssumption DEF Init, Live, Slots
<1>2. MainPids /\ HaveMains
  BY <1>1 DEF MainPids, HaveMains, Mains
<1>3. OldPids
  BY <1>1 DEF OldPids
<1>4. Finders /\ Joiners
  BY <1>1, ContextNames DEF Finders, Joiners
<1>5. Resumes
  BY DEF Init, InUser, At, Resumes
<1>. QED
  BY <1>2, <1>3, <1>4, <1>5 DEF Family

LEMMA FamilyNext ==
  ASSUME "join_any" \notin Calls, TypeOK, StaysPlaced, FamilyInv, [ThreadNext]_vars
  PROVE  FamilyInv'
<1>. SUFFICES ASSUME ~Lost' PROVE Family' /\ Resumes'
  BY DEF FamilyInv
<1>1. /\ Placed /\ Family /\ Resumes
      /\ kernel'.op # "fault" /\ kernel'.op # "corrupt"
  BY LostForEver DEF Lost, StaysPlaced, FamilyInv
<1>2. CASE [Next]_vars
  <2>1. CASE Plain
    <3>1. Resumes'
      <4>1. CASE EntersClear \/ LeavesClear
        BY <4>1 DEF EntersClear, LeavesClear, Resumes
      <4>2. CASE SameClear
        BY <1>1, <4>2 DEF SameClear, Resumes, Me
      <4>. QED
        BY <2>1, <4>1, <4>2 DEF Plain
    <3>. QED
      BY <1>1, <2>1, <3>1, FamilyPlain
  <2>2. ASSUME NEW p \in Slots, Starts(p) PROVE Family' /\ Resumes'
    <3>1. Resumes'
      BY <1>1, <2>2 DEF Starts, Resumes, Me
    <3>. QED
      BY <1>1, <2>2, <3>1, FamilyStarts
  <2>3. ASSUME NEW c \in Cpus, NEW p \in Slots, Clears(c, p) PROVE Family' /\ Resumes'
    <3>1. Resumes'
      BY <2>3 DEF Clears, Resumes, TypeOK
    <3>. QED
      BY <1>1, <2>3, <3>1, FamilyClears
  <2>. QED
    BY <1>1, <1>2, <2>1, <2>2, <2>3, StepKinds DEF Faults
<1>3. ASSUME NEW c \in Cpus, do_thread_create(c) PROVE Family' /\ Resumes'
  <2>1. Resumes'
    BY <1>3 DEF do_thread_create, Syscall, Trap, At, Resumes
  <2>. QED
    BY <1>1, <1>3, <2>1, FamilyCreate
<1>4. ASSUME NEW c \in Cpus, do_thread_exit(c) PROVE Family' /\ Resumes'
  <2>1. Resumes'
    BY <1>4 DEF do_thread_exit, At, Resumes
  <2>. QED
    BY <1>1, <1>4, <2>1, FamilyExit
<1>5. ASSUME NEW c \in Cpus, do_thread_yield(c) PROVE Family' /\ Resumes'
  <2>1. /\ kernel.op = "user"
        /\ UNCHANGED <<pid, tid, process_id, context>>
    BY <1>5 DEF do_thread_yield, Syscall, Trap, identity
  <2>2. kernel' = At("spin", c) /\ UNCHANGED <<status, queue>>
    BY <1>1, <1>5 DEF do_thread_yield, At
  <2>3. Resumes' /\ ~Clearing /\ ~Clearing'
    BY <2>1, <2>2 DEF At, Resumes, Clearing
  <2>. QED
    BY <1>1, <2>1, <2>2, <2>3, FamilyStill
\* What do_thread_join does, and its rest when the caller runs on.
<1>6. ASSUME NEW c \in Cpus, NEW t, join(c, t) PROVE Resumes'
  <2>1. ASSUME NEW p \in Slots, reap(c, p) PROVE Resumes'
    BY <2>1 DEF reap, InUser, At, Resumes
  <2>2. ASSUME NEW q, NEW st, proc_schedule(c, q, st) PROVE Resumes'
    BY <2>2 DEF proc_schedule, At, Resumes
  <2>. QED
    BY <1>6, <2>1, <2>2 DEF join
<1>7. ASSUME NEW c \in Cpus, NEW t \in 1 .. NUM_MAX_TASK, do_thread_join(c, t)
      PROVE  Family' /\ Resumes'
  <2>1. /\ kernel.op = "user" /\ Me(c) # Idle /\ join(c, t) /\ tid[Me(c)] = 0
        /\ UNCHANGED <<pid, tid, process_id>>
    BY <1>7 DEF do_thread_join, Syscall, Trap, identity, Unchanged, Me
  <2>. QED
    BY <1>1, <1>6, <2>1, FamilyJoin
<1>8. ASSUME NEW c \in Cpus, resume(c) PROVE Family' /\ Resumes'
  <2>1. /\ kernel.op = "resume" /\ Me(c) # Idle
        /\ UNCHANGED <<pid, tid, process_id>>
    BY <1>1, <1>8 DEF resume, In, identity, Unchanged, Resumes
  <2>2. Me(c) \in Slots /\ Live(Me(c)) /\ ~Dying(Me(c))
    BY <1>1, <2>1, CallerIs
  <2>3. ASSUME NEW t \in 0 .. NUM_MAX_TASK, context[Me(c)] = Find(t), join(c, t)
        PROVE  Family' /\ Resumes'
    <3>1. tid[Me(c)] = 0 /\ t \in 1 .. NUM_MAX_TASK
      BY <1>1, <2>2, <2>3 DEF Family, Finders
    <3>. QED
      BY <1>1, <1>6, <2>1, <2>3, <3>1, FamilyJoin
  <2>4. ASSUME NEW p \in Slots, context[Me(c)] = Reap(p), reap(c, p)
        PROVE  Family' /\ Resumes'
    <3>1. Owed(Me(c), p)
      BY <1>1, <2>2, <2>4 DEF Family, Joiners
    <3>2. Resumes'
      BY <2>4 DEF reap, InUser, At, Resumes
    <3>. QED
      BY <1>1, <2>1, <2>4, <3>1, <3>2, FamilyReap DEF Owed
  <2>. QED
    BY <1>8, <2>3, <2>4 DEF resume
<1>. QED
  BY <1>2, <1>3, <1>4, <1>5, <1>7, <1>8, ThreadSteps

\* Pids, main threads and joiners are in order until the kernel is lost, if only main
\* threads join.
THEOREM FamilyHolds ==
  ASSUME "join_any" \notin Calls
  PROVE  ThreadSpec => []FamilyInv
BY FamilyInit, FamilyNext, ThreadTypes, ThreadPlacement, PTL DEF ThreadSpec

\* A child thread does not outlive its main thread: what the assertion in
\* clear_pcb_thread (kernel/thread/thread.c) relies on.
THEOREM NoOrphanThread ==
  ASSUME "join_any" \notin Calls
  PROVE  ThreadSpec => []ThreadHasMain
<1>1. FamilyInv => ThreadHasMain
  BY DEF FamilyInv, Family, Lost, HaveMains, ThreadHasMain, Dying, Clearing
<1>. QED
  BY <1>1, FamilyHolds, PTL

\* The wait of a joiner ends only when the thread it joined, of its own process, has
\* exited: do_thread_join reaps what it waited for.
THEOREM JoinerReapsExited ==
  ASSUME "join_any" \notin Calls
  PROVE  ThreadSpec => []JoinReapsExited
<1>1. TypeOK /\ StaysPlaced /\ FamilyInv => JoinReapsExited
  <2>. SUFFICES ASSUME TypeOK, StaysPlaced, FamilyInv,
                       NEW c \in Cpus, NEW p \in Slots,
                       In("resume", c), context[Me(c)] = Reap(p)
                PROVE  status[p] = "EXITED" /\ pid[p] = pid[Me(c)] /\ tid[p] # 0
    BY DEF JoinReapsExited
  <2>1. Placed /\ Family /\ Me(c) # Idle /\ kernel.op = "resume"
    BY DEF In, Lost, StaysPlaced, FamilyInv, Resumes
  <2>2. /\ Me(c) \in Slots /\ Live(Me(c)) /\ ~Dying(Me(c))
        /\ \A r \in Queues : ~Has(r, Me(c))
    BY <2>1, CallerIs
  <2>3. Owed(Me(c), p)
    BY <2>1, <2>2 DEF Family, Joiners
  <2>. QED
    BY <2>2, <2>3, QueueNames DEF Owed
<1>. QED
  BY <1>1, FamilyHolds, ThreadTypes, ThreadPlacement, PTL

-----------------------------------------------------------------------------
(* The list of processes, with threads.                                     *)

\* run_tasks is left alone, and so are the main threads.
LEMMA ListedStill ==
  ASSUME MainsListed, ~Lost, ~Clearing, ~Clearing', UNCHANGED run_tasks,
         \A x \in Slots : x \in Mains' <=> x \in Mains
  PROVE  MainsListed'
BY DEF MainsListed

LEMMA ListedPlain ==
  ASSUME TypeOK, Placed, Family, MainsListed, ~Lost, Plain
  PROVE  MainsListed'
<1>0. run_tasks \in Seq(Slots) /\ IsInjective(run_tasks)
  BY DEF TypeOK, MainsListed
<1>1. UNCHANGED pid /\ Mains' = Mains
  BY MovesKeepLives DEF Plain, Mains
<1>2. CASE SameClear
  <2>1. UNCHANGED run_tasks /\ (Clearing' <=> Clearing)
    BY <1>2 DEF SameClear
  <2>2. ASSUME Clearing, NEW v \in Slots, MainVictim(v) PROVE MainVictim(v)'
    <3>1. kernel'.pid = kernel.pid
      BY <1>2, <2>2 DEF SameClear
    <3>. QED
      BY <1>1, <2>1, <2>2, <3>1 DEF MainVictim
  <2>. QED
    BY <1>1, <2>1, <2>2 DEF MainsListed
<1>3. CASE EntersClear
  <2>1. PICK x \in Slots : Live(x) /\ pid[x] = kernel'.pid
    BY <1>3 DEF EntersClear
  <2>2. ~Clearing /\ Clearing' /\ UNCHANGED run_tasks
    BY <1>3 DEF EntersClear, Clearing
  <2>3. PICK v \in Mains : pid[v] = kernel'.pid
    BY <2>1, <2>2 DEF Family, HaveMains, Dying
  <2>4. v \in Slots /\ MainVictim(v)'
    BY <1>1, <2>2, <2>3 DEF MainVictim, MainsListed, Family, MainPids, Mains
  <2>. QED
    BY <1>0, <2>2, <2>4 DEF MainsListed
<1>4. CASE LeavesClear
  <2>1. PICK i \in DOMAIN run_tasks :
          pid[run_tasks[i]] = kernel.pid /\ run_tasks' = RemoveAt(run_tasks, i)
    BY <1>4 DEF LeavesClear
  <2>2. Clearing /\ ToClear = {} /\ ~Clearing'
    BY <1>4 DEF LeavesClear, Clearing
  <2>3. PICK v \in Slots : MainVictim(v)
    BY <2>2 DEF MainsListed
  <2>4. DOMAIN run_tasks = 1 .. Len(run_tasks) /\ run_tasks[i] \in Slots
    BY <1>0, <2>1, LenProperties, ElementOfSeq
  <2>5. v \notin Mains
    BY <2>2, <2>3 DEF ToClear, MainVictim, Mains
  <2>6. run_tasks[i] = v
    BY <2>1, <2>3, <2>4 DEF MainVictim, Contains
  <2>7. run_tasks' = unlink(run_tasks, v)
    <3>1. Contains(run_tasks, v)
      BY <2>6 DEF Contains
    <3>2. PICK k \in 1 .. Len(run_tasks) :
            run_tasks[k] = v /\ unlink(run_tasks, v) = RemoveAt(run_tasks, k)
      BY <1>0, <3>1, UnlinkIsRemoveAt
    <3>3. k = i
      BY <1>0, <2>4, <2>6, <3>2 DEF IsInjective
    <3>. QED
      BY <2>1, <3>2, <3>3
  <2>8. /\ IsInjective(run_tasks')
        /\ \A x \in Slots : Contains(run_tasks', x) <=> Contains(run_tasks, x) /\ x # v
    BY <1>0, <2>7, UnlinkElements, UnlinkInjective
  <2>9. \A x \in Slots : Contains(run_tasks', x) <=> x \in Mains'
    BY <1>1, <2>3, <2>5, <2>8 DEF MainVictim
  <2>. QED
    BY <2>2, <2>8, <2>9 DEF MainsListed
<1>. QED
  BY <1>2, <1>3, <1>4 DEF Plain

LEMMA ListedStarts ==
  ASSUME TypeOK, Placed, MainsListed, ~Lost, NEW p \in Slots, Starts(p)
  PROVE  MainsListed'
<1>1. /\ ~Clearing /\ ~Clearing' /\ ~Live(p)
      /\ run_tasks' = Append(run_tasks, p) /\ tid' = [tid EXCEPT ![p] = 0]
      /\ run_tasks \in Seq(Slots)
  BY DEF Starts, Clearing, TypeOK
<1>2. ~Contains(run_tasks, p) /\ IsInjective(run_tasks)
  BY <1>1 DEF MainsListed, Mains
<1>3. /\ IsInjective(run_tasks')
      /\ \A x \in Slots : Contains(run_tasks', x) <=> Contains(run_tasks, x) \/ x = p
  BY <1>1, <1>2, AppendElements
<1>4. \A x \in Slots : Live(x)' <=> Live(x) \/ x = p
  BY StartsLists
<1>5. \A x \in Slots : x \in Mains' <=> x \in Mains \/ x = p
  BY <1>1, <1>4 DEF TypeOK, Mains
<1>. QED
  BY <1>1, <1>3, <1>5 DEF MainsListed

LEMMA ListedClears ==
  ASSUME TypeOK, Placed, MainsListed, ~Lost, NEW c \in Cpus, NEW p \in Slots, Clears(c, p)
  PROVE  MainsListed'
<1>1. /\ Clearing /\ Clearing' /\ kernel'.pid = kernel.pid
      /\ Live(p) /\ pid[p] = kernel.pid
      /\ UNCHANGED <<pid, tid, run_tasks>>
  BY DEF Clears, In, Clearing, TypeOK, ToClear
<1>2. PICK v \in Slots : MainVictim(v)
  BY <1>1 DEF MainsListed
<1>3. \A x \in Slots : x \in Mains' <=> x \in Mains /\ x # p
  BY <1>1, ClearsLists DEF Mains
<1>4. p \in Mains => p = v
  BY <1>1, <1>2 DEF MainVictim
<1>5. MainVictim(v)'
  BY <1>1, <1>2, <1>3, <1>4 DEF MainVictim, Mains
<1>. QED
  BY <1>1, <1>5 DEF MainsListed

\* The calls of threads make and reap children only.
LEMMA ThreadCallsKeepMains ==
  ASSUME "join_any" \notin Calls, TypeOK, Placed, Family, Resumes, NEW c \in Cpus,
         \/ do_thread_create(c) \/ do_thread_exit(c) \/ do_thread_yield(c)
         \/ \E t \in 1 .. NUM_MAX_TASK : do_thread_join(c, t)
         \/ resume(c),
         kernel'.op \notin {"fault", "corrupt"}
  PROVE  /\ ~Clearing /\ ~Clearing' /\ UNCHANGED run_tasks
         /\ \A x \in Slots : x \in Mains' <=> x \in Mains
<1>. DEFINE Kept == /\ ~Clearing' /\ UNCHANGED run_tasks
                    /\ \A x \in Slots : x \in Mains' <=> x \in Mains
<1>. HIDE DEF Kept
<1>1. kernel.op \in {"user", "resume"} /\ Me(c) # Idle /\ UNCHANGED run_tasks
  BY DEF do_thread_create, do_thread_exit, do_thread_yield, do_thread_join, resume, In,
         Syscall, Trap, Me, Resumes, Unchanged
<1>2. /\ Me(c) \in Slots /\ Live(Me(c)) /\ status[Me(c)] = "RUNNING"
      /\ \A r \in Queues : ~Has(r, Me(c))
      /\ ~Clearing /\ \A x : ~Dying(x)
  BY <1>1, CallerIs
<1>. SUFFICES Kept
  BY <1>1, <1>2 DEF Kept
<1>3. ASSUME UNCHANGED <<status, tid>>, ~Clearing' PROVE Kept
  BY <1>1, <1>3 DEF Mains, Live, Kept
<1>4. CASE do_thread_create(c)
  <2>1. CASE kernel' = At("panic", c) /\ UNCHANGED <<status, identity>>
    <3>1. ~Clearing' /\ UNCHANGED <<status, tid>>
      BY <2>1 DEF At, Clearing, identity
    <3>. QED
      BY <1>3, <3>1
  <2>2. ASSUME NEW p \in Slots, p \in Zombies, UNCHANGED kernel,
               status' = [status EXCEPT ![p] = "READY"],
               tid' = [tid EXCEPT ![p] = child_t_num[Me(c)] + 1]
        PROVE  Kept
    <3>1. ~Live(p) /\ child_t_num[Me(c)] + 1 # 0
      BY <1>2, <2>2 DEF Zombies, TypeOK
    <3>. QED
      BY <1>1, <1>2, <2>2, <3>1 DEF Mains, Live, TypeOK, Clearing, Kept
  <2>. QED
    BY <1>4, <2>1, <2>2 DEF do_thread_create, IsFirst
<1>5. CASE do_thread_exit(c)
  <2>1. ~Clearing' /\ UNCHANGED tid
    BY <1>5 DEF do_thread_exit, Clearing, At, identity
  <2>2. CASE park(Me(c))
    BY <1>1, <1>2, <2>1, <2>2, ParkLists DEF Mains, Kept
  <2>. QED
    BY <1>3, <1>5, <2>1, <2>2 DEF do_thread_exit
<1>6. CASE do_thread_yield(c)
  <2>1. kernel' = At("spin", c) /\ UNCHANGED <<status, tid>>
    BY <1>6 DEF do_thread_yield, At, identity
  <2>. QED
    <3>1. ~Clearing'
      BY <2>1 DEF At, Clearing
    <3>. QED
      BY <1>3, <2>1, <3>1
<1>7. ASSUME NEW p \in Slots, reap(c, p), tid[p] # 0, UNCHANGED tid
      PROVE  Kept
  <2>1. ~Clearing'
    BY <1>7 DEF reap, InUser, At, Clearing
  <2>. QED
    BY <1>1, <1>7, <2>1, ReapLists DEF Mains, Kept
<1>8. ASSUME NEW t, join(c, t), t # 0, UNCHANGED tid
      PROVE  Kept
  <2>1. ASSUME NEW q, NEW st, st # "ZOMBIE", proc_schedule(c, q, st) PROVE Kept
    <3>1. status' = [status EXCEPT ![Me(c)] = st] /\ ~Clearing'
      BY <1>1, <2>1 DEF proc_schedule, Me, Clearing, At
    <3>. QED
      BY <1>1, <1>2, <1>8, <2>1, <3>1 DEF Mains, Live, TypeOK, Kept
  <2>. QED
    BY <1>7, <1>8, <2>1 DEF join, IsFirst
<1>9. ASSUME NEW t \in 1 .. NUM_MAX_TASK, do_thread_join(c, t) PROVE Kept
  BY <1>8, <1>9 DEF do_thread_join, identity
<1>10. CASE resume(c)
  <2>1. UNCHANGED tid
    BY <1>10 DEF resume, identity
  <2>2. ASSUME NEW t \in 0 .. NUM_MAX_TASK, context[Me(c)] = Find(t), join(c, t) PROVE Kept
    <3>1. t # 0
      BY <1>2, <2>2 DEF Family, Finders
    <3>. QED
      BY <1>8, <2>1, <2>2, <3>1
  <2>3. ASSUME NEW p \in Slots, context[Me(c)] = Reap(p), reap(c, p) PROVE Kept
    <3>1. tid[p] # 0
      BY <1>2, <2>3 DEF Family, Joiners, Owed
    <3>. QED
      BY <1>7, <2>1, <2>3, <3>1
  <2>. QED
    BY <1>10, <2>2, <2>3 DEF resume
<1>. QED
  BY <1>4, <1>5, <1>6, <1>9, <1>10

LEMMA ListedNext ==
  ASSUME "join_any" \notin Calls, TypeOK, StaysPlaced, FamilyInv, MainsListed,
         [ThreadNext]_vars
  PROVE  MainsListed'
<1>. SUFFICES ASSUME ~Lost' PROVE MainsListed'
  BY DEF MainsListed
<1>1. /\ ~Lost /\ Placed /\ Family /\ Resumes
      /\ kernel'.op # "fault" /\ kernel'.op # "corrupt"
  BY LostForEver DEF Lost, StaysPlaced, FamilyInv
<1>2. CASE [Next]_vars
  BY <1>1, <1>2, StepKinds, ListedPlain, ListedStarts, ListedClears DEF Faults
<1>3. ASSUME NEW c \in Cpus,
             \/ do_thread_create(c) \/ do_thread_exit(c) \/ do_thread_yield(c)
             \/ \E t \in 1 .. NUM_MAX_TASK : do_thread_join(c, t)
             \/ resume(c)
      PROVE  MainsListed'
  BY <1>1, <1>3, ThreadCallsKeepMains, ListedStill
<1>. QED
  BY <1>2, <1>3, ThreadSteps

\* run_tasks is exact with threads too: between system calls it has the main thread of
\* every process once and nothing else, whatever thread exits, is killed or reaped
\* (do_process_show prints it).
THEOREM RunListHasMains ==
  ASSUME "join_any" \notin Calls
  PROVE  ThreadSpec => []RunTasksExact
<1>1. Init => MainsListed
  <2>. SUFFICES ASSUME Init PROVE MainsListed
    OBVIOUS
  <2>1. RunListInv /\ ~Clearing /\ \A p \in Slots : p \in Mains <=> Live(p)
    BY RunListInit DEF Init, Clearing, InUser, At, Mains
  <2>. QED
    BY <2>1 DEF MainsListed, RunListInv
<1>2. TypeOK /\ FamilyInv /\ MainsListed => RunTasksExact
  <2>. SUFFICES ASSUME TypeOK, FamilyInv, MainsListed, kernel.op = "user"
                PROVE  /\ IsInjective(run_tasks)
                       /\ ToSet(run_tasks) = Mains
                       /\ MainPids
    BY DEF RunTasksExact, MainPids
  <2>1. ~Lost /\ ~Clearing
    BY DEF Lost, Clearing
  <2>2. /\ IsInjective(run_tasks)
        /\ \A p \in Slots : Contains(run_tasks, p) <=> p \in Mains
    BY <2>1 DEF MainsListed
  <2>3. /\ ToSet(run_tasks) \subseteq Slots
        /\ \A x : x \in ToSet(run_tasks) <=> Contains(run_tasks, x)
    BY SetOfElements DEF TypeOK
  <2>4. ToSet(run_tasks) = Mains
    BY <2>2, <2>3 DEF Mains
  <2>. QED
    BY <2>1, <2>2, <2>4 DEF FamilyInv, Family
<1>. QED
  BY <1>1, <1>2, ListedNext, FamilyHolds, ThreadTypes, ThreadPlacement, PTL DEF ThreadSpec
=============================================================================
