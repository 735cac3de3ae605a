--------------------------------- MODULE Sync ---------------------------------
(***************************************************************************)
(* Mutex locks, semaphores and barriers together: the calls of the threads *)
(* of several processes on them, and the death of a process, in which      *)
(* pcb_clear gives back its locks and destroys the barriers and semaphores *)
(* it initialised.                                                         *)
(***************************************************************************)
EXTENDS Mutex, Semaphore, Barrier

syncVars == <<where, call, main, mutexVars, semaVars, barrierVars>>

SyncInit ==
  /\ where = [t \in Tasks |-> "user"]
  /\ call = [t \in Tasks |-> None]
  /\ ThreadGroupInit
  /\ MutexInit /\ SemaphoreInit /\ BarrierInit

\* pcb_clear of the tasks of a process that exits or is killed, wherever they are, in
\* the order of their PCBs.  Those they kept waiting are made ready.
leave_task(t) ==
  /\ Alive(t) /\ ~IsThread(t)
  /\ \E order \in SetToSeqs(Process(t)) :
       LET P == Process(t)
           semas == {s \in Semaphores : s_pid[s] = t}
           barrs == {b \in Barriers : b_pid[b] = t}
           woken == MutexWoken(order) \cup SemaWoken(semas) \cup BarrierWoken(barrs)
       IN /\ where' = [u \in Tasks |-> IF u \in P THEN "dead" ELSE Unblock(woken)[u]]
          /\ call' = [u \in Tasks |-> IF u \in P THEN None ELSE call[u]]
          /\ do_mutex_lock_free(order)
          /\ SemaDestroyed(semas, P)
          /\ BarrierDestroyed(barrs, P)

\* A thread leaves its locks, and nothing else; its PCB waits for the joiner.
do_thread_exit(t) ==
  /\ IsThread(t) /\ InUser(t)
  /\ where' = [where EXCEPT ![t] = "dead"]
  /\ clear_pcb_thread(t)
  /\ SemaDestroyed({}, {t})
  /\ UNCHANGED <<call, barrierVars>>

MutexCalls(t) ==
  /\ \/ \E k \in MutexKeys : do_mutex_lock_init(t, k)
     \/ \E m \in Mutexes : do_mutex_lock_acquire(t, m) \/ do_mutex_lock_release(t, m)
  /\ UNCHANGED <<semaVars, barrierVars>>

SemaphoreCalls(t) ==
  /\ \/ \E v \in InitValues : do_semaphore_init(t, v)
     \/ \E s \in Semaphores :
          \/ do_semaphore_down(t, s) \/ finish_down(t, s)
          \/ do_semaphore_up(t, s) \/ do_semaphore_destroy(t, s)
  /\ UNCHANGED <<mutexVars, barrierVars>>

BarrierCalls(t) ==
  /\ \/ do_barrier_init(t)
     \/ \E b \in Barriers :
          do_barrier_wait(t, b) \/ finish_wait(t, b) \/ do_barrier_destroy(t, b)
  /\ UNCHANGED <<mutexVars, semaVars>>

\* Every process has died or waits for one that never comes.
Stuck == (\A t \in Tasks : where[t] \in {"blocked", "dead"}) /\ UNCHANGED syncVars

SyncNext ==
  \/ /\ \E t \in Tasks : \/ MutexCalls(t) \/ SemaphoreCalls(t) \/ BarrierCalls(t)
                          \/ leave_task(t) \/ do_thread_exit(t)
     /\ UNCHANGED main
  \/ Stuck

SyncSpec == SyncInit /\ [][SyncNext]_syncVars

-----------------------------------------------------------------------------

\* Every task that waits is in the queue of the object its call names, once, and
\* in no other; and nobody else is in a queue.  A wake-up always finds a task
\* that waits, whoever was killed, and no waiting task is out of reach of one.
AcquireCalls == {<<"acquire", m>> : m \in Mutexes}
DownCalls    == {<<"down", s>> : s \in Semaphores}
WaitCalls    == {<<"wait", b>> : b \in Barriers}
Waits        == AcquireCalls \cup DownCalls \cup WaitCalls
QueueOf(f) ==
  CASE f[1] = "acquire" -> m_queue[f[2]]
    [] f[1] = "down"    -> s_queue[f[2]]
    [] f[1] = "wait"    -> b_queue[f[2]]
WaitersLinked ==
  /\ \A t \in Tasks : where[t] = "blocked" => call[t] \in Waits
  /\ \A f \in Waits :
       /\ IsInjective(QueueOf(f))
       /\ ToSet(QueueOf(f)) = {t \in Tasks : where[t] = "blocked" /\ call[t] = f}
=============================================================================
