-------------------------------- MODULE Mutex --------------------------------
(***************************************************************************)
(* Mutex locks (kernel/syscall/mutex_lk.c).  A slot of mlocks is shared by *)
(* the tasks that apply for its key; apply_times counts them.              *)
(***************************************************************************)
EXTENDS ThreadGroup

CONSTANTS LOCK_NUM, MutexKeys

Mutexes == 1 .. LOCK_NUM

VARIABLES
  m_apply, m_key, m_pid, m_locked, m_queue,     \* the fields of mlocks
  mlock_ocp,                                    \* pcb.mlock_ocp, as a set
  m_holds,      \* history: the locks that the program of a task has acquired
  m_forgotten,  \* history: unlocked locks whose woken task was killed before it ran
  m_kept        \* history: locks that a thread has exited with

mutexVars == <<m_apply, m_key, m_pid, m_locked, m_queue, mlock_ocp, m_holds,
               m_forgotten, m_kept>>

MutexInit ==
  /\ m_apply = [m \in Mutexes |-> 0]
  /\ m_key = [m \in Mutexes |-> 0]
  /\ m_pid = [m \in Mutexes |-> None]
  /\ m_locked = [m \in Mutexes |-> FALSE]
  /\ m_queue = [m \in Mutexes |-> <<>>]
  /\ mlock_ocp = [t \in Tasks |-> {}]
  /\ m_holds = [t \in Tasks |-> {}]
  /\ m_forgotten = {} /\ m_kept = {}

\* The slot that do_mutex_lock_init finds for a key.
IsSlot(m, k) ==
  LET same == {x \in Mutexes : m_apply[x] # 0 /\ m_key[x] = k}
      free == {x \in Mutexes : m_apply[x] = 0}
      in   == IF same # {} THEN same ELSE free
  IN m \in in /\ \A x \in in : m <= x

\* A program applies once for each lock it uses.  The status is not reset.
do_mutex_lock_init(t, k) ==
  /\ InUser(t)
  /\ \E m \in Mutexes :
       /\ IsSlot(m, k) /\ m \notin mlock_ocp[t]
       /\ m_apply' = [m_apply EXCEPT ![m] = @ + 1]
       /\ m_key' = [m_key EXCEPT ![m] = k]
       /\ mlock_ocp' = [mlock_ocp EXCEPT ![t] = @ \cup {m}]
  /\ UNCHANGED <<where, call, m_pid, m_locked, m_queue, m_holds, m_forgotten, m_kept>>

\* Defect: a woken task takes the lock without looking at it again.
attempt_once(t, m) ==
  \/ /\ m_locked[m] /\ InUser(t)
     /\ Block(t, <<"acquire", m>>)
     /\ m_queue' = [m_queue EXCEPT ![m] = Append(@, t)]
     /\ UNCHANGED <<m_locked, m_pid, m_holds, m_forgotten>>
  \/ /\ ~m_locked[m] \/ ~InUser(t)
     /\ m_locked' = [m_locked EXCEPT ![m] = TRUE]
     /\ m_pid' = [m_pid EXCEPT ![m] = main[t]]
     /\ m_forgotten' = m_forgotten \ {m}
     /\ m_holds' = [m_holds EXCEPT ![t] = @ \cup {m}]
     /\ Return(t)
     /\ UNCHANGED m_queue

\* The loop of do_mutex_lock_acquire: block while the lock is taken, then take it.
attempt(t, m) ==
  \/ /\ m_locked[m]
     /\ Block(t, <<"acquire", m>>)
     /\ m_queue' = [m_queue EXCEPT ![m] = Append(@, t)]
     /\ UNCHANGED <<m_locked, m_pid, m_holds, m_forgotten>>
  \/ /\ ~m_locked[m]
     /\ m_locked' = [m_locked EXCEPT ![m] = TRUE]
     /\ m_pid' = [m_pid EXCEPT ![m] = main[t]]
     /\ m_forgotten' = m_forgotten \ {m}
     /\ m_holds' = [m_holds EXCEPT ![t] = @ \cup {m}]
     /\ Return(t)
     /\ UNCHANGED m_queue

do_mutex_lock_acquire(t, m) ==
  /\ \/ InUser(t) /\ m \in mlock_ocp[t] \ m_holds[t]
     \/ Resumes(t, <<"acquire", m>>)
  /\ attempt(t, m)
  /\ UNCHANGED <<m_apply, m_key, mlock_ocp, m_kept>>

\* Defect: nobody is woken.
do_mutex_lock_release_silent(t, m) ==
  /\ InUser(t) /\ m \in m_holds[t]
  /\ m_locked' = [m_locked EXCEPT ![m] = FALSE]
  /\ m_holds' = [m_holds EXCEPT ![t] = @ \ {m}]
  /\ UNCHANGED <<where, call, m_queue, m_apply, m_key, m_pid, mlock_ocp, m_forgotten, m_kept>>

\* A program releases what it holds; the owner is not checked, nor cleared.
do_mutex_lock_release(t, m) ==
  /\ InUser(t) /\ m \in m_holds[t]
  /\ m_locked' = [m_locked EXCEPT ![m] = FALSE]
  /\ m_queue' = [m_queue EXCEPT ![m] = Rest(@)]
  /\ where' = Unblock(First(m_queue[m]))
  /\ m_holds' = [m_holds EXCEPT ![t] = @ \ {m}]
  /\ UNCHANGED <<call, m_apply, m_key, m_pid, mlock_ocp, m_forgotten, m_kept>>

\* Defect: a lock that nobody waits for stays locked.
Frees_waited(P) ==
  {m \in Mutexes : m_locked[m] /\ m_queue[m] # <<>>
                   /\ \E t \in P : m \in mlock_ocp[t] /\ m_pid[m] = main[t]}

\* The locks that do_mutex_lock_free unlocks when the process of the tasks P dies:
\* tid is 0 then, and those of the process are unlocked.
Frees(P) ==
  {m \in Mutexes : m_locked[m]
                   /\ \E t \in P : m \in mlock_ocp[t] /\ m_pid[m] = main[t]}

\* A lock is unlocked at the first task cleared that has applied for it, and wakes
\* who is first in the queue then: it may be a task that is cleared next.
NextOwner(m, order) ==
  LET freeing == order[SelectInSeq(order, LAMBDA t : m \in mlock_ocp[t])]
  IN First(unlink(m_queue[m], freeing))

\* The tasks that this wakes, and that live on.
MutexWoken(order) ==
  (UNION {NextOwner(m, order) : m \in Frees(ToSet(order))}) \ ToSet(order)

\* The tasks P give up the locks that they have applied for.  All of a slot but its
\* status is reset when nobody else has applied for it.
LeaveSlots(P, queue) ==
  LET applied(m) == {t \in P : m \in mlock_ocp[t]}
      last(m) == applied(m) # {} /\ m_apply[m] = Cardinality(applied(m))
  IN /\ m_queue' = [m \in Mutexes |-> IF last(m) THEN <<>> ELSE queue[m]]
     /\ m_apply' = [m \in Mutexes |-> m_apply[m] - Cardinality(applied(m))]
     /\ m_key' = [m \in Mutexes |-> IF last(m) THEN 0 ELSE m_key[m]]
     /\ m_pid' = [m \in Mutexes |-> IF last(m) THEN None ELSE m_pid[m]]
     /\ mlock_ocp' = [t \in Tasks |-> IF t \in P THEN {} ELSE mlock_ocp[t]]
     /\ m_holds' = [t \in Tasks |-> IF t \in P THEN {} ELSE m_holds[t]]

\* do_mutex_lock_free for every lock of the tasks of a process that dies, which are
\* cleared in this order.
do_mutex_lock_free(order) ==
  LET P == ToSet(order)
      freed == Frees(P)
      woken(m) == IF m \in freed THEN NextOwner(m, order) ELSE {}
      silent(m) == \/ \E t \in P : Resumes(t, <<"acquire", m>>)
                   \/ woken(m) \cap P # {}
  IN /\ m_locked' = [m \in Mutexes |-> m_locked[m] /\ m \notin freed]
     /\ LeaveSlots(P, [m \in Mutexes |-> Leaving(m_queue[m], P \cup woken(m))])
     /\ m_forgotten' = m_forgotten \cup {m \in Mutexes : silent(m) /\ ~m_locked'[m]}
     /\ m_kept' = m_kept \ freed

\* clear_pcb_thread, of a thread that exits: tid is not 0, and no lock has it, since
\* nobody stores it.  So nothing is unlocked.
clear_pcb_thread(t) ==
  /\ LeaveSlots({t}, m_queue)
  /\ m_kept' = m_kept \cup m_holds[t]
  /\ UNCHANGED <<m_locked, m_forgotten>>

-----------------------------------------------------------------------------

\* The holder of a lock is one live task, of the process in its pid field: nobody
\* else has acquired it, and a process that dies with the lock gives it back; but a
\* thread that exits with it does not.
MutexExcludes ==
  \A m \in Mutexes :
    LET holders == {t \in Tasks : m \in m_holds[t]}
    IN IF m_locked[m] /\ m \notin m_kept
       THEN Cardinality(holders) = 1 /\ \A t \in holders : main[t] = m_pid[m]
       ELSE holders = {}

\* A waiter waits for a holder, or behind a task that is about to try, so that
\* somebody will wake it; except when the task whose turn it was has been killed
\* before it ran (or, with its process, as soon as it was woken): nothing passes its
\* turn on until somebody else takes the lock.
MutexWaitersServed ==
  \A m \in Mutexes : m_queue[m] # <<>> =>
    \/ m_locked[m] \/ m \in m_forgotten
    \/ \E t \in Tasks : Resumes(t, <<"acquire", m>>)

\* A slot is free exactly when nobody uses it, and then it has no holder (but for one
\* that a thread kept) and no waiter to hand to the next key.
MutexSlotsExact ==
  \A m \in Mutexes :
    /\ m_apply[m] = Cardinality({t \in Tasks : m \in mlock_ocp[t]})
    /\ m_apply[m] = 0 => (m_locked[m] => m \in m_kept) /\ m_queue[m] = <<>>
    /\ \A n \in Mutexes : m # n /\ m_apply[m] # 0 /\ m_apply[n] # 0 => m_key[m] # m_key[n]
=============================================================================
