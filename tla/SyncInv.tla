------------------------------- MODULE SyncInv -------------------------------
(***************************************************************************)
(* The inductive invariant behind the properties of module Sync: what the  *)
(* fields of the objects, the queues and the calls of the tasks have to do *)
(* with each other between any two system calls.                           *)
(***************************************************************************)
EXTENDS Sync

SyncTypeOK ==
  /\ where \in [Tasks -> Wheres] /\ call \in [Tasks -> {None} \cup Waits]
  /\ main \in Families
  /\ m_apply \in [Mutexes -> Nat] /\ m_key \in [Mutexes -> MutexKeys \cup {0}]
  /\ m_pid \in [Mutexes -> Tasks \cup {None}]
  /\ m_locked \in [Mutexes -> BOOLEAN] /\ m_queue \in [Mutexes -> Seq(Tasks)]
  /\ mlock_ocp \in [Tasks -> SUBSET Mutexes] /\ m_holds \in [Tasks -> SUBSET Mutexes]
  /\ m_forgotten \subseteq Mutexes /\ m_kept \subseteq Mutexes
  /\ s_pid \in [Semaphores -> Tasks \cup {None}]
  /\ s_value \in [Semaphores -> Nat] /\ s_init \in [Semaphores -> Nat]
  /\ s_lost \in [Semaphores -> Nat] /\ s_queue \in [Semaphores -> Seq(Tasks)]
  /\ s_handed \in [Semaphores -> SUBSET Tasks] /\ s_inside \in [Semaphores -> SUBSET Tasks]
  /\ b_pid \in [Barriers -> Tasks \cup {None}]
  /\ b_goal \in [Barriers -> Nat] /\ b_value \in [Barriers -> Nat]
  /\ b_queue \in [Barriers -> Seq(Tasks)] /\ b_passed \in [Barriers -> [Tasks -> Nat]]

\* A task in its program, and a dead one, is in no call.
OutsideCalls == \A t \in Tasks : where[t] \in {"user", "dead"} => call[t] = None

\* Who has acquired a lock, or is about to, has applied for it; the dead have given
\* up everything; and what a thread has kept is locked.
MutexClaims ==
  /\ \A t \in Tasks : m_holds[t] \subseteq mlock_ocp[t]
  /\ \A t \in Tasks, m \in Mutexes : call[t] = <<"acquire", m>> => m \in mlock_ocp[t]
  /\ \A t \in Tasks : where[t] = "dead" => mlock_ocp[t] = {}
  /\ \A m \in m_kept : m_locked[m]

\* A token on its way is with a task that wakes up in its down; a task inside is in
\* none; and nothing is left of a semaphore that has no owner.
SemaTokens ==
  /\ \A s \in Semaphores : \A t \in s_handed[s] : Resumes(t, <<"down", s>>)
  /\ \A s \in Semaphores : \A t \in s_inside[s] : call[t] # <<"down", s>>
  /\ \A s \in Semaphores : s_pid[s] = None =>
       s_handed[s] = {} /\ s_inside[s] = {} /\ s_lost[s] = 0 /\ s_queue[s] = <<>>

\* Of the tasks that have come to a barrier in this round those that do not wait
\* there any more are dead.
Absent(b) == {t \in Tasks : where[t] = "dead" \/ (where[t] = "blocked" /\ call[t] = <<"wait", b>>)}
BarrierCounts ==
  \A b \in Barriers :
    IF b_pid[b] = None
    THEN b_queue[b] = <<>> /\ \A t \in Tasks : b_passed[b][t] = 0
    ELSE /\ b_goal[b] = Cardinality(Tasks) - 1
         /\ b_goal[b] - b_value[b] <= Cardinality(Absent(b))

SyncInv ==
  /\ SyncTypeOK /\ OutsideCalls /\ WaitersLinked
  /\ MutexClaims /\ MutexSlotsExact /\ MutexExcludes /\ MutexWaitersServed
  /\ SemaTokens /\ SemaConserves
  /\ BarrierCounts /\ BarrierTogether
=============================================================================
