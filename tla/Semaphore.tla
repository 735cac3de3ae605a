------------------------------ MODULE Semaphore ------------------------------
(***************************************************************************)
(* Semaphores (kernel/syscall/ipc.c).  up hands its token to the first     *)
(* waiter, whose down then returns without looking at the value again.     *)
(***************************************************************************)
EXTENDS ThreadGroup

CONSTANTS SEMAPHORE_NUM, InitValues

\* Programs start a semaphore with at least no token.
ASSUME InitValuesAssumption == InitValues \subseteq Nat

Semaphores == 1 .. SEMAPHORE_NUM

VARIABLES
  s_pid, s_value, s_queue,      \* the fields of semaphores
  s_init,       \* history: the value at do_semaphore_init
  s_handed,     \* history: tasks that up gave a token to, and that have not run yet
  s_inside,     \* history: tasks between their down and their up
  s_lost        \* history: tokens that tasks have died with

semaVars == <<s_pid, s_value, s_queue, s_init, s_handed, s_inside, s_lost>>

SemaphoreInit ==
  /\ s_pid = [s \in Semaphores |-> None]
  /\ s_value = [s \in Semaphores |-> 0]
  /\ s_queue = [s \in Semaphores |-> <<>>]
  /\ s_init = [s \in Semaphores |-> 0]
  /\ s_handed = [s \in Semaphores |-> {}]
  /\ s_inside = [s \in Semaphores |-> {}]
  /\ s_lost = [s \in Semaphores |-> 0]

\* The first semaphore without an owner; its key is kept but never looked at.
do_semaphore_init(t, v) ==
  /\ InUser(t)
  /\ \E s \in Semaphores :
       /\ s_pid[s] = None /\ \A r \in Semaphores : s_pid[r] = None => s <= r
       /\ s_pid' = [s_pid EXCEPT ![s] = main[t]]
       /\ s_value' = [s_value EXCEPT ![s] = v]
       /\ s_queue' = [s_queue EXCEPT ![s] = <<>>]
       /\ s_init' = [s_init EXCEPT ![s] = v]
  /\ UNCHANGED <<where, call, s_handed, s_inside, s_lost>>

\* Programs call down and up, as a pair, on a semaphore that has an owner.
do_semaphore_down(t, s) ==
  /\ InUser(t) /\ s_pid[s] # None /\ t \notin s_inside[s]
  /\ \/ /\ s_value[s] > 0
        /\ s_value' = [s_value EXCEPT ![s] = @ - 1]
        /\ s_inside' = [s_inside EXCEPT ![s] = @ \cup {t}]
        /\ UNCHANGED <<where, call, s_queue>>
     \/ /\ s_value[s] = 0
        /\ Block(t, <<"down", s>>)
        /\ s_queue' = [s_queue EXCEPT ![s] = Append(@, t)]
        /\ UNCHANGED <<s_value, s_inside>>
  /\ UNCHANGED <<s_pid, s_init, s_handed, s_lost>>

\* The rest of down, after do_block: nothing is checked.
finish_down(t, s) ==
  /\ Resumes(t, <<"down", s>>)
  /\ Return(t)
  /\ s_handed' = [s_handed EXCEPT ![s] = @ \ {t}]
  /\ s_inside' = [s_inside EXCEPT ![s] = IF t \in s_handed[s] THEN @ \cup {t} ELSE @]
  /\ UNCHANGED <<s_pid, s_value, s_queue, s_init, s_lost>>

\* Defect: the value is raised even when a waiter gets the token.
do_semaphore_up_twice(t, s) ==
  /\ InUser(t) /\ t \in s_inside[s]
  /\ s_value' = [s_value EXCEPT ![s] = @ + 1]
  /\ s_queue' = [s_queue EXCEPT ![s] = Rest(@)]
  /\ where' = Unblock(First(s_queue[s]))
  /\ s_handed' = [s_handed EXCEPT ![s] = @ \cup First(s_queue[s])]
  /\ s_inside' = [s_inside EXCEPT ![s] = @ \ {t}]
  /\ UNCHANGED <<call, s_pid, s_init, s_lost>>

do_semaphore_up(t, s) ==
  /\ InUser(t) /\ t \in s_inside[s]
  /\ s_value' = [s_value EXCEPT ![s] = IF s_queue[s] = <<>> THEN @ + 1 ELSE @]
  /\ s_queue' = [s_queue EXCEPT ![s] = Rest(@)]
  /\ where' = Unblock(First(s_queue[s]))
  /\ s_handed' = [s_handed EXCEPT ![s] = @ \cup First(s_queue[s])]
  /\ s_inside' = [s_inside EXCEPT ![s] = @ \ {t}]
  /\ UNCHANGED <<call, s_pid, s_init, s_lost>>

\* What do_semaphore_destroy does to the semaphores in D, while the tasks P die:
\* the waiters are woken as if they had got a token.
SemaDestroyed(D, P) ==
  LET zero(f) == [s \in Semaphores |-> IF s \in D THEN 0 ELSE f[s]]
      Rid(f)  == [s \in Semaphores |-> IF s \in D THEN {} ELSE f[s] \ P]
  IN /\ s_pid' = [s \in Semaphores |-> IF s \in D THEN None ELSE s_pid[s]]
     /\ s_value' = zero(s_value)
     /\ s_queue' = [s \in Semaphores |->
                      IF s \in D THEN <<>> ELSE Leaving(s_queue[s], P)]
     /\ s_init' = zero(s_init)
     /\ s_handed' = Rid(s_handed)
     /\ s_inside' = Rid(s_inside)
     /\ s_lost' = [s \in Semaphores |->
          IF s \in D THEN 0
          ELSE s_lost[s] + Cardinality(P \cap (s_handed[s] \cup s_inside[s]))]
SemaWoken(D) == UNION {ToSet(s_queue[s]) : s \in D}

do_semaphore_destroy(t, s) ==
  /\ InUser(t) /\ s_pid[s] = main[t]
  /\ SemaDestroyed({s}, {})
  /\ where' = Unblock(SemaWoken({s}))
  /\ UNCHANGED call

-----------------------------------------------------------------------------

\* While a semaphore lives its tokens are conserved: in its value, on the way to
\* a woken task, with the tasks inside, or lost with a task that died holding
\* one.  So never more tasks are inside than its first value allows, and nobody
\* waits while the value is positive.
SemaConserves ==
  \A s \in Semaphores : s_pid[s] # None =>
    /\ s_value[s] + Cardinality(s_handed[s]) + Cardinality(s_inside[s]) + s_lost[s]
         = s_init[s]
    /\ s_value[s] > 0 => s_queue[s] = <<>>
=============================================================================
