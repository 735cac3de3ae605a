------------------------------- MODULE Barrier -------------------------------
(***************************************************************************)
(* Barriers (kernel/syscall/ipc.c) for all the tasks: goal and value are   *)
(* one less than the number of tasks that meet.                            *)
(***************************************************************************)
EXTENDS ThreadGroup

CONSTANTS BARRIER_NUM,
          MaxRounds     \* bound: rounds that a task goes through in one barrier

Barriers == 1 .. BARRIER_NUM

VARIABLES
  b_pid, b_goal, b_value, b_queue,      \* the fields of barriers
  b_passed      \* history: the rounds a task has been through in this barrier

barrierVars == <<b_pid, b_goal, b_value, b_queue, b_passed>>

BarrierInit ==
  /\ b_pid = [b \in Barriers |-> None]
  /\ b_goal = [b \in Barriers |-> 0]
  /\ b_value = [b \in Barriers |-> 0]
  /\ b_queue = [b \in Barriers |-> <<>>]
  /\ b_passed = [b \in Barriers |-> [t \in Tasks |-> 0]]

do_barrier_init(t) ==
  /\ InUser(t)
  /\ \E b \in Barriers :
       /\ b_pid[b] = None /\ \A a \in Barriers : b_pid[a] = None => b <= a
       /\ b_pid' = [b_pid EXCEPT ![b] = main[t]]
       /\ b_goal' = [b_goal EXCEPT ![b] = Cardinality(Tasks) - 1]
       /\ b_value' = [b_value EXCEPT ![b] = Cardinality(Tasks) - 1]
       /\ b_queue' = [b_queue EXCEPT ![b] = <<>>]
  /\ UNCHANGED <<where, call, b_passed>>

\* Defect: the value is not set back for the next round.
release_stuck(t, b) ==
  /\ UNCHANGED b_value
  /\ b_queue' = [b_queue EXCEPT ![b] = <<>>]
  /\ where' = Unblock(ToSet(b_queue[b]))
  /\ b_passed' = [b_passed EXCEPT ![b] =
       [u \in Tasks |-> IF u = t \/ Contains(b_queue[b], u) THEN @[u] + 1 ELSE @[u]]]

\* The last task of a round wakes the others and sets the barrier up again.
release(t, b) ==
  /\ b_value' = [b_value EXCEPT ![b] = b_goal[b]]
  /\ b_queue' = [b_queue EXCEPT ![b] = <<>>]
  /\ where' = Unblock(ToSet(b_queue[b]))
  /\ b_passed' = [b_passed EXCEPT ![b] =
       [u \in Tasks |-> IF u = t \/ Contains(b_queue[b], u) THEN @[u] + 1 ELSE @[u]]]

do_barrier_wait(t, b) ==
  /\ InUser(t) /\ b_pid[b] # None
  /\ b_passed[b][t] < MaxRounds
  /\ \/ b_value[b] = 0 /\ release(t, b) /\ UNCHANGED call
     \/ /\ b_value[b] # 0
        /\ b_value' = [b_value EXCEPT ![b] = @ - 1]
        /\ Block(t, <<"wait", b>>)
        /\ b_queue' = [b_queue EXCEPT ![b] = Append(@, t)]
        /\ UNCHANGED b_passed
  /\ UNCHANGED <<b_pid, b_goal>>

finish_wait(t, b) ==
  /\ Resumes(t, <<"wait", b>>)
  /\ Return(t)
  /\ UNCHANGED barrierVars

\* What do_barrier_destroy does to the barriers in D, while the tasks P die.
BarrierDestroyed(D, P) ==
  LET zero(f) == [b \in Barriers |-> IF b \in D THEN 0 ELSE f[b]]
  IN /\ b_pid' = [b \in Barriers |-> IF b \in D THEN None ELSE b_pid[b]]
     /\ b_goal' = zero(b_goal)
     /\ b_value' = zero(b_value)
     /\ b_queue' = [b \in Barriers |->
                      IF b \in D THEN <<>> ELSE Leaving(b_queue[b], P)]
     /\ b_passed' = [b \in Barriers |->
                       IF b \in D THEN [u \in Tasks |-> 0] ELSE b_passed[b]]
BarrierWoken(D) == UNION {ToSet(b_queue[b]) : b \in D}

do_barrier_destroy(t, b) ==
  /\ InUser(t) /\ b_pid[b] = main[t]
  /\ BarrierDestroyed({b}, {})
  /\ where' = Unblock(BarrierWoken({b}))
  /\ UNCHANGED call

-----------------------------------------------------------------------------

\* The tasks that meet at a barrier go through it together: no live task is a
\* round ahead of another, whoever was killed in between.
BarrierTogether ==
  \A b \in Barriers : b_pid[b] # None =>
    \A t, u \in Tasks : Alive(t) /\ Alive(u) => b_passed[b][t] = b_passed[b][u]
=============================================================================
