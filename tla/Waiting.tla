------------------------------- MODULE Waiting -------------------------------
(***************************************************************************)
(* What the IPC objects see of the scheduler (module Sched).  A call runs  *)
(* under giant_lock from its trap to its return, unless do_block switches  *)
(* to another task in the middle of it.  A blocked task is in the block    *)
(* queue of one object; do_unblock makes it ready, and some time later it  *)
(* runs on inside the call, in an order that the masks and the ready queue *)
(* decide and that is left open here.                                      *)
(***************************************************************************)
EXTENDS KernelLists

CONSTANT Tasks      \* the processes that use the objects

VARIABLES
  where,    \* user: in its program; kernel: in a call of
            \* several steps; blocked; woken: unblocked inside its call; dead
  call      \* the call the task is in, and its object

Wheres == {"user", "kernel", "blocked", "woken", "dead"}
None   == <<"none", 0>>

ASSUME TasksAssumption == IsFiniteSet(Tasks) /\ None \notin Tasks

InUser(t)     == where[t] = "user"
Resumes(t, f) == where[t] = "woken" /\ call[t] = f
Alive(t)      == where[t] # "dead"

\* The places of the tasks after the tasks of W are unblocked.
Unblock(W) == [t \in Tasks |-> IF t \in W THEN "woken" ELSE where[t]]

\* do_block, called from call f.
Block(t, f) ==
  /\ where' = [where EXCEPT ![t] = "blocked"]
  /\ call' = [call EXCEPT ![t] = f]

\* The call returns, or goes on after do_block and then returns.
Return(t) ==
  /\ where' = [where EXCEPT ![t] = "user"]
  /\ call' = [call EXCEPT ![t] = None]
=============================================================================
