------------------------------ MODULE ProcTable ------------------------------
(***************************************************************************)
(* What the process system calls promise, without scheduler, queues or     *)
(* locks: a set of live processes whose pids are never used again, and a   *)
(* waitpid that holds its caller exactly until the process waited for, or  *)
(* the caller itself, is gone.                                             *)
(***************************************************************************)
EXTENDS Naturals

CONSTANT MaxPid

VARIABLES live, next, waits

tableVars == <<live, next, waits>>

Init == live = {1} /\ next = 2 /\ waits = {}

\* exec and fork.
Spawn ==
  /\ next <= MaxPid
  /\ live' = live \cup {next}
  /\ next' = next + 1
  /\ UNCHANGED waits

\* waitpid: a process waits for one process at a time, and only for a live one.
WaitFor(w, k) ==
  /\ w \in live /\ k \in live
  /\ \A e \in waits : e[1] # w
  /\ waits' = waits \cup {<<w, k>>}
  /\ UNCHANGED <<live, next>>

\* exit and kill: the process goes, and with it every wait it takes part in.
Die(k) ==
  /\ k \in live
  /\ live' = live \ {k}
  /\ waits' = {e \in waits : e[1] # k /\ e[2] # k}
  /\ UNCHANGED next

Next ==
  \/ Spawn
  \/ \E w, k \in live : WaitFor(w, k)
  \/ \E k \in live : Die(k)

Spec == Init /\ [][Next]_tableVars
=============================================================================
