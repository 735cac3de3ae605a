----------------------------- MODULE KernelLists -----------------------------
(***************************************************************************)
(* The doubly linked lists of the kernel (libs/list.c), as sequences of    *)
(* the tasks whose nodes they link.                                        *)
(***************************************************************************)
EXTENDS Naturals, FiniteSets, SequencesExt

\* list_del: takes the node of p out of the list it is linked into.
unlink(s, p) ==
  IF Contains(s, p) THEN RemoveAt(s, CHOOSE i \in DOMAIN s : s[i] = p) ELSE s

\* Defect: tasks that die stay in the queue they wait in.
Leaving_kept(s, P) == s

\* list_del of each of the tasks P that the list links.
Leaving(s, P) ==
  LET left[i \in 0 .. Len(s)] ==
        IF i = 0 THEN <<>>
        ELSE IF s[i] \in P THEN left[i - 1] ELSE Append(left[i - 1], s[i])
  IN left[Len(s)]

\* The node that do_unblock takes from the front of a queue, and the rest.
First(s) == IF s = <<>> THEN {} ELSE {Head(s)}
Rest(s)  == IF s = <<>> THEN s ELSE Tail(s)
=============================================================================
