------------------------------ MODULE PagingInv ------------------------------
(***************************************************************************)
(* The inductive invariant behind the properties of module Paging.  They   *)
(* say what page tables, reference numbers and pages are to each other; to *)
(* carry them through forks and deaths one has to know besides that an     *)
(* entry that is not marked as forked is the only one of its frame, that a *)
(* dead process has no entry, and where mem_info may point.                *)
(***************************************************************************)
EXTENDS Paging

Contents == Values \cup {Program}

\* Each variable has its type.
PagingTypeOK ==
  /\ free_list \in [Orders -> SUBSET Nat]
  /\ ref_num \in [Frames -> Nat]
  /\ process_id \in 1 .. MaxPid + 1
  /\ alive \subseteq {p \in Pids : p < process_id}
  /\ pte \in [Pids -> [VAs -> PTEs \cup {None}]]
  /\ kernel_stacks \in [Pids -> SUBSET Frames]
  /\ mem_info \in [Pids -> SUBSET (Pids \X VAs)]
  /\ child_t_num \in [Pids -> Nat]
  /\ loading # None => loading \in Pids \X DOMAIN Loads
  /\ running \in [CPUs -> Pids \cup {0}]
  /\ tlb \in [CPUs -> [VAs -> Frames \cup {None}]]
  /\ page \in [Frames -> Contents]
  /\ mem \in [Pids -> [VAs -> Contents \cup {None}]]

\* A process that is loaded or runs is alive, and one that is not has no page; a
\* core that idles has nothing in its TLB.
DeadHaveNothing ==
  /\ loading # None => loading[1] \in alive
  /\ \A c \in CPUs : running[c] # 0 => running[c] \in alive
  /\ \A c \in CPUs : running[c] = 0 => tlb[c] = Empty
  /\ \A p \in Pids \ alive : pte[p] = Empty

\* Every entry that maps a frame holds a reference to it.
References == \A f \in Frames : ref_num[f] >= Cardinality(MapsTo(f))

\* An entry permits writing unless it is marked as forked, and the entry is then
\* the only one that maps its frame.
UnforkedIsAlone ==
  \A p \in Pids : \A va \in VAs : pte[p][va] # None =>
    /\ pte[p][va].w = ~pte[p][va].forked
    /\ ~pte[p][va].forked => MapsTo(pte[p][va].pfn) = {<<p, va>>}

\* The frames of a kernel stack are referred to, and not by an entry.
StacksHeld == \A p \in Pids : \A f \in kernel_stacks[p] : ref_num[f] > 0

\* mem_info points into the tables of processes that were made, and there to
\* entries that are valid for as long as their process lives.
MemInfoValid ==
  \A p \in Pids : \A m \in mem_info[p] :
    /\ m[1] < process_id
    /\ m[1] \in alive => pte[m[1]][m[2]] # None

PageInv ==
  /\ PagingTypeOK
  /\ ZoneExact
  /\ DeadHaveNothing
  /\ References /\ UnforkedIsAlone
  /\ StacksHeld /\ KernelStackApart
  /\ MemInfoValid /\ SwapsOnlyOrphans
  /\ PrivateMemory
=============================================================================
