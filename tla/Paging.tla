-------------------------------- MODULE Paging --------------------------------
(***************************************************************************)
(* The user pages: page tables, page faults, copy on write at fork         *)
(* (kernel/mm, kernel/irq/page_fault.c) and the TLBs of the two cores.     *)
(* A call or fault runs under giant_lock and is one step, except that exec *)
(* loads page by page.  A process is known by its pid, never used again:   *)
(* so are the page-table pages, which are never freed.                     *)
(***************************************************************************)
EXTENDS Buddy, Sequences

CONSTANTS
  CPUs,
  MaxPid, MaxThreads,   \* bounds: processes made, and child threads of each
  Image,        \* the sequence of pages that exec loads the program to, pinned,
  Stack,        \* the page of the arguments,
  Heap,         \* and pages that a program touches later
  Values,       \* what a page may hold
  Program,      \* what exec copies to the pages it maps
  PROC_MAX_PAGE_NUM,
  None

VARIABLES
  process_id,   \* the next pid
  alive,        \* the processes that are not ZOMBIE
  pte,          \* page tables: pte[p][va], None when it is not valid
  kernel_stacks,        \* the frames of the kernel stacks, per process
  mem_info,     \* the entries of mem_info: whose page table they point into, and where
  child_t_num,  \* child threads
  loading,      \* exec: the process that is loaded and its next page; else None
  running, tlb, \* each core: its process (0: idle), and the frames that its
                \* TLB lets it write
  page,         \* what the frames hold
  mem,          \* history: what each process has last stored or found in each page
  fate          \* "ok"; "leaked" when a store went to a frame that the page table does
                \* not let it write, "exhausted" or "swapped" when pages are lost

tableVars == <<process_id, alive, pte, kernel_stacks, mem_info, child_t_num>>
coreVars  == <<running, tlb>>
memVars   == <<page, mem>>
vars == <<buddyVars, tableVars, coreVars, memVars, loading, fate>>

Pids  == 1 .. MaxPid
VAs   == {Image[i] : i \in DOMAIN Image} \cup {Stack} \cup Heap
Loads == Append(Image, Stack)
KernelStackOrder == 1         \* KERNEL_STACK_PAGE is 2
PTEs  == [pfn : Frames, w : BOOLEAN, forked : BOOLEAN, pin : BOOLEAN]
Empty == [va \in VAs |-> None]
Pte(f, w, forked, pin) == [pfn |-> f, w |-> w, forked |-> forked, pin |-> pin]

ASSUME PagingAssumption ==
  /\ MaxPid \in Nat /\ PROC_MAX_PAGE_NUM \in Nat
  /\ Image \in Seq(VAs) /\ IsFiniteSet(Heap)
  /\ None \notin PTEs

\* The page-table entries that map frame f.
Maps(p, va, f) == pte[p][va] # None /\ pte[p][va].pfn = f
MapsTo(f) == {m \in Pids \X VAs : Maps(m[1], m[2], f)}

PagingInit ==
  /\ init_alloc
  /\ process_id = 1 /\ alive = {}
  /\ pte = [p \in Pids |-> Empty]
  /\ kernel_stacks = [p \in Pids |-> {}]
  /\ mem_info = [p \in Pids |-> {}]
  /\ child_t_num = [p \in Pids |-> 0]
  /\ loading = None
  /\ running = [c \in CPUs |-> 0] /\ tlb = [c \in CPUs |-> Empty]
  /\ \E v \in Values : page = [f \in Frames |-> v]
  /\ mem = [p \in Pids |-> Empty]
  /\ fate = "ok"

-----------------------------------------------------------------------------
(* Pages.                                                                  *)

\* bs_ref_ppage for the pages of a block just allocated.
RefBlock(ref, k, f) == [g \in Frames |-> ref[g] + IF g \in Block(k, f) THEN 1 ELSE 0]

\* An allocation fails: its callers go on with the page at address 0.
Exhausted(k) ==
  /\ NoPages(k)
  /\ fate' = "exhausted"
  /\ UNCHANGED <<buddyVars, tableVars, coreVars, memVars, loading>>

\* Defect: asks for one page, and puts the stack's base behind two.
alloc_kernel_stack_one(p, f, ref) ==
  /\ alloc_page(0, f)
  /\ ref_num' = RefBlock(ref, 0, f)
  /\ kernel_stacks' = [kernel_stacks EXCEPT ![p] = @ \cup Block(KernelStackOrder, f)]

\* alloc_page_proc(mem_info, KERNEL_STACK_PAGE, 0, 0) for process p, where ref
\* are the reference numbers before.
alloc_kernel_stack(p, f, ref) ==
  /\ alloc_page(KernelStackOrder, f)
  /\ ref_num' = RefBlock(ref, KernelStackOrder, f)
  /\ kernel_stacks' = [kernel_stacks EXCEPT ![p] = @ \cup Block(KernelStackOrder, f)]

\* Defect: counts the pages that are in memory.
get_pcb_page_num_valid(p) == Cardinality({m \in mem_info[p] : pte[m[1]][m[2]] # None})

\* The pages of mem_info whose entry is not valid.
get_pcb_page_num(p) == Cardinality({m \in mem_info[p] : pte[m[1]][m[2]] = None})

\* check_page_full: with too many of them, entries are drawn at random until
\* enough drawn ones could not be swapped out; those that can be, are.
check_page_full(p) ==
  /\ get_pcb_page_num(p) > PROC_MAX_PAGE_NUM
  /\ \E m \in mem_info[p] : pte[m[1]][m[2]] # None /\ ~pte[m[1]][m[2]].pin
  /\ fate' = "swapped"
  /\ UNCHANGED <<buddyVars, tableVars, coreVars, memVars, loading>>

\* alloc_page_helper maps frame f, fresh, for page va of process p: it is not
\* cleared.  found is what p is to find in it.
alloc_page_helper(p, va, f, pin, found) ==
  /\ pte[p][va] = None
  /\ alloc_page(0, f)
  /\ ref_num' = RefBlock(ref_num, 0, f)
  /\ mem_info' = [mem_info EXCEPT ![p] = @ \cup {<<p, va>>}]
  /\ pte' = [pte EXCEPT ![p][va] = Pte(f, TRUE, FALSE, pin)]
  /\ mem' = [mem EXCEPT ![p][va] = found]
  /\ UNCHANGED <<process_id, alive, kernel_stacks, child_t_num, fate>>

-----------------------------------------------------------------------------
(* System calls.  While exec loads a program its core holds giant_lock.    *)

Calls(c) == running[c] # 0 /\ loading = None

\* init_pcb: the new process has a kernel stack and no page.  The first process
\* is made by the kernel itself.
do_exec(c) ==
  /\ loading = None
  /\ running[c] # 0 \/ process_id = 1
  /\ process_id <= MaxPid
  /\ \/ Exhausted(KernelStackOrder)
     \/ \E f \in Frames :
          /\ alloc_kernel_stack(process_id, f, ref_num)
          /\ alive' = alive \cup {process_id}
          /\ process_id' = process_id + 1
          /\ loading' = <<process_id, 1>>
          /\ UNCHANGED <<pte, mem_info, child_t_num, coreVars, memVars, fate>>

\* inst_alloc maps a page of the program and copies it there; init_pcb_args then
\* maps the page of the arguments.
LoadPage ==
  /\ loading # None
  /\ LET p == loading[1]  i == loading[2] IN
     \/ Exhausted(0)
     \/ \E f \in Frames :
          /\ alloc_page_helper(p, Loads[i], f, i \in DOMAIN Image, Program)
          /\ page' = [page EXCEPT ![f] = Program]
          /\ loading' = IF i = Len(Loads) THEN None ELSE <<p, i + 1>>
          /\ UNCHANGED coreVars

\* What fork_copy_pgtable leaves in both page tables.
fork_copy_pgtable(p) ==
  [va \in VAs |-> IF pte[p][va] = None THEN None
                  ELSE [pte[p][va] EXCEPT !.forked = TRUE, !.w = FALSE]]

\* cow_create for every page of p.
cow_create(p) ==
  [f \in Frames |-> ref_num[f] + Cardinality({va \in VAs : Maps(p, va, f)})]

\* The TLBs of the cores that run the parent keep its writable entries.
do_fork(c) ==
  /\ Calls(c) /\ process_id <= MaxPid
  /\ LET p == running[c]  q == process_id IN
     \/ Exhausted(KernelStackOrder)
     \/ \E f \in Frames :
          /\ alloc_kernel_stack(q, f, cow_create(p))
          /\ pte' = [pte EXCEPT ![p] = fork_copy_pgtable(p),
                                ![q] = fork_copy_pgtable(p)]
          /\ mem_info' = [mem_info EXCEPT ![q] = mem_info[p]]
          /\ mem' = [mem EXCEPT ![q] = mem[p]]
          /\ alive' = alive \cup {q} /\ process_id' = q + 1
          /\ UNCHANGED <<child_t_num, coreVars, page, loading, fate>>

do_thread_create(c) ==
  /\ Calls(c) /\ child_t_num[running[c]] < MaxThreads
  /\ \/ Exhausted(KernelStackOrder)
     \/ \E f \in Frames :
          /\ alloc_kernel_stack(running[c], f, ref_num)
          /\ child_t_num' = [child_t_num EXCEPT ![running[c]] = @ + 1]
          /\ UNCHANGED <<process_id, alive, pte, mem_info, coreVars, memVars, loading, fate>>

\* pcb_clear of the process p that leaves: mem_num is 0, so no page is freed and
\* only the page table is cleared; the core that does it flushes its TLB.  That p
\* runs on another core is excluded (Thread.tla has it).
pcb_clear(c, p) ==
  /\ p \in alive /\ \A d \in CPUs \ {c} : running[d] # p
  /\ alive' = alive \ {p} /\ mem' = [mem EXCEPT ![p] = Empty]
  /\ pte' = [pte EXCEPT ![p] = Empty]
  /\ tlb' = [tlb EXCEPT ![c] = Empty]
  /\ running' = IF running[c] = p THEN [running EXCEPT ![c] = 0] ELSE running
  /\ UNCHANGED <<buddyVars, process_id, kernel_stacks, mem_info, child_t_num,
                 page, loading, fate>>

do_exit(c) == Calls(c) /\ pcb_clear(c, running[c])

\* The shell, pid 1, is not killed.
do_kill(c) == Calls(c) /\ \E p \in Pids \ {1, running[c]} : pcb_clear(c, p)

\* switch_to_wrap: another process, or a thread of one that runs already.
switch_to_wrap(c) ==
  /\ loading = None
  /\ \E p \in alive \cup {0} :
       /\ p # running[c]
       /\ p # 0 => Cardinality({d \in CPUs \ {c} : running[d] = p}) <= child_t_num[p]
       /\ running' = [running EXCEPT ![c] = p]
  /\ tlb' = [tlb EXCEPT ![c] = Empty]
  /\ UNCHANGED <<buddyVars, tableVars, memVars, loading, fate>>

-----------------------------------------------------------------------------
(* Page faults and the memory accesses of user programs.                   *)

\* handle_page_fault_rd, and handle_page_fault_wr of a page that is not mapped.
handle_page_fault_rd(c, va) ==
  /\ Calls(c)
  /\ LET p == running[c] IN
     /\ pte[p][va] = None
     /\ \/ check_page_full(p)
        \/ Exhausted(0)
        \/ \E f \in Frames :
             /\ alloc_page_helper(p, va, f, FALSE, page[f])
             /\ UNCHANGED <<coreVars, page, loading>>

\* Defect: a page counts as shared only while two others have it.
cow_try_eliminate_two(f) == ref_num[f] > 2

\* The page is still shared.
cow_try_eliminate(f) == ref_num[f] > 1

\* Defect: the page's contents are not copied.
CopyPage_not(new, old) == page

CopyPage(new, old) == [page EXCEPT ![new] = page[old]]

\* handle_page_fault_wr of a page that fork took the write permission from.
\* No TLB is flushed.
cow_check(c, va) ==
  /\ Calls(c)
  /\ LET p == running[c]  e == pte[p][va]  IN
     /\ e # None /\ e.forked
     /\ \/ /\ cow_try_eliminate(e.pfn)
           /\ \/ Exhausted(0)
              \/ \E f \in Frames :
                   /\ alloc_page(0, f)
                   /\ ref_num' = RefBlock([ref_num EXCEPT ![e.pfn] = @ - 1], 0, f)
                   /\ page' = CopyPage(f, e.pfn)
                   /\ pte' = [pte EXCEPT ![p][va] = Pte(f, TRUE, FALSE, e.pin)]
                   /\ UNCHANGED <<process_id, alive, kernel_stacks, mem_info, child_t_num,
                                  coreVars, mem, loading, fate>>
        \/ /\ ~cow_try_eliminate(e.pfn)
           /\ pte' = [pte EXCEPT ![p][va].w = TRUE, ![p][va].forked = FALSE]
           /\ UNCHANGED <<buddyVars, process_id, alive, kernel_stacks, mem_info, child_t_num,
                          coreVars, memVars, loading, fate>>

\* The hardware takes an entry that permits writing into the TLB, or drops one.
\* (An entry that does not only delays a store, by faults that change nothing.)
Walk(c, va) ==
  /\ running[c] # 0 /\ tlb[c][va] = None
  /\ pte[running[c]][va] # None /\ pte[running[c]][va].w
  /\ tlb' = [tlb EXCEPT ![c][va] = pte[running[c]][va].pfn]
  /\ UNCHANGED <<buddyVars, tableVars, running, memVars, loading, fate>>

Evict(c, va) ==
  /\ tlb[c][va] # None
  /\ tlb' = [tlb EXCEPT ![c][va] = None]
  /\ UNCHANGED <<buddyVars, tableVars, running, memVars, loading, fate>>

\* A store in user mode.  It needs no lock, and asks the TLB only.
Store(c, va, v) ==
  /\ tlb[c][va] # None
  /\ LET p == running[c]  f == tlb[c][va] IN
     /\ page' = [page EXCEPT ![f] = v]
     /\ mem' = [mem EXCEPT ![p][va] = v]
     /\ fate' = IF Maps(p, va, f) /\ pte[p][va].w THEN "ok" ELSE "leaked"
  /\ UNCHANGED <<buddyVars, tableVars, coreVars, loading>>

\* Where pages were lost or memory leaked the model ends; and nothing happens when
\* no process is left.
Ended ==
  /\ fate # "ok" \/ (process_id # 1 /\ alive = {})
  /\ UNCHANGED vars

PagingNext ==
  \/ fate = "ok" /\
     \/ \E c \in CPUs : do_exec(c) \/ do_fork(c) \/ do_thread_create(c)
     \/ LoadPage
     \/ \E c \in CPUs : do_exit(c) \/ do_kill(c) \/ switch_to_wrap(c)
     \/ \E c \in CPUs : \E va \in VAs : handle_page_fault_rd(c, va) \/ cow_check(c, va)
     \/ \E c \in CPUs : \E va \in VAs : Walk(c, va) \/ Evict(c, va)
     \/ \E c \in CPUs : \E va \in VAs : \E v \in Values : Store(c, va, v)
  \/ Ended

PagingSpec == PagingInit /\ [][PagingNext]_vars

-----------------------------------------------------------------------------
(* Properties.                                                             *)

\* Every entry that maps a frame holds a reference to it, and if more than one does
\* none is writable and all are marked as pages to copy on write: so cow_check never
\* takes a shared page for its own, in whatever order it is called after forks of
\* forks and deaths.
SharedIsForked ==
  \A f \in Frames :
    /\ ref_num[f] >= Cardinality(MapsTo(f))
    /\ Cardinality(MapsTo(f)) > 1 =>
         \A m \in MapsTo(f) : ~pte[m[1]][m[2]].w /\ pte[m[1]][m[2]].forked

\* The frames of a kernel stack belong to one process and no user page is in them.
KernelStackApart ==
  \A p \in Pids : \A f \in kernel_stacks[p] :
    /\ MapsTo(f) = {}
    /\ \A q \in Pids \ {p} : f \notin kernel_stacks[q]

\* A process finds in its pages what it has stored there, or what its parent had
\* at the fork, whatever other processes do; unless a store went through an old
\* entry of a TLB.
PrivateMemory ==
  fate # "leaked" => \A p \in alive : \A va \in VAs :
    pte[p][va] # None => page[pte[p][va].pfn] = mem[p][va]

\* check_page_full swaps a page out only in a process that has inherited entries
\* of mem_info from one that is dead.
SwapsOnlyOrphans ==
  fate = "swapped" => \E p \in alive : \E m \in mem_info[p] : m[1] \notin alive

\* "Copy-on-Write Page" (pgtable.h:66): as PrivateMemory, always.
MemoryIsolated ==
  \A p \in alive : \A va \in VAs :
    pte[p][va] # None => page[pte[p][va].pfn] = mem[p][va]
=============================================================================
