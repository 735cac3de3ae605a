# TLA+ models of the UCAS-OS kernel (Project 5)

The repository holds five stages of one teaching kernel for RISC-V. Each stage
contains the code of the one before, reworked; the models are of the last stage,
`src/jijunxiong21-Project5-Device_Driver/` (paths below are relative to it). It is
a two-core, 64-process kernel with processes, threads, IPC, virtual memory, swap
and an E1000 network driver.

## The system

| Component | State | Operations | Interacts with |
|---|---|---|---|
| Scheduler (`kernel/sched`) | `ready_queue`, `sleep_queue`, `current_running` per core, `pcb.status/list` | `do_scheduler`, `do_sleep`, `do_block`, `do_unblock`, `check_sleeping`, `check_killed` | everyone: a task waits by being linked into a list that someone else empties |
| Processes (`kernel/syscall/proc_mod.c`, `proc_set.c`, `init/main.c`) | `pcb[]`, `run_tasks`, `process_id`, wait lists | exec, fork, exit, kill, waitpid, taskset | scheduler; at death all IPC objects |
| Threads (`kernel/thread`) | `tid`, `child_t_num`, `thread_exit_queue` | create, exit, join, yield | processes, mutex locks |
| Mutex locks (`mutex_lk.c`) | `mlocks[]` | init, acquire, release, free at death | scheduler |
| Barriers, semaphores, mailboxes (`ipc.c`) | `barriers[]`, `semaphores[]`, `mailboxes[]` | init/open, wait/down/up/send/recv, destroy/close | scheduler; process death |
| Memory (`kernel/mm`, `page_fault.c`) | buddy lists, reference counts, page tables, kernel heap, swap map | allocate, free, copy on write, swap | fork, exit, page faults |
| Network (`kernel/net`, `drivers/e1000.c`) | descriptor rings shared with the card, three block queues | send, recv, recv_stream, two interrupts | scheduler, the card (DMA) |
| Traps, locks (`irq.c`, `smp.c`, `spin_lk.c`) | `giant_lock`, spin locks | system call, timer and external interrupts | all |

**How it is concurrent.** A trap from user mode (or from the idle task) takes
`giant_lock`, runs with interrupts off, and releases the lock on its way back to
user mode. So one core is in the kernel at a time and a system call is atomic
*except* that it may switch to another task in the middle (`do_block`,
`proc_schedule`): everything it looked at before may have changed when it runs
on. The other sources of interleaving are the second core running *user* code
while the first is in the kernel, timer interrupts between any two user steps,
the order in which two cores pick tasks, and the card, which works on its rings
at any time. The inner spin locks are never contended, because of `giant_lock`; they matter only where the
code takes one twice or leaves one locked, and then the kernel hangs (`op = "spin"` in
the models: a process that kills itself takes `pcb_lk` twice).

**What is hard.** Tasks killed while they run, wait or have just been woken; PCBs,
wait lists and IPC slots that are used again; waiters that depend on somebody
who may die; rings that wrap; segments lost, repeated and reordered; page tables that the TLBs
still disagree with. `PROJECT.json` lists the hazards line by line.

## Modules

| Module | Models | State and actions |
|---|---|---|
| `Sched` | scheduler, lists, giant lock | `kernel` is the trap in progress (`At(op, core)`), `queue` all lists, `status`, `pid`, ... the PCB fields; `do_scheduler`, `do_sleep`, `do_block`, `do_unblock`, ... |
| `Process` | process management | `do_exec`, `do_fork`, `do_exit`, `do_kill`, `do_waitpid`, `do_taskset`, `ipc_init/destroy`; `pcb_clear` and `leave_task` are the steps of a death |
| `ProcTable` | abstract | what process calls promise: fresh pids, a process waited for ends first. `Process` implements it (`ProcTableHolds`) |
| `Thread` | threads over `Process` | `do_thread_create/exit/join/yield`, `resume` for the rest of a join after its wait |
| `Waiting` | what IPC sees of the scheduler | `where` each task is, `call` it is in; a blocked task is in one queue, a woken one runs on at any later time |
| `ThreadGroup` | threads, for IPC | `main` says which tasks are threads of one process |
| `Mutex`, `Semaphore`, `Barrier`, `Sync` | `mutex_lk.c`, `ipc.c` | one variable per field of the objects; one action per call, one per resumption; `leave_task` of a process that dies anywhere, `do_thread_exit` |
| `Pipe` | abstract | a bounded byte pipe; `Mailbox` implements it (`PipeHolds`) |
| `Mailbox` | mailboxes of `ipc.c` | the ring byte by byte, both queues, `apply_times`, names |
| `E1000`, `Net` | driver, card, `net.c` | both rings, DD bits, head and tail, ICR and IMS, the three block queues; `Transmit` and `Arrive` are the card |
| `RecvStream` | `do_net_recv_stream` | the list of empty spaces, the buffer, the last ACK and RSD; the network that loses, repeats and reorders, and the sender that sends again |
| `Buddy` | `page_alloc.c` | the free list of each order (`alloc_page` with `split_block`) and the reference numbers |
| `Paging` | `mm.c`, `page_fault.c`, `swap.c`, page tables in exec, fork and death | `pte` per process, `tlb` per core, what each frame holds (`page`), `mem_info`; faults, `cow_check`, stores in user mode |
| `KernelLists` | `libs/list.c` | what `Sched`, the IPC objects and `Net` share: unlinking a node, emptying a list of those who leave |
| `ProcessInv`, `ThreadInv`, `SyncInv`, `MailboxInv`, `NetInv`, `StreamInv`, `PagingInv` | - | the inductive invariant of each component, part by part |
| `ProcessProof`, `ThreadProof`, `SyncProof`, `MailboxProof`, `NetProof`, `StreamProof`, `PagingProof` | - | the theorems of each component |
| `ListLemmas` | - | lemmas about lists, least elements and ring positions that the proofs share |
| `MC*` | - | instances for TLC |

`Process` composes `Sched` with the calls; `Thread` adds to `Process`; `Sync`
composes three kinds of objects over `Waiting`, which abstracts `Sched`: there a
task that was unblocked runs again at some later time, in any order. Every
behaviour of the real scheduler is among those. `Net` has what a stream receiver
does to the rings and queues, among other tasks; `RecvStream` has one such call with
its data, and of the ring only the packets in it. `Paging` composes the calls of `Process`
that touch page tables with `Buddy`; it leaves out lists and waiting.

Definitions named `x_something` that follow the word "Defect" are variants of the
definition after them with a plausible bug; no model uses them. They are there to show
that each property notices when the code goes wrong.

### Deliberate abstractions

- Page tables, stacks and file loading are left out of `Process`: a new process
  is ready or the kernel has stopped (`panic`) for want of a PCB.
- Time is a set `expired` of sleepers whose time has come; any sleeper may expire.
- Programs use IPC objects as the library's callers do: they use objects that
  exist, apply once per lock and release what they hold, pair `down` with `up`,
  and meet at a barrier with as many tasks as its goal. Without this the objects promise nothing.
- In `Mailbox` and `Net` every task is a process of its own; in `Sync` a task may be
  a thread of another one.
- In `Sync` that a process dies is one step: the PCBs are cleared in any order, since a PCB
  that was used before may come before its main thread's. It does not happen while a thread of it
  runs on the other core (`Thread` has that).
- A lookup that finds no free IPC object goes on with an index out of bounds in
  the code (`assert(idx == NUM)` is true there); the models require a free object.
  `Process` takes the step (`corrupt`).
- Kernel code that touches an unmapped user page faults inside the kernel, and
  the fault's handler waits for `giant_lock` for ever; this is not modelled.
- The card (`Transmit`, `Arrive`) is external: it owns descriptors from head up to
  but not including tail, reports an empty transmit ring, and reports when half of the
  receive ring is used; below half it may or may not report again.
- The sender of a stream and the network are external too. A segment is lost only when the ring
  has room for it (otherwise the loss changes nothing); one may arrive again, or be taken by another
  receiver, `MaxFaults` times. Segments of an earlier transfer are not modelled. Before the first
  packet the response carries an uninitialised header: it reaches nobody.
- In `Paging` a call or fault is one step, because of `giant_lock`; exec loads page
  by page with the lock held. A process is its pid, never used again, and so is its page
  table: page-table pages are never freed, and a PCB's table is cleared when it dies.
  A TLB holds only entries that permit writing: others delay a store by a fault that
  changes nothing. All frames hold the same at first. The limit of `mem_info` (1024 sections) is
  not reached. The model ends (`fate`) where an allocation fails, a page is swapped
  out, or a store goes to memory that the process may not write.

## Runs

Every run takes between a few seconds and two minutes or so. Each `pass` run is exhaustive for its
instance.

| Run | Instance | Shows |
|---|---|---|
| `process_table` | 3 PCBs, 4 pids, 2 CPUs | lists, run list and wait lists stay exact while PCBs are used again; `ProcTable` is implemented |
| `process_calls` | 2 PCBs, 3 pids, 1 IPC object, all calls | no task lost or on two CPUs; the inductive invariant of the proofs holds; dispatch is first come first served per core; no sleep is cut short |
| `process_live` | 3 PCBs | ready tasks run, sleepers wake, marked tasks die when they never wait |
| `threads` | 3 PCBs, two thread ids | placement with threads until `do_thread_yield` mixes up two PCBs or the kernel faults; join reaps only exited threads |
| `sync` | 3 tasks of 2 or 3 processes, one mutex, semaphore and barrier | exclusion, token conservation, rounds in step, no waiter out of reach |
| `mailbox` | 3 processes, ring of 3 bytes, 2 names | the ring is a byte pipe whatever wraps; nobody waits for what is there |
| `net` | 2 processes, 2 transmit and 4 receive descriptors, 5 and 6 packets | packets keep their order and are never doubled; whoever waits to send or to receive has an interrupt to come; who is blocked is in one queue |
| `stream` | a file of 5 bytes in 3 segments; buffers of 4, 5 and 7; a ring of 3 | the spaces are what is missing; the buffer gets the file; a response never says too much; the call returns in the end |
| `paging` | 2 CPUs, 3 processes, 8 frames, 3 pages | no page is given out twice, shared pages are never writable, nobody sees another's writes while the TLB agrees with the page table; only processes with orphaned entries swap |
| `kill_marked` (violation) | 3 PCBs | a marked task that waits is never picked again |
| `exit_sibling` (violation) | process with one thread | exit unlinks a PCB that is in no list |
| `fork_tlb` (violation) | 1 CPU, 8 frames | after fork the parent writes to its child's memory through an old entry of the TLB |

**Why the bounds are enough.** Two PCBs are the least with which a task can be
killed by another, three with which a third one waits for it; one pid more
than PCBs makes a PCB be used again. Three processes give a holder, a waiter and
one that overtakes, one object of a kind being enough since objects of a kind share no
state (two kinds meet through a task that dies holding one and waiting in
another). A ring of three bytes wraps messages of one and two; six packets go
round four descriptors. Three segments can be missing on both sides of one that
came, and the buffers are one too small, just right and too large; a ring of three, one of which
is never used, fills and reports. Eight frames let a process be forked twice over and a page that
three share be copied. The pages of the program are left out of the instance of `paging`: they
differ from the page of the arguments only in that they are never swapped out.
`PROC_MAX_PAGE_NUM` is 0 there (16 in the code), since only exceeding it matters.
`MaxPid`, `MaxRounds`, `MaxSends`, `MaxArrivals`, `MaxThreads`, `MaxFaults` bound
counters. `net` ends when they are used up, and `stream` when the call returns, so deadlock
is not checked there.

**Exceptions in the properties.** Some properties name a case in which the code
does fail, as a history variable or a condition on the state. Outside of these cases the
property is exact.

- `m_forgotten`: a lock whose woken task died before it ran; nobody wakes the
  next until somebody else takes the lock. `leave_task` does it to itself, when it wakes a
  thread that it clears next.
- `m_kept`: a lock that a thread exited with. `do_mutex_lock_free` compares `tid`
  (`mutex_lk.c:102`), which is never stored, so it is not unlocked; the slot may pass on to another key
  locked, because `do_mutex_lock_init` does not reset the status.
- `s_lost`: a token that died with its task; `stranded`: waiters that one close too
  many dropped.
- `rx_stale`: `e1000_clear_recv_pkts` starts one descriptor late (`e1000.c:309`): the first
  dropped packet keeps its DD bit and is delivered when the ring wraps, and the tail is
  one too far, so the card may stop. `StreamCompletes` excepts it too.
- `SendersServed`: when all descriptors are filled the tail is at the head, which the card takes for an
  empty ring (`e1000.c:198`): it sends nothing, and the senders sleep.
- `repeated`: a first segment that comes again is copied from behind the header, as if the size
  were not in front of it (`net.c:295`), over data that was right.
- `StreamCompletes` starts with the first packet; before it no response reaches the sender.
- `fate = "leaked"` in `PrivateMemory`: fork flushes no TLB (`fork_tlb` shows it).
- `SwapsOnlyOrphans`: a child's `mem_info` points into its parent's page table. Once the
  parent is dead these entries count as swapped out, and the next fault swaps a page out that
  `swap.c` does not find again, since `mem_num` is always 0.

**Other things the code does**, seen while modelling and not followed further: a message of
`MAX_MBOX_LENGTH` bytes is accepted (`ipc.c:305`) and never fits; a reopened mailbox keeps old bytes
(`ipc.c:240`); no page of a process is freed when it dies (`mem_num` is 0 at
`proc_mod.c:69`), and `kfree` returns early for a block in use; the last page of
kernel memory is handed out again and again (`mm.c:120`); `merge_into_block` compares the addresses
of the nodes, not of the pages; `cow_check` returns with `pud_lk` taken for a large page; a
buffer too small for the file gets data behind its end if other segments come before the first
one.

**Fairness** (`FairSpec` in `process_live` and `kill_marked`, `FairStreamSpec` in
`stream`). Steps of the kernel
are weakly fair: it runs with interrupts off until it returns. The timer
interrupt (`do_scheduler`) of each core is strongly fair: the timer is set again
on every return, but `giant_lock` is a test-and-set lock, so a core waiting
for it finds it free again and again, not continuously. `Expire` is fair since
the clock advances. No program is assumed to make any call. In `FairStreamSpec` the receiver's
steps and `check_recv_stream` are weakly fair (the scheduler runs it, the timer ticks); a
segment that is sent again and again arrives some time (`SF` of `Arrive`), and so does an RSD that is
(`SF` of `Resend`). No interrupt of the card is assumed.

## Proofs

Every theorem below is checked by TLAPS, for all values of the constants that satisfy
the `ASSUME`s of the modules. Each component has an inductive invariant in a module of
its own (`*Inv`), a lemma for every action that keeps it, and one for the step; the
properties that the runs check follow from it. The invariants were model-checked
on the instances of the runs before they were proved.

**Assumptions on constants.** `Sched`: there are PCBs and pids. `Buddy`:
`OrderAssumption`, `BlocksAssumption` (the blocks that boot puts into the zone are aligned and
apart). `Paging`: `PagingAssumption` (the image is a sequence of pages, the heap is finite, `None` is no
entry). `Waiting`: finitely many tasks. `ThreadGroup`: `FamiliesAssumption` (the
main thread of a main thread is itself). `Semaphore`: initial values are numbers.
`Mailbox`: a ring has a byte, messages are sequences of bytes. `E1000`:
`RingsAssumption` (one transmit descriptor, three receive descriptors; the code has 64 of
each). `Net`: programs ask for numbers of packets.
`Thread`: a process creates no more threads than there are PCBs. `RecvStream`: `SegmentsAssumption`
(the sender cuts the file once, into segments that are apart and cover it).

**Processes** (`ProcessProof`). `TypeCorrect`; `Placement` proves `PlaceInv`,
and from it follow `LinkedAtMostOnce` (`OnePlace`), `StatusNamesList` (`StatusOfList`),
`NoTaskLost` (`NoLostTask`) and `WaitersFreed` (`NoOrphanedWaiter`). None of the four is
inductive by itself: `proc_schedule` links the caller, so a task that runs must be in no list;
`pcb_clear` unlinks its PCB, so one that is not the caller must be linked, hence not run on
the other core, hence not have the pid of what runs there. `PlaceInv` collects
what is needed: each live PCB is linked once, in a list its status names, or runs on one core
(`LinkedOnce`, `LinkedByStatus`, `Somewhere`, `RunsAlone`, `RunsNoList`, `RunsLive`); dead PCBs and free
IPC objects have nobody in their lists (`NoWaiters`, `NoBlockers`); live processes have
pids of their own (`OwnPids`, `OldPids`); `leave_task` runs for the caller, or for a process that runs
nowhere (`ClearsSelf`, `ClearsOther`); and so `pcb_clear` never meets an unlinked PCB (`NeverFaults`),
which holds as long as there are no threads.

All but the parts about pids and `NeverFaults` is called `Placed`; it is inductive by itself up to a
fault (`PlacedNext`), which is what threads need.

`StepKinds` sorts the steps by what they do to the lists: a process starts, a PCB is
cleared, or tasks move in one of four ways and nobody begins or ends. Four results follow from the kinds.
`RunListIsExact`: `run_tasks` has the live processes and, from the moment that one is dead until
`leave_task`, that one besides (`RunListInv`); that `leave_task` drops the right entry needs that pids are
their own. `TableIsKept`: `Process` implements `ProcTable` under the mapping of `Table`; a new process
is a `Spawn`, `waitpid` a `WaitFor`, `pcb_clear` a `Die`, every other step a stutter. The step that is not plain
is `WaitFor`: the caller must not be waiting already, which holds because it runs.
`SleepsAreWhole` (`SleepNotCutShort`) needs `SleepsLater`: no time passes between `do_sleep` and the list.
`FirstComeFirstServed` (`DispatchInOrder`) rests on lemmas about the order of a list
(`UnlinkOrder`, `AppendOrder`, `ConcatOrder`): only the task that is picked, or dies, changes its place.

**Threads** (`ThreadProof`). `ThreadPlacement` proves that `Placed` holds of `ThreadSpec` until
the kernel is lost (`StaysPlaced`), and with it `ThreadsStayPlaced` (`ThreadsPlaced`): the proof reuses
`PlacedNext` for the calls of processes, and adds create, exit, join and reap. The condition is
needed: `do_thread_yield` mixes up two PCBs, and `exit_sibling` shows the fault.
`FamilyInv` gives `NoOrphanThread` (`ThreadHasMain`) and `JoinerReapsExited` (`JoinReapsExited`). Neither is
inductive by itself. A process has one main thread (`MainPids`, `HaveMains`), except while it is
being cleared (`Dying`), when `leave_task` takes its PCBs in any order. A joiner that waits is
in the wait list of a live child of its own process, or that child has exited (`Joiners`);
only one joiner can wait for a child, since only the main thread joins and there is one, so nobody
else reaps the child before the joiner runs on. `RunListHasMains` proves `RunTasksExact` with threads as
well: `run_tasks` has the main threads, and while a process is cleared that one's besides, whether it is
dead already or not (`MainsListed`).
These last three, and `FamilyHolds`, assume `"join_any" \notin Calls`: only main threads join, as in
the repository's own programs. The code does not see to that, and without it `JoinReapsExited` and
`RunTasksExact` fail: two threads that join the same third one are both woken when it exits, the
first one reaps it, and the second one reaps a zombie, or the PCB of another process by then
(`thread.c:218`; TLC finds it when `"join_any"` is added to the calls of `threads`, in 13 and 17
steps). `ThreadHasMain` does hold there on the instance; its proof goes through the same invariant.

**Memory** (`PagingProof`). `PageInv` gives `ZoneExact`, `SharedIsForked`, `KernelStackApart`,
`PrivateMemory` and `SwapsOnlyOrphans`. Two parts carry the others: every entry holds a reference
(`References`), so a frame with number 1 has one entry, and an entry that is not marked as
forked is the only one of its frame (`UnforkedIsAlone`), so a store through it reaches nobody else.
`MemInfoValid` says where the pointers of `mem_info` may go after a fork, which decides what
`check_page_full` counts. `SharedIsForked` alone is not inductive: a copy on write clears the mark of
one entry, and only the number tells that no other one is left. `split_block` is proved to
partition its block (`ZoneExact`), for a zone of any shape.

**Locks, semaphores, barriers** (`SyncProof`). `SyncInv` gives `WaitersLinked`, `MutexExcludes`,
`MutexSlotsExact`, `MutexWaitersServed`, `SemaConserves` and `BarrierTogether`. It adds that
nobody is in a call outside of the kernel (`OutsideCalls`), who has applied for
what (`MutexClaims`), that a token on its way is with a task that wakes up in its `down`
(`SemaTokens`), and that of the tasks that have come to a barrier in this round those that no longer wait
there are dead (`BarrierCounts`). Each call touches one kind of object, and leaves the tasks
that are in calls on another kind where they are (`Spares`), so it is looked at for its own kind only.
The death of a process or a thread touches all three; lemmas `DeathQueue`, `DeathMutexes`,
`DeathSemas` and `DeathBarriers` say what becomes of each kind when a set of tasks dies.

**Mailboxes** (`MailboxProof`). `MailboxInv` gives `MboxWaitersServed` and `MboxWaitersLinked`: a `send` wakes
all receivers and a `recv` all senders, so nobody that waits has seen less than what there is
now, except those a close dropped (`stranded`), and these stay blocked (`StrandedStay`).
`RingsArePipes` proves that `Mailbox` implements `Pipe`: the initial states map to initial ones, a `send`
that copies is a `Send`, a `recv` that copies a `Receive`, a reset or a close a `Clear`, and every other step a
stutter. Its heart is that copying byte by byte with indices that wrap appends to, and takes from, the
contents between `begin` and `end`.

**Network** (`NetProof`). `NetInv` gives `TxInOrder`, `RxInOrder`, `SendersServed`, `RxWaitersServed` and
`BlockedQueued`. Positions in a ring are compared by their distance from the head. Since head and
tail are equal both when nothing is pending and when the ring is full, `TxPending` says
how far apart they are in packets; `TxInOrder` alone would not say which. A queue is
only emptied by the interrupt that also disables itself, and a task only joins one after it has enabled
the interrupt, while the ring still is as it looked; that the timer or a death may take one
task out of any queue makes no waiter lose its interrupt.

**Stream** (`StreamProof`). `RecvStreamInv` gives `SpacesExact`, `DataIntact`, `ResponseCovered` and
`ReturnsWhole`. `SpacesExact` is not inductive: `occupy_space` ignores a segment that is not all in one space,
so one has to know that each segment is missing as a whole or not at all (`SpacesFit`), and, until
the first segment tells the size, that what is behind the file is one space too. Lemma `OccupySpace` says
what one call does to any list in order: it stays in order, and of the missing bytes exactly those
of the segment go. A response names the start of the first space, before which nothing is missing.

**Left to TLC.** Liveness (`ReadyTaskRuns`, `SleeperWakes`, `StreamCompletes`, and
`MarkedTaskDies` of `kill_marked`) needs fairness and ENABLED, which the prover does not
reach. Nothing here needs induction over data beyond the recursive function of `KernelLists`, whose
properties are proved by induction on the length in set form. Every
other property of a passing run is stated by a theorem. No module uses a RECURSIVE operator.

## Not modelled

- The kernel heap and kernel pages: nothing is ever given back, so both are counters that grow.
- The swap space: a page that goes there is never looked for again, and the model ends.
- `free_page` and `merge_into_block`: only that swap reaches them.
- `unoccupy_space_after_ACK`: nobody calls it.
- Threads in `Mailbox`: a thread that exits forgets the mailboxes it has opened, which stay open.
- Boot, the screen, console and PLIC drivers, the shell, the test programs and the user library
  (sequential, or pure input and output), `do_process_show`, and the host tools.
- The stages before Project 5: each is a snapshot of the same kernel that the next one extends, so
  most of the repository's lines are earlier versions of what is modelled here. Each stage also carries
  the same third-party compression library and test programs; Project 5's own kernel is about a tenth of
  the repository.
