# Freeuni assignments: a verification project

The repository collects the assignments of several university courses. Its one
large program is a complete Pintos kernel (`Operating Systems 2020 Spring`);
beside it are networking programs in Python, concurrency assignments in Java and
C, and many small exercises. This project specifies in TLA+ the parts whose
correctness rests on interleavings, failures and ordering, checks them with TLC,
and proves the central facts with TLAPS for every value of the constants.

Paths below are relative to
`src/Operating Systems 2020 Spring/pintos-os3-master/pintos/src/` unless they
start with `src/`.

## Inventory

| part | state | operations | what makes it hard |
|---|---|---|---|
| scheduler, `threads/thread.c` | `status`, `ready_list`, `priority`, `idle_thread`, `cpu_ready_count`, `thread_ticks` | create, block, unblock, yield, exit, set_priority, schedule, thread_tick | preemption between any two instructions with interrupts on; one `elem` for two lists; boot before idle has run |
| semaphores and locks, `threads/synch.c` | `value`, `waiters`, `holder`, `waitingFor`, `ownedLocks`, donated priorities | sema_down/up/try_down, lock_acquire/try_acquire/release, donate | windows between the writes of one call; donation along chains; recomputation on release |
| timer and interrupts, `devices/timer.c`, `threads/interrupt.c` | `sleeping_threads`, `ticks`, `yield_on_return` | timer_sleep, timer_interrupt, intr_handler | the handler runs between any two steps and calls sema_up |
| condition variables, `threads/synch.c` | `waiters` of semaphore_elem | cond_wait, cond_signal, cond_broadcast | the waiter is listed before it waits |
| feedback scheduler, `threads/thread.c`, `fixed-point.h` | `nice`, `recent_cpu`, `load_avg` | per tick, per second and per fourth tick updates | 17.14 arithmetic, unclamped priorities |
| processes, `userprog/process.c`, `thread.c` | `process_info_t`, child lists, the exec handshake | exec, wait, exit | parent and child free shared structures in either order |
| system calls, `userprog/syscall.c`, `exception.c` | descriptor table, one global file lock | open, close, read, write, seek, tell, mmap | faults inside a call, descriptor reuse and limits |
| virtual memory, `vm/` | frames, supplemental pages, swap slots | install, evict, swap in and out | eviction against concurrent faults |
| file system, `filesys/` | open inodes and counts, free map, directories | create, open, remove, close, deny_write | removal of open files, failure half-way |
| interrupt queue, `devices/intq.c` | ring buffer, one waiter per condition | intq_getc, intq_putc | thread against handler |
| allocators, drivers, boot | free lists, device registers | | locks around plain data; port input and output |
| transport protocol, `src/Computer Networking 2019 Fall/RTP Protocol` | sender window, receiver buffer | send, acknowledge, retransmit, expire | loss, duplication, reordering, early timeouts |
| distance vector router, `src/Computer Networking 2019 Fall/Routing` | tables per router and link | update, link up and down, expiry | convergence, counting to infinity |
| HTTP, DNS, firewall (same directory) | caches, parsers | | mostly parsing and sockets |
| bank of tellers, `src/Programming Paradigms 2018 Fall/Assignment 6` | balances, branch totals | deposit, withdraw, transfer, report | locks per account and branch |
| Java assignments, `src/Object Oriented Programming 2019 Spring` | queues, latches, boards | | worker pools; otherwise sequential |
| small exercises (abstractions, paradigms) | | | sequential, over a vendored library |

How they interact: interrupt handlers call `sema_up`, which calls
`thread_unblock` and asks for a yield when the interrupt returns; locks are a
semaphore and a holder and call the scheduler through `thread_block`; donation
changes the priority of threads on the run queue; `thread_create` takes
`tid_lock`; processes, the file system, virtual memory and the drivers are
clients of locks and semaphores.

## Plan

Modules in the order they are written; each later one is a client of an earlier
one or independent of it.

| # | modules | composes, abstract specification | properties and runs | theorems |
|---|---|---|---|---|
| 1 | `ThreadLists`, `Threads`, `Synch`, `Kernel` (done) | `Kernel` extends `Synch` extends `Threads`; `SynchSpec` is what synch.h promises | `locks`, `scheduling`, `round_robin`, `donation` and one finding | every safety property (`HighestRuns` where `donate` raises no ready thread in place), and that `Kernel` implements `SynchSpec` (done) |
| 2 | `Rtp` (done) | a sender, a receiver and a channel | `rtp_transfer` | every safety property of the run, for every file length and window (done) |
| 3 | `Processes` (done) | uses semaphores and locks as `SynchSpec` gives them; `WaitSpec` is what wait promises | `processes` | `NoUseAfterFree`, `NoLeak`, and that `Processes` implements `WaitSpec`, for any number of processes (done) |
| 4 | `Bank`, `BankReports` (done) | workers over mutexes | `bank`, one finding | every safety property of the run, and no circle of waiting workers, for any number of workers, branches and accounts (done) |
| 5 | `Files` (done) | system calls, descriptors, inodes, the free map and the disk in one machine, with power failures | `files`, one finding | every safety property of the run, for any number of processes, names, sectors and descriptors (done) |
| 6 | `Routing` (done) | routers over links that fail | `routing` | no cost below the real one, and that the distances are the greatest lower bound, on every network (done) |
| 7 | condition variables, `intq.c` | clients of `Synch`: a monitor, and a thread against a handler | no signal is lost; nothing lost or reordered | refinement of a bounded queue |
| 8 | feedback scheduler | fixed-point operators against exact rationals, and the periodic recomputation | priorities stay within bounds | lemmas on rounding |
| 9 | Java worker pools | small separate models | each job run once | |

A run belongs to a component and not to a property: there are few, and each asks
several questions of one instance.

## Modules

| module | models |
|---|---|
| `ThreadLists` | `list_insert_ordered`, `list_max`, `list_remove` on lists of threads with the comparators the kernel passes |
| `Threads` | `thread.c`: the run queue, `schedule`, block, unblock, yield, exit, the tests behind preemption |
| `Synch` | `synch.c` and the calls of `thread.c` that use it: semaphores, locks, donation, `thread_create`, `thread_set_priority` |
| `Kernel` | the whole kernel core: boot, idle, interrupts, timer, and the clients that call it |
| `SynchSpec` | what semaphores and locks promise: counted tokens and locks with one owner, each call atomic |
| `KernelProperties` | every property of the kernel core, its fairness, and the refinement mapping to `SynchSpec` |
| `MCKernel` | the instances TLC checks |
| `KernelProofs` | what the list operations do, that the kernel is type correct, locks, donation and the refinement of `SynchSpec` |
| `QueueProofs` | proofs about the lists, the sleepers, the ready count, wake-ups and who runs |
| `Rtp` | the reliable transport protocol: `Sender.py`, `Receiver.py` and the channel between them |
| `RtpProperties`, `RtpProofs` | its properties, and their proofs |
| `Processes` | exec, wait, kill and exit of user processes and the two heap objects that parent and child share |
| `WaitSpec` | what wait promises: the first wait for a child is answered with its exit code, every other with -1 |
| `ProcessProperties`, `ProcessProofs` | the properties of `Processes` with the refinement mapping to `WaitSpec`, and their proofs |
| `Bank`, `BankProperties` | the workers of the bank, their commands and the mutexes of accounts, branches and the bank |
| `BankProofs` | proofs about `Bank` |
| `BankReports` | the meeting of the workers for a report, and the log of transfers |
| `Files`, `FileProperties` | file system calls of processes down to the writes to the disk, loading, exits, power failures |
| `FileProofs` | proofs about `Files` |
| `Routing`, `RoutingProperties` | the distance vector routers, their links and timers |
| `MCRouting` | the ring of routers TLC checks |
| `RoutingProofs` | proofs about `Routing` |
| `Induction` | induction over numbers and finite sets, and sums over finite sets, for the proofs about `Bank` and `Routing` |

### How the kernel model corresponds to the code

Pintos runs on one processor, so code with interrupts off is atomic. The model
cuts each thread's code exactly where an interrupt can arrive: one action is the
code between `intr_disable` and the matching `intr_set_level`, and a context
switch ends an action. `pc[t]` names the place thread `t` is at; only `current`
moves, and `TimerInterrupt` can come at every place that is not in `IntrOff`.
The interrupt handler is itself three kinds of steps, so a tick that wakes two
sleepers is four steps with no thread step in between (`in_intr`).

* `Down` is one turn of the `while` of `sema_down`, with `thread_block` and the
  switch inside; a woken thread repeats it. For a lock's semaphore the successful
  turn also does the end of `lock_acquire`, because `lock_acquire` keeps
  interrupts off around both.
* `Donate` is one turn of the loop of `donate`; interrupts are off throughout, so
  no other step comes in between. It reinserts a raised thread in the run queue
  only where the code does.
* `lock_release` is `LockReleaseHead` (holder and list of owned locks), `Up`
  (`sema_up`), the yield test and the yield of `sema_up`, `Recalculate`, and
  `AssignPriority`, each preemptible.
* `ThreadCreate`, `CreateRelease` and `CreateUnblock` are `thread_create` around
  `allocate_tid`; a page is named by the thread that lives on it.
* `t->ownedLocks` is derived from `holder`: both change in the same step.
* Ticks are kept as what remains of each sleep, which is all the handler compares.

Clients are nondeterministic: from `run` a thread makes any call of `Ops`. They
keep the discipline the code asserts or needs: they release only locks they hold
(`lock_held_by_current_thread`), do not acquire a lock they hold, nest locks by
`LockRank`, and exit without locks. Abstracted: names, tids, stacks, the magic
number, the page lock of `palloc` (a lock like `tid_lock`), the time bookkeeping
of `thread_tick`, and everything under `thread_mlfqs`.

### Runs of the kernel

`MCKernel*.cfg` instantiate the kernel with three client threads (main and
two others) beside idle, one or two client locks, two or three priorities and time slices of one
or two ticks. Two clients contend, three make a donation chain and a middle
priority; a slice of one tick preempts at the earliest and is the hardest case,
two ticks let a thread run undisturbed.

| run | question |
|---|---|
| `locks` | do locks keep one owner, and donations their floor and their end, under preemption, nesting, try-lock, changes of priority, creation and exit; does the inductive invariant of the proofs hold |
| `scheduling` | are wake-ups lost; are the lists and the ready count consistent; does the highest ready priority run in client code; do semaphores and locks implement `SynchSpec` |
| `round_robin` | do sleepers wake in order and on time; does every ready thread run and every sleep end |
| `donation` | does the thread of highest priority get the lock it finds held, in the presence of a middle one, when clients create threads, lock and sleep; the two ways it does not are excepted by name, see Findings |
| `lost_donation` | where the code does not do what the tests say, see Findings |

Bounds: `MaxValue` caps the value clients raise a semaphore to (2 in `scheduling`,
so that it can be raised again before a woken thread has taken it); `Naps` are the sleeping times (1 and 2: equal and
different deadlines); `Priorities` are those the clients pass. Nothing else is
cut: the state spaces are finite and explored completely. Deadlock is checked in
every kernel run: idle and the timer always have a step.

### Fairness of the kernel

`Fairness` assumes of the hardware that timer interrupts keep coming
(`SF_vars(TimerInterrupt)`) and that a handler runs to its end, and of each
thread that if it runs again and again it executes the kernel code it is in.
Strong fairness is needed because a preempted thread's step is disabled and
enabled again. Nothing is assumed of clients, except in `donation`, where a
client that keeps running releases the lock it holds (`ClientsRelease`, one condition
for each lock, since only its holder can release it).

### What is proved

* `KernelProofs` begins with the lists: what `InsertAt`, `RemoveAt`, `Front` and `Last` do to
  length, type and the set of elements, that a list with no element twice stays one,
  and that `list_insert_ordered` keeps `sleeping_threads` in order, for every sequence.
* `KernelProofs!TypeCorrect`: `Spec => []TypeOK`. `TypeOK` is not inductive: a
  switch with an empty run queue runs `idle_thread`, so one must know that idle
  has set it (`IdleReady`); the calls index arrays with `arg` and `child`, so one
  must know what those are at each place (`CallsWellFormed`); and a page must not
  be reused while a thread is being created on it (`NewbornsDormant`). `TypeInv`
  is the conjunction; `TypeInvStep` has one step per action.
* `KernelProofs!MutualExclusion`: `Spec => []LockOwnership`. The invariant speaks of
  who *claims* a lock: its holder, or a thread between the two writes of
  `lock_try_acquire` or of `lock_release`. It is inductive with `ClaimsApart`,
  which says that those two are never the same thread twice.
* `KernelProofs!PriorityFloor`: `Spec => []DonationFloor`, strengthened by
  `StoreFloor`: the priority that `lock_release` has computed and not yet stored
  is not below the thread's own either.
* `KernelProofs!KernelInvariant`: `Spec => []KernelInv`, the three together.
* `KernelProofs!DonationsAreReturned`: `Spec => []DonationReturned`. `RepaidInv` says
  that a thread which owns no lock has its own priority or is on its way through
  `lock_release` to storing just that (`Repaid`), and that `donate` raises, but for
  the thread that runs it, only threads that own a lock (`RaisesOwner`): the owner
  it follows from a lock to a waiting thread to the next lock has not let go.
* `KernelProofs!SynchImplementsSpec`: `Spec => ImplementsSynchSpec`. Who claims a lock
  says who owns it (`OwnerLemma`), so each action is shown to change the claims, the
  counts and what is asked for in one of six ways (`SilentMaps`, `AskingMaps`,
  `TakingMaps`, `DowningMaps`, `UppingMaps`, `FreeingMaps`), a stutter or a step of
  `SynchSpec`. That a lock is free when it is taken is `LockInv`.
* `QueueProofs!OneListEach` and `WaitsAreOrdered`: `Spec => []ElemExclusive` and
  `Spec => []WaitForOrder`. `QueueInv` adds what the place of a thread says of its
  lists (`PlaceOK`): it is on a wait list only within `sema_down` of that
  semaphore, it waits for a lock exactly from the head of `lock_acquire` to the
  taking of the semaphore, idle calls nothing that blocks, and the thread being
  created is on no list. Without it a switch might run a thread that waits.
  `ScheduleLinks`, `YieldLinks`, `UnblockLinks` and `LeaveLinks` treat the ways a
  thread changes lists, `MoveLemma` and `QuietMove` everybody who does not.
* `QueueProofs!SleepersAreOnTime`: `Spec => []SleepersOnTime`. `SleepInv` adds that a
  thread's own semaphore is downed by itself alone and upped only after the clock
  has taken it off the list, so nothing else wakes it.
* `QueueProofs!CountIsExact` and `WakeupsAreKept`: `Spec => []CpuReadyCountExact` and
  `Spec => []NoLostWakeup`. Both need to know who becomes runnable and who stops
  being so in a switch (`ScheduleRuns`), and `Booted`: once idle has set
  `idle_thread` it does not set it again, which would take it out of the count
  twice. That a wake-up is kept is a count: `sema_up` adds one to the value and
  one thread to those that retry, and a thread that retries either takes one or
  finds none left.
* `QueueProofs!HighestPriorityRuns`: `Spec /\ []~RaisesInPlace => []HighestRuns`.
  `HighestInv` says that `ready_list` is in the order of the priorities, which makes
  its last thread the one to run (`ScheduleLeads`), and that the running thread
  leads it (`Led`) except between a step that makes a thread ready or changes a
  priority and the `yield_if_necessary` after it, or in a handler that has asked for
  a yield. `RaisesInPlace` is the branch of `donate` at `threads/synch.c:234-236` on
  a ready thread it does raise; it is the only step of the kernel that breaks the
  order, and with client locks `HighestRuns` is false (see below). It does not occur
  in the run `scheduling`, where the property is checked: nobody waits for
  `tid_lock` there.

The kernel proofs assume only `ThreadsAssumption`, `ThreadsFinite`,
`SynchAssumption` and `KernelAssumption`: distinct names, `PRI_DEFAULT` within its
bounds, a positive slice, finitely many pages for threads (for the two theorems
that count), and `tid_lock` above every other lock in the nesting of locks, because
`allocate_tid` takes nothing while it has it and any thread may create another while
it holds other locks. TLC checks `KernelInv`, the conjunction of the inductive invariants, in
the run `locks`.

For the transport protocol, `RtpProofs` proves `Spec => []RtpInv` and from it
`WrittenInOrder`, `SenderLagsBehind`, `DeliveredWhenDone`, `WindowKept` and
`FileOnlyGrows`, for every length of the file, window, retransmission limit, mode
of acknowledgement and number of losses and duplicates, from `RtpAssumption`
alone. None of the four invariants is inductive: that nothing written is lost
rests on nothing but syns being under way while the sender shakes hands
(`HandshakeInv`); that what arrives lies in the window, on acknowledgements and
the numbers in them never running ahead of the connection (`ConnectionInv`); that
the fin is not acknowledged early, on nobody having seen it before it is sent
(`FinInv`). The step of `HandleDat` rests on two lemmas: the scan of
`Connection.ack` takes an interval that starts after the last number written
(`RunInterval`, `AckedFacts`), and sorting an interval gives its numbers in order
(`SortedInterval`).

For the bank, `BankProofs` proves `Spec => []BankInv` on the way to three
theorems, and with it `Spec => []SumInv` on the way to two more, from
`BankAssumption` alone. `BankInv` says of each worker what its place
implies (`PlaceInv`), which mutexes it has there (`HoldInv`, with `Holding` read off
the place), and what its register and its test of the balance still say because of
them (`RegInv`): `WithdrawalsCovered` needs the last, as the balance is tested two
steps before it is written. A step of one worker leaves alone the other workers,
their mutexes and the balances under them (`Frame`), so the others keep their part
(`FrameLemma`), and each kind of step has a lemma for the worker itself. `NoOverdraft`
and `AdjustmentsAddUp` follow. `NoCircle` (`NoCircleOfWaiters`) needs the converse of
`HoldInv` too: what a worker owns is what it holds by its place (`OwnedInv`), so every
mutex is given back. A worker waits only for a mutex that comes after all it holds
in one order, branches before accounts before the bank, with the numbers deciding
among branches and among accounts (`Before`, `WaitsInOrder`). Of the mutexes that
workers of a set wait for, one comes last (`LastLock`): none of them holds it, as its
holder would wait for a later one.

`BranchesAddUp` (`BranchesAgree`) and `BalanceIsExact` (`BankBalanceExact`) are about
sums, and sums hold between operations only. `SumInv` says what is missing in
between, read off the place of the worker that has the mutex: `Pending` is the
change an account has had and its branch has not, or the second half of a transfer
inside a branch; the balance of a branch is at every moment the sum of its accounts
as they will be when that is settled (`BranchSums`). `InTransit` is what a transfer
has taken from one branch and not given to the other; with it the branches add up to
the amount the bank opened with (`BankSum`). `Running` is what a worker in
`Bank_Balance` has added up so far: no branch changes under it, since a transfer
needs `bank_bal` and a deposit is of nothing while no funds flow. A step either
changes no balance and leaves nothing half done (`Still`) or writes one
(`WriteSums`, `WriteBranchSums`).

`Induction` has what these proofs need of numbers and sets. A property proved by
induction is given as the set of those that have it, so that no operator is a
parameter of a lemma: `LeastNumber` and `UpTo` for numbers, `LeastSet`,
`SubsetInduct` and `FiniteInduct` for the subsets of a finite set. From these follows
what `SumFunctionOnSet` of the community modules computes: its recursion has a
solution (`SumExists`), any element may be taken out first (`SumRemoves`, `SumFacts`),
and a change at one place changes the sum by as much (`SumChanges`).

For the processes, `ProcessProofs` proves `Spec => []ProcessInv` and from it
`ObjectsAlive` (`NoUseAfterFree`), `SomebodyFrees` (`NoLeak`), `TypeCorrect` and
`WaitImplementsSpec` (`ImplementsWaitSpec`), for every set of processes, from `ProcessAssumption`. The families come
first: each process has one parent, which is either still in `process_execute` or has
it once in its list (`FamilyInv`). A child is *minded* while its parent is to call
`ProcessInfoTryToDestroy` for it. Then `InfoInv` says when `process_info_t` lives (the
child is not dead or is minded) and what `someone_died` means, and `DestroyInv` that the
copy of `someone_died` a process took under the lock still says whether it is the last
(`IsLast`) when it frees, though the lock has been given back. That rests on `Apart`: no
two processes are between the lock and the free of one object. `LoadFailed` is what
makes the invariant more than a count of two: a child that was not loaded has no parent
there and counts for both. For the refinement, `CodeInv` says that `wait_lock` is up
only for a process that has exited and that its code then stands in `process_info_t`,
and `WaitInv` that a parent past `sema_down` waited for one that has exited and whose
`observer_seen` is not set yet; each kind of step has a lemma saying which step of
`WaitSpec` it is (`StartMaps`, `AskMaps`, `DeliverMaps`, `RefuseMaps`, `LeaveMaps`,
`ExitsMap`) or that it is none (`SilentMaps`, `QuietMaps`).

For the routers, `RoutingProofs` proves that any potential that is zero at the host
and that no link undercuts bounds from below every cost in a table and on a link
(`NoShortcuts`). The costs on the links belong to the invariant because a late
packet is believed as a new one is. The distances are such a potential, and the
greatest (`DistanceIsGreatestBound`): there is a greatest one among all that stay
within `Far`; computing one more hop never goes below it; and after k hops the values
of k + 1 nodes, those nearest to the host, have come down to it. Hence `CostsReal`
(`CostsAreReal`) for every finite network, all latencies and every `INFINITY`
(`RoutingAssumption`), and that what `RoutesFound` compares with is the distance one
would want.

For the file system, `FileProofs` proves `Spec => []IInv` and from it
`SectorsHaveOwners` (`SectorsOwned`), `LeaksAreKnown` (`OnlyKnownLeaks`),
`DiskStaysConsistent` (`DiskConsistent`) and `TextStays` (`TextUnchanged`), for any
number of processes, names, sectors, descriptors and directory entries and any sizes,
with `process_exit` under the lock or outside it. The hypothesis of each is `"load"
\notin Unlocked`, as in the run `files`; without it they are false (`late_write`).
`SectorsOwned` is far from inductive. Whether a file's sectors may be given back
depends on `open_cnt`, so the references to an inode are made explicit, as pairs of a
process and the place where it keeps one (a descriptor, its executable, the inode
`dir_remove` has open), and `Counted` says that `open_cnt` and `deny_write_cnt` are
their cardinalities. That the last to close a removed file may free its sectors rests on
`Remembered`: an open inode is a copy of the one on disk, marked removed only when no
name is left. What a process has read is still so when it uses it (`Fitting`), because
at most one process is in a handler or in `load` (`Excluded`). `Owner` says that every
sector in use has one owner, a file or a process that makes or frees one, or is leaked;
`Saved`, which of them the free map on disk has at each place of `filesys_create` and
`inode_close`. A step opens a reference, closes one, moves sectors from one owner to
another, or does none of these, and there is one lemma for each kind (`OpeningStep`,
`ClosingStep`, `SectorStep`, `QuietStep`). `Booted` shows that what a power failure
leaves is a state to start from, and so that `Init` is.

Only proved: the inductive invariants but `KernelInv` are in no run of their own; the
properties that follow from them are. Only model-checked: the liveness properties,
which rest on fairness and are out of the prover's reach.

### Findings in the kernel

* `lock_release` stores the computed priority with interrupts on
  (`threads/synch.c:286`); a donation in between is overwritten and the waiter
  outranks the holder until the next release (`lost_donation`). The waiter may then
  starve: main (0) holds `l1`, creates b (1), and is at the store for `tid_lock` when a
  tick wakes a (2); a waits for `l1` and raises main to 2, main stores 0, unblocks b,
  and b runs for ever. `TopGetsLock` therefore ends its promise at a stale store
  (`StaleStore`).

Observed while modelling, in the model as the code has it and without a run of
their own:

* `donate` raises a ready holder without moving it in `ready_list`
  (`threads/synch.c:234-236`), so the list `list_insert_ordered` works on is not
  sorted and a raised holder may not be the next to run. `HighestRuns` is
  therefore checked where no client waits for a lock, and proved where `donate`
  never does this.
* Between `lock->holder = NULL` and `sema_up` (`threads/synch.c:279-282`) a thread that
  acquires the lock finds nobody to donate to and waits. If a tick lets a thread of a
  middle priority run there, the releaser never gets to its `sema_up`, and the highest
  thread waits for a lock that has no holder: main (0) is preempted there, a (2) wakes
  and waits, and b (1) runs for ever. `TopGetsLock` therefore speaks of a thread that
  finds the lock held; without that condition TLC finds this behaviour.
* `thread_priority_cmp` answers `<=`, so `list_max` returns the last maximum and
  `sema_up` wakes the waiter that came last.

## The transport protocol

### Correspondence

Both programs are loops around `recv`, so one action is one turn of a loop:
`HandshakeTimeout`, `HandshakeReply`, `Timeout` and `ReceiveAck` are the sender's,
`HandleSyn`, `HandleDat` (which is also `_handle_fin`, line by line the same) and
`Cleanup` the receiver's. A chunk is its number. `ReceiveAck` is the whole turn:
the sacked chunks, the break, the fast retransmission, the window and the fin.
`Connection.ack` is the operator `Acked`, its scan over the sorted buffer
`Run`, what it hands to `record` `Chunks`.

The channel is a set in each direction. `Lose` drops a packet; a packet whose
checksum fails is the same to the receiver, and to the sender the same and a
timeout. `Take` may leave a packet in the channel: a duplicate, or a second copy
that was sent while the first was on its way. At most `MaxDups` of these are made
in a run. Timeouts are early: the sender may time out whatever the channel holds.
`Cleanup` needs an empty channel, because a connection expires after 10 seconds
and no packet is taken to live that long; without this a connection would be set
up again by an old syn. `times_received` is kept for chunk numbers only, nothing
reads it for others. A file has at least one chunk: `start` fails on `cache[1]`
of an empty one.

### Runs

`rtp_transfer` has three chunks, a window of three, a retransmission limit of two,
both acknowledgement modes and one duplicate, and lets connections expire: the
window then reaches past the end of the file, is cut by sacks, and the fin is sent
with the last chunks. The code's 7 and 4 only make the same cases longer. Its
fairness: `recv` times out when nothing comes (weak fairness of the two timeouts),
and a packet that is sent again and again arrives (strong fairness of its
handler), which is all a retransmission protocol can ask of a channel. A sender
that has ended and a receiver that hears nothing is the end of the system, so
deadlock is not checked.

`TransferEnds` says that the transfer ends unless the connection expired in the
middle of it: after that the sender repeats its chunk for ever and is never
answered, since a syn is only sent in the handshake. What is not promised: the
receiver need not have the fin when the sender stops, since it is sent once and a
timeout after the last chunk ends the loop. The file is complete in that case
(`DoneMeansDelivered`).

Observed while modelling: a sack lists the chunks the receiver *has* buffered
(`Receiver.py:38-40`); the sender sends exactly these again and shrinks its
window by their number.

## Processes

### Correspondence

`process_execute` and `start_process` meet in `process_aux_t`: `Exec`, `ExecDown`
and `ExecReturn` are the parent's steps, `Load`, `Signal` and `LoadFailed` the
child's. `WaitCall` is the system call wait and the call in `run_task`, for any
number; `process_wait` is `Wait` (the search of the list, which only its owner
changes), `WaitDown` and `WaitReturn`. `exit_process` and the kills of
`terminate_if_invalid` and `exception.c` are `ExitProcess` and `Kill`, and both go
on to `thread_signal_observer` (`NotifyCode`, `NotifyUp`), `process_exit` and
`thread_destroy_userprog_features`, whose loop is `Target` and `DestroyNext` and
whose body, `ProcessInfoTryToDestroy`, is cut at every access to `process_info`.
Both objects are named after the child, as each child has exactly one of each.
Semaphores and locks are atomic here, as the kernel run `scheduling` shows them
to be through `SynchSpec`. Left out: names and arguments, `load` itself (its
outcome is a choice), page directories, open files, failing allocations, and a
`thread_create` that fails, after which everything is freed again and nothing
remains.

### Runs

`processes` has the initial thread and two processes, which the initial thread or
the first of the two may start: siblings, and a chain of three. That is a parent
that is itself a child, which is every role there is. One exit code beside -1 is
enough, as codes are only copied. Fairness is weak fairness of the kernel code of
each process: all processes have the same priority and `round_robin` shows that
such threads all run. Nothing is assumed of user programs, which may loop, exit
or be killed at any time. All processes may end, so deadlock is not checked.

`ImplementsWaitSpec` says that wait does what the comment of `process_wait` says, as
a refinement: a wait is answered with the child's exit code if the child is in the
list of the caller and no wait for it was answered before, not earlier than the
child has exited; in every other case, and only then, the answer is -1. So an
answer of -1 to the first wait for a child that exited with another code, and a code
given twice, both violate it. A code counts as left once `thread_signal_observer` is done. That
a wait is answered at all is `WaitReturns`.

Observed while modelling: `process_exit` reads `cur->process_info->exit_code`
(`userprog/process.c:236`) for every thread that ends, and main and kernel threads
have no `process_info`. The run lets the initial thread stop there and goes on with
the others.

## The bank of tellers

Paths are relative to `src/Programming Paradigms 2018 Fall/Assignment 6/code/`.

### Correspondence

`Bank` is `teller.c` with what it calls in `account.c`, `branch.c` and `bank.c`,
and the loop of `Worker`. A step is one operation on a mutex or one access to a
balance, so `Account_Adjust` is four steps: read and write of the account, read
and write of the branch. The mutexes of a command are the sequences `LockOrder`
and `UnlockOrder`, translated case by case from the branches of
`Teller_DoTransfer`; which of two accounts has the higher address is their place
in the branch's array. `CheckLock` and `Check` are the first look of a transfer at
the balance, under a lock it gives back. `Worker` compares what `Bank_Balance`
answers with the amount the bank opened with when it runs in the mode where no
funds flow (`ACTION_NO_FUNDS_FLOW`), and `balanceErrors` holds the workers whose
comparison fails. Commands are drawn at random in the code and chosen here.

`BankReports` is `report.c`: one step is an access to `workersFinished`,
`numReports` or `favWorker`, or a critical section around accesses nothing outside
of it races with.

### Runs

`bank` has two workers, two branches with two accounts each and one command per
worker: two transfers in any direction, inside a branch and across, are all the
ways in which the order of mutexes can make a circle of two; `NoCircleOfWaiters`
is read off `owner`, so a mutex that is never given back violates it as well, and
larger circles are left to the proof (`NoCircle`); amounts of one and two
with two in each account make every test of a balance go both ways. Fairness is
weak fairness of each worker, a thread of the operating system. The state in which
all have ended stutters (`Joined`), so deadlock is checked.

`bank_reports` (finding): the last worker to arrive is found by a count that is
raised under one mutex, tested under another and reset under none. When two
workers have counted before either tests, both are the last; the second to pass
overwrites `favWorker`, and the first goes back to work before a report is written.

Observed while modelling: a transfer tests the balance under a lock that it gives
back (`teller.c:102`), so two transfers may overdraw an account. Nothing in the
source promises otherwise; a withdrawal does keep its promise
(`WithdrawalsCovered`).

## Files

### Correspondence

`Files` puts `userprog/syscall.c`, `load` and `process_exit` of
`userprog/process.c`, `filesys.c`, `directory.c`, `inode.c`, `file.c` and
`free-map.c` into one machine. A step makes at most one write to the disk. That is
where the driver blocks and another process may run, and where the power may fail:
`PowerFailure` keeps the disk (`entries`, `inodeData`, `diskMap`) and starts the
memory anew, as `filesys_init` and `free_map_open` do at boot. `WriteFreeMap` is the
second half of `free_map_allocate` and `free_map_release`; `write_map` says that a
process owes it and does nothing else before.

The handlers take `file_lock_global` (`Enter`, `Return`). `load` and `process_exit`
do not. `Unlocked` names which of these two may run beside another process that is
in the file system: `{"exit", "load"}` is the code as it is, `{"exit"}` leaves out
what `late_write` finds, so that the rest can be checked. A read or write through a
closed descriptor faults inside the handler and ends the process with the lock in
its hands (`Fault`): no handler runs again until the next boot. That is modelled as
it is, and the properties hold in it.

`CloseInode` is `file_close` with `inode_close`, up to the first write of the free
map; `ReleaseData` is the second. It has four callers: `Close` (the handler),
`CloseRemoved` (the end of `dir_remove`), `CloseDescriptor` (one turn of
`free_file_descriptors`) and `CloseExecutable`. The file that `load` opens is
`thread_owned_exec` from the start, with `deny_write` as the flag of the same name in
`struct file`. An exit, a fault and a failed `load` all go on to `CloseDescriptor`
until no descriptor is left (a failed `load` has none), then to `CloseExecutable` and
`Exited`.

Left out: the contents and offsets of files (no property tells them apart), so
`read`, `seek`, `tell` and `filesize` change nothing; names beyond two; `mmap`. Creation
with a size that fits no run of free sectors, a taken name and a full directory all
fail where the code fails. `load` may give up before or after `file_deny_write`.
The list of open inodes changes in one piece: with exits outside the lock, two
processes can also meet inside `inode_open` and `inode_close` between instructions,
which this grain does not show.

### Runs

`files` has two processes, two names of which one is the program on the disk, four
sectors, files of one data sector and at most two opens per process. A second file
fills the disk, so allocation fails at either of its two places; a name can be
removed and created again while it is open; and the directory can be full. Both
processes play the same part (symmetry). Everything is safety, so no fairness.

`late_write` (finding) adds `load` to `Unlocked`: a writer has passed the test of `deny_write_cnt` and waits for the
disk while another process loads the file, denies writes and starts. With
`SectorsOwned`, `OnlyKnownLeaks` or `DiskConsistent` in place of `TextUnchanged` the
same instance shows `load` opening an inode that was removed since it was looked up.

Observed while modelling: `filesize`, `seek` and `tell` of a closed descriptor fail
an assertion and stop the machine (`filesys/file.c:146-167`); `filesys_create` gives
back the inode's sector and not the data's when the directory entry fails
(`filesys/filesys.c:53`, the leak `lost` counts); a read from descriptor 0 waits
for the keyboard with `file_lock_global` held (`userprog/syscall.c:313-317`); `last_fd`
only grows, and the open after the last entry of `fd_arr` writes over `last_fd`
itself, which follows it in `struct thread` (`threads/thread.h:164-165`): `MaxOpens`
keeps below that.

## The distance vector router

Paths are relative to `src/Computer Networking 2019 Fall/Routing/simulator/`.

### Correspondence

`Routing` is `dv_router.py` over the simulator's links. Routes to different hosts do
not affect each other, so there is one host. A port is named by the neighbour at its
other end. `HandleRx` takes the next packet of a link, which delivers in order
(`BasicCable`) and loses what is on it when it goes down (`LinkDown`, with
`handle_link_down` of both ends); `LinkUp` is `handle_link_up`, and the host's hello
when the link is its own. `HandleTimer` is `handle_timer` of every router at once:
the simulator starts their timers together with the same interval. The age of a
route is counted in firings: with an interval of 5 seconds and `INFINITY` = 16 as
the age too, the fourth firing finds a vector too old (`MaxAge`). `StillOnWire`
bounds what a link carries when the timers fire; 0 means that packets arrive within
the interval, as latencies are small against 5 seconds. Forwarding of data packets
reads the table and changes nothing.

### Runs

`routing` has a ring of four routers with the host at one of them: the smallest
network with two ways round, in which a cut leaves routers that can tell each other
their routes, and in which two cuts leave a router alone. Every link between routers
may go down and come back, two changes in all (`MaxChanges`), in both modes of
poisoning. A ring of three routers with `StillOnWire` = 1 has also been explored
completely. Fairness: packets arrive and timers fire (weak fairness of each); nothing
is assumed of links. Since a vector is not refreshed by hearing its cost again, a
router may lose a good route to expiry and learn it back; `RoutesFound` therefore says
that the shortest route is there again and again.

Observed while modelling: `host_ports` keeps a host after its link has gone down, and
what is in `host_ports` never expires (`dv_router.py:90`). With two routers a and b and the
host's link of a in `Failing`, a learns the route back from an old notification of b
and keeps it for ever, so `StaleRoutesDie` fails. The run keeps the host's link up.
`learning_switch.py` is not modelled: the simulator never calls its `handle_port_down`.

## Not modelled, and why

* Virtual memory (`vm/`). `fill_swap` reads the sectors of a page over its
  `frame_info_t` and not over its frame (`page_info->owned_frame`, `vm/swapstable.c:49`,
  set in `vm/pagetable.c:69`), so from the first page that comes back from swap the
  behaviour of the kernel is undefined and there is no state to go on from. Read
  beside it: the loop over the sectors reuses `i`, so the slot that is cleared is not
  the one that was read (`vm/swapstable.c:61-68`); `evict_frame` uses `chosen_frame`
  when there is none (`vm/pagetable.c:147-150`); and neither eviction nor the list of
  frames has a lock.
* Condition variables, `intq.c`, the feedback scheduler and the Java worker pools:
  planned above and not written. Condition variables have one reader in the
  repository's kernel, the tests, and their comparator reads the front of a waiter's
  semaphore list, which is empty while that thread is between adding itself and
  waiting (`threads/synch.c:424-429`); the feedback scheduler stores priorities
  without clamping them (`threads/thread.c:213-220`); `intq.c` is part of the code the
  course hands out.
* The `printf`, boot and device code, page directories and the loading of ELF
  files: input and output and layouts of memory, with no interleaving of their own.
* Failing allocations in `process.c` and `thread.c`: `ProcessInfoInit` uses the
  result of `malloc` untested (`threads/thread.c:506`).
* `palloc.c` and `malloc.c`: one lock around a bitmap or a free list; the lock is
  an instance of the lock of `Synch`.
* HTTP server, DNS server and firewall: parsing and sockets around little state.
* The exercises of the abstractions and paradigms courses and the Java games:
  sequential programs over vendored libraries and user interfaces. Most of the
  repository's lines are these and the copies of the course libraries beside them.
