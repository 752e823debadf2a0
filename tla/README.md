# Firedrake in TLA+

A verification project for the Firedrake kernel: TLA+ modules that model its
components, TLC configurations that check them on small instances, and proofs
that TLAPS checks for every instance. `PROJECT.json` is the machine readable
index: it maps every definition to the source lines it models.

## 1. The system

Firedrake is a kernel for one i486 CPU. What matters for its concurrency:

* Every entry of the IDT is an interrupt gate. An interrupt handler, and a
  system call is one, runs with interrupts disabled from beginning to end. It is
  atomic, except where it waits for a spinlock (`spinlock_lock()` yields with
  `int $0x31`) or calls `sd_schedule()` itself.
* Kernel threads (kerneld, syslogd, ioglued and the threads of libio) and user
  code run with interrupts enabled: the timer may preempt them between any two
  instructions, also while they hold a lock.
* A panic disables interrupts and the scheduler; what holds a lock then keeps it.

### Inventory

| Part | State | Hard behaviour | Modules |
|---|---|---|---|
| Scheduler, processes, threads (`sys/scheduler`) and kerneld | run list, threads, lists of the dead, `_sd_lock`, ticks, blocks, alarms, listeners | lists changed by three actors; death in several steps; the scheduling loop must end | `Scheduler`, `KernelThreads`, `ThreadList` |
| Memory of threads (`thread.c`) | stacks and TLS areas, two directories | given back in steps, by lengths copied from another thread | `ThreadStacks` |
| Kernel log (`syslogd.c`, `ringbuffer.c`, `panic.c`) | ring buffer, lock, `syslogd_running` | overflow, messages of several writers, panic in the middle of anything | `Syslogd`, `Ringbuffer`, `BoundedLog` |
| Physical memory (`pmemory.c`) | bitmap, lock | preempted search, word and bit boundaries | `PMemory` |
| Kernel heap (`heap.c`), libc allocator (`zone.c`, `malloc.c`) | zones with tables of entries, counters | splitting, counters that decide when a zone is unmapped; `realloc()` in several critical sections | `Heap`, `Zone` |
| Virtual memory (`vmemory.c`), DMA (`dma.c`), mmap (`scmmap.c`) | page directories, fragments, list of mappings | foreign directories mapped over two critical sections; partial failure | `VMemory`, `DMA`, `MMap` |
| VFS and FFS (`sys/vfs`) | nodes, references, directories, files, descriptor tables | references, lookups without locks, early returns with a lock held | `Namespace`, `FileData` |
| Containers (`sys/container`) | list, hash set, AA tree, array | pointers at the ends, tombstones, sizes that wrap | `List`, `Hashset`, `Dictionary`, `ATree`, `Array`, `Vector` |
| Interrupts (`sys/interrupts`, `iostubs.c`) | vectors, arrays of handlers | an interrupt while the array changes | `Interrupts` |
| Kernel modules (`sys/ioglue`, `ioglued.c`) | module tree, library store, references, symbols | retain after unlock, failed start, refused stop | `IOModules`, `IOLinker` |
| libio (`libkernel/libio`) | objects, pools, threads, run loops, collections, classes, services | lost wakeups, timeouts racing answers, `free()` that releases | `Objects`, `RunLoop`, `IOArray`, `IODictionary`, `IOSet`, `Classes`, `Services` |
| libPCI (`libkernel/libPCI`) | devices, base address registers | a probe between registrations; sizing writes to live registers | `Services`, `PCIResources` |
| linkd (`bin/linkd`) | libraries, symbols | failure at any depth, two threads without a lock | `Linkd` |
| Clock and division (`time.c`, `qdivrem.c`) | CMOS registers, boot time; digits | a clock that moves while it is read; estimated digits | `Clock`, `Division` |

The remaining parts are listed in section 6 and in `PROJECT.json`.

## 2. Modules

### Scheduler (`Scheduler.tla`, `KernelThreads.tla`, `ThreadList.tla`)

The intrusive lists are sequences: `procs` is `_process_firstProcess` and its
`->next` chain, `threads[p]` is `process->mainThread` and its chain, so the main
thread is the head. `deadProcs` and `deadThreads` are the lists of the dead,
`kprocs` and `kthreads` what kerneld has taken off them. A process or thread is
an address; the model never hands out an address twice, so that a pointer to
freed memory is recognised (`freed`). `alarm[t]` holds the ticks that are left
instead of an absolute time.

`sd_schedule()` is cut into `SdCall` (the lock), `SdEnter` (reaping and the
charge for the tick), `SdSkip` (one turn of the loop), `SdPick` and `SdReturn`.
The variable `phase` makes these steps follow each other without any other
action in between, as interrupts are disabled; they are separate actions so that
liveness can ask whether the loop ends. Each system call is one action that ends
in `SdCall` where the code calls `sd_schedule()`. kerneld's steps (`Kd...`) are
those between which a preemption makes a difference; `kpc` is its program
counter and it can be interrupted by `Tick` at each. `blocks` is an `uint8_t`
and wraps (`UInt8`).

`KernelThreads` and `ThreadList` refine what `Scheduler` takes as atomic, for the
case that a kernel thread with interrupts enabled executes it. `KernelThreads`
extends `Scheduler` and cuts `thread_sleep()` and `thread_wakeup()` into their
stores. `ThreadList` models the thread list of the kernel's process at the level
of `->next` pointers, with the two stores of `thread_attachToProcess()` apart.

### Kernel log (`Ringbuffer.tla`, `BoundedLog.tla`, `Syslogd.tla`)

`BoundedLog` says what a ring buffer promises; `Ringbuffer` is the code, one byte
per step, with the proof that it is a `BoundedLog`. `Syslogd` instantiates it with
bytes that know which message they belong to, adds the lock, writers, the daemon and
`Panic`, which may happen at any step of any thread and leaves it as the only one
that runs.

### Memory (composed in `MCMemory.tla`)

* `PMemory` has one step per turn of the two search loops; the bitmap is the set
  `free`. `held` and `usable` are history: what the callers own, and what
  `pm_init()` found. `Init` is any memory map.
* `Heap` has one action per call, since `heap->lock` is held from beginning to end
  and nothing else reads the zones. The sizes 64, 256, 2048, 4096, 255 and 2^32 of
  the code are constants. `Zone` is the user space twin: what is done to one zone
  is an operator of `Heap`, and the calls of several threads interleave between
  the critical sections of `realloc()`. `mem` is the content of memory, so that
  "the block kept what was written to it" can be said.
* `VMemory`: a directory is a set of present tables and a function from pages. A
  call for the kernel is one critical section; a call for a process first maps the
  directory of the process into the kernel, in a section of its own, and searches and
  maps in the next. A search begins at any limit, also inside a table that is absent,
  which the code then takes to be free from its beginning; `covered` has the pages
  that were mapped and taken for free so. `SearchIsFirstFit` compares the translated
  loops with a reference wherever that does not happen.
* `DMA` cuts the loop that collects fragments into its turns, and gives the physical
  pages of a request back before its pages of the kernel. `MMap` keeps the
  descriptions of a process with their `next` and fragment links, and takes the
  search for its pages from `VMemory`; frames and pages are one set of numbers,
  because `munmap()` takes one for the other.
* `ThreadStacks`: creation by kernel threads and destruction by kerneld are
  sequences of steps (`creating`, `victim`), system calls are one step.

### Kernel threads and drivers (composed in `MCDrivers.tla`)

* `RunLoop`: the host runs `step()` source by source and sleeps; the caller issues
  remote commands with and without timeouts, adds and removes sources and stops
  the loop; interrupts and alarms come at any time. `thread_sleep()` and
  `thread_wakeup()` are preempted between their stores as in `KernelThreads`
  (`within`, `blocks`), because libio calls them with interrupts enabled. `done` and
  `result` are history: which command's action ran, and what its caller was told.
* `IOModules`: ioglued, the module's threads and drivers that look modules up; a
  step is what runs under one lock. Loading, opening, starting and publishing may
  each fail. A driver finds every module in the tree, also one that did not start and
  was freed. `unpublish()` changes the dictionary of modules without its lock: while
  it does, an insertion of another thread may get lost, and a lookup may find either.
  `raced`, `failed` and `bumped` remember that a driver took a module that had no
  reference, that a module did not start, that a stop was refused.
* `Objects`: `todo` holds the releases that a `free()` still has to do, `drain` the
  pool that is being emptied; `fault` that an object was used after its end.

### Services of the kernel (composed in `MCKernel.tla`)

* `Namespace`: a call is cut at each lock it takes, the heap's included, for there
  it may wait while others run. `nodes`, `childs` and `files` are the nodes, the
  directories' tables and the descriptor tables; `call[t]` is the frame of the
  call. A new entry is looked up in one step and made in another, because its bucket
  is allocated in between. `fault` and `doubled` end a behaviour (section 3). `FileData` is one node with the files open on it; `written` is what a
  reader expects, `crossed` that a write left the memory.
* `IOLinker` translates the breadth first search through the libraries and every
  relocation type; `Linkd` the depth first loading of programs, with a stack per
  thread and a failure at any depth; a library with `R_386_RELATIVE` entries may
  fault while it is loaded.
* `Interrupts`: a registration is cut into the stores that a dispatch can see;
  `Interrupt` and `Exception` run to their end. While the array of handlers grows,
  it is freed before its new address is stored (`loose`): a dispatch in between may
  go `astray`. `log` is what a dispatch called.
* `Clock` reads one CMOS register per step while the clock runs; `Division` takes
  one digit of the quotient per step, in base 4 instead of 2^16.
* `Services` is probing and registration, `PCIResources` the sizing of a region.

### Containers (composed in `MCContainers.tla`)

Their owners hold a lock around each call, so each call is one step; the loops are
recursive operators, and what they compute is compared with a reference in every
reachable state. `Hashset` keeps each chain as a sequence of buckets, the removed
ones included, and implements `Dictionary`; it is checked with the first rows of
the real table of capacities and hashes that collide. `ATree` has trees as nested
records with the code's levels; going back up the `path` array is returning from
the recursion. `Array` implements `Vector`; its sort is translated loop by loop.
`List` has the links and fields of the entries. `IOArray`, `IODictionary` and
`IOSet` add the references of what they hold; `Classes` is the table of symbols
while libraries come and go. `HashsetZero.cfg` has the hash set with node ids as
its keys, as FFS uses it.

### Composition and history

The four composed modules put components side by side that share no state: `used`
says which one a behaviour is about, so that the states add up instead of
multiplying. Components about which something is proved are extended, so that TLC
checks the very definitions that the theorems state: `MCContainers` extends
`Ringbuffer`, `MCDrivers` extends `Syslogd` and `RunLoop`, `MCMemory` extends
`PMemory`, and `MCKernel` extends `Namespace`, `FileData` and `Interrupts`. The others
are instantiated, and their properties begin with `used = ... =>`. What components
really share (the ring buffer in the log, the tables of `Heap` in `Zone`, kerneld in
the scheduler) is composed through `INSTANCE` and `EXTENDS`.

Where the code itself loses a guarantee on some path, the module takes that path,
sets a history variable, and the property says what holds up to there and what
still holds after it (`raced` and `covered` in `VMemory`, `stray` and `overlaid` in
`MMap`, `overran` in `DMA`, `displaced` in `IOArray`, `dangling` in `IODictionary`,
`lost` in `List`, `shuffled` in `Classes`, `truncated` in `FileData`, `fault` in
`Objects`, `ThreadStacks` and `Namespace`, `doubled` in `Namespace`, `astray` in
`Interrupts`, `raced` and `failed` in `IOModules`). These paths are listed at the end
of section 3.

## 3. Runs

| Run | Shows | Bounds |
|---|---|---|
| `scheduler` | only live and unblocked threads run, nothing in use is lost, listed twice or freed, blocks are what is waited for | 3 processes, 4 threads, slices of 2 ticks, sleeps of up to 1 tick; threads and user processes are symmetric |
| `scheduler_liveness` | `sd_schedule()` ends, nobody starves, sleepers and joiners wake | 3 processes, 3 threads, no symmetry |
| `containers` | the ring buffer is a bounded log, the hash set a dictionary, the array a sequence that its sort sorts; the tree is balanced and loses nothing; list, libio's collections and its classes hold what was put into them | ring buffer of 3 bytes; 5 names, 2 objects, 6 buckets, capacities 5 and 11; 7 tree keys; 8 objects of 3 kinds; 4 list entries; 4 keys of 3 values, capacities 2, 3 and 5; 6 places; 5 classes loaded up to twice |
| `drivers` | messages are whole and printed, also in a panic; a run loop serves and is honest; modules, libraries and objects are counted; waits end | 2 writers with 2 messages of 3 bytes, buffer of 4, chunks of 2; 1 interrupt, 2 commands, 1 change of the sources; 2 modules of which one needs the other, 1 driver; 2 threads, 2 objects, 2 nested pools, 2 references |
| `memory` | owners of pages, addresses, mappings and blocks, from the bitmap to `malloc()`; the search for pages ends | 3 words of 3 bits, requests of up to 3 pages, boot and 2 callers; heap with all zone types, 4 entries, 2 places; 2 tables of 3 pages; 6 frames and 2 DMA requests; 2 processes, 4 descriptions, 5 calls of mmap; 2 threads and 2 blocks of `malloc()`; 4 threads with stacks in 3 processes |
| `kernel` | names, descriptors and references agree; files keep what was written; linked right; interrupts delivered; devices driven; division and boot time exact | 2 threads of which one moves nodes, 4 calls, 4 nodes, 2 names; files of 4 bytes, pages of 2; 36 worlds of 3 libraries, 2 calls; 3 libraries with up to 2 dependencies and 2 relocations; 3 drivers, 3 registrations; all 8 bit dividends and divisors; 5 evenings; 2 slots, 2 drivers, 2 probes; 2 registers |
| `dangling_listener` | (violation) a listener can be freed before the thread it waits for | as `scheduler` |
| `kernel_thread_sleep` | (violation) `blocks` of a kernel thread wraps around | kerneld and 2 threads |
| `thread_list_kernel` | (violation) an exited thread is linked again when attaching is preempted | 5 threads |
| `panic_before_syslogd` | (violation) a panic before syslogd runs can hang | 1 message each |
| `hashset_zero_key` | (violation) key 0 is lost | keys 0 and 3 others |
| `atree_find` | (violation) a removed key finds another object | 7 keys |

### Why the bounds are enough

* With 3 processes and 4 threads a process dies while another one is scheduled,
  waits for it or is collected, and a process has a thread to lose besides its main
  thread; a slice of 2 ticks tells a thread at the end of its slice from one that
  goes on.
* The log's buffer of 4 bytes holds a message of 3 and the beginning of the next, so
  that writes wrap, overflow in the middle of a message, and a flush takes two chunks
  of 2. Five keys make the hash set grow from 5 to 11 chains and shrink back; 8
  objects are more than the 5 up to which `array_sort()` only inserts, and reach its
  heap sort; 7 keys are three levels of the tree. 6 places let an `IOArray` grow twice and shrink with a
  changed `_changeSize`.
* Two commands show the second one after a timeout and after a success, one
  interrupt and one change come at every step of the host. The second module makes
  a library with two reasons to stay.
* Three words of three bits contain runs over a word boundary, through a full word,
  and up to the end. The heap's sizes make entries split, fit exactly, and fill the
  table before the zone. Two tables of three pages have a region across tables, one
  of them absent. Six frames are fragmented by two requests.
* Four calls on two names are a move against an open, a removal and a creation in
  the same directory, with a nested one. Files of two pages grow over a page while
  another descriptor truncates. Digits of 2 bits reach both corrections of an
  estimate. Evenings end years, months, leap days and hours while they are read.

`EndFollowsBegin` of the ring buffer is in no run: it is proved.

Deadlock is checked in the runs of the scheduler and of single containers. In
`containers`, `drivers`, `memory`, `kernel` and `panic_before_syslogd` it is not:
there the calls are bounded, and a system really stops after a panic.

### Fairness

* `Scheduler`: weak fairness of the steps of `sd_schedule()`, as nothing can
  interrupt them; strong fairness of `Tick`, because the timer keeps ticking while
  code runs with interrupts enabled; strong fairness of kerneld's steps, because a
  thread that the scheduler gives the CPU executes instructions. Nothing is assumed
  of user code.
* `MCDrivers` and `MCMemory`: weak fairness of each thread's own steps, which is
  what `EveryRunnableRuns` shows of the scheduler, and of the alarms of sleeping
  threads, which is what `SleepersWake` shows. Both hold of threads whose `blocks`
  are right. The threads of libio sleep and wake each other through
  `__io_threadSleep()` and `__io_threadWakeup()` with interrupts enabled, where
  `blocks` can go wrong (`kernel_thread_sleep`): a thread of `RunLoop` has its steps
  and its alarm only while its `blocks` let the scheduler choose it, and fairness
  gives nothing to one whose `blocks` went to 255. Calls themselves, interrupts and
  changes of a run loop need not happen. A kernel that panicked, and a thread that
  uses a freed object, owe nothing.

### What the violations say

1. `dangling_listener`: a thread of a process joins another thread of it, and the
   process exits. `process_destroy()` frees the threads one after the other, first the
   one that waits; `thread_notify()` for the one it waited for then counts down
   `blocks` in freed memory. `thread.h:96` says of the field `blocks` of an entry "True
   if the listener is waiting for the event", which a freed thread is not.
2. `kernel_thread_sleep`: `thread_sleep()` sets `sleeping` before it increments
   `blocks`; a wakeup in between decrements first.
3. `thread_list_kernel`: `thread_attachToProcess()` holds `threadLock`, and
   `sd_schedule()` unlinks under `_sd_lock`; a thread that exited is linked again.
4. `panic_before_syslogd`: `syslogd_forceFlush()` returns early, before unlocking.
5. `hashset_zero_key`: a removed bucket is marked with key NULL, which is the integer
   key 0. FFS keeps its nodes by id, and the id of the root is 0: the root is not
   found behind a removed bucket, and a rehash frees its bucket.
6. `atree_find`: `atree_remove()` moves the data of the next node into the removed
   one but not its key.

`IterationInOrder` passes and records a peculiarity: an iteration over the tree ends
with the object of the root a second time. The users of the iterator only search.

### What the passing properties except

The code takes these paths; the models take them too, and the properties say what
holds up to them. Where pointers or memory of others are gone after it, the
behaviour ends there (`MMap`, `raced` in `VMemory`, `FileData`, `Namespace`, `Objects`,
`Interrupts`, `List`, `IOArray`, `IODictionary`, `IOSet`); the others go on.

* Files: truncation leaves the offsets of other files behind the size, and a write
  there leaves the memory (`ffs_callbacks.c`); reads let the size grow
  (`ffs_node.c:101`); an unknown whence returns with the node locked
  (`ffs_callbacks.c:310`). `vfs_close()` frees the file before it releases the
  descriptor (`vfs.c:193`), and the reference of a node's creator is never given
  back. `ffs_nodeMove()` reads the directory of its node before it locks it
  (`ffs_callbacks.c:138`), so that only one thread moves nodes in the run.
* Names: `NamespaceConsistent` holds up to two events, at which the modelled steps end.
  One is the use of a pointer that is not one (`fault`): a second `close()` or a
  `readdir()` of a file that is being closed, and a creation of a name that was taken
  since it was looked up, whose caller opens or frees NULL (`ffs_callbacks.c:35`). The
  other is a second entry of one name (`doubled`): `ffs_nodeMove()` does not lock the
  directory it moves to (`ffs_callbacks.c:147`), so that a creation and a move both
  find the name free.
* Virtual memory: `vm_createDirectory()` maps without the lock (`vmemory.c:553`). A
  search that begins inside an absent table counts all pages of the table although
  some lie before its limit (`vmemory.c:118`, `vmemory.c:264`), and a request that is
  longer than what is left of the table covers mapped pages in the next (`covered`,
  `overlaid`); `MappingsKept` and `MappingsPrivate` except these pages and mappings,
  and physical pages stay apart. `vm_allocTwoSidedLimit()` does not test what it found,
  and a full directory stops the kernel.
  `munmap()` frees the virtual address as a physical one (`scmmap.c:377`) and keeps
  the list locked when a join fails (`scmmap.c:369`). The loop of `dma_request()`
  never lowers `pagesLeft` (`dma.c:53`), so it collects too much, and
  `vm_fulfillDMARequest()` then maps more than was reserved; from then on (`overran`)
  only the physical pages are checked. A list of mappings that stays locked (`held`)
  makes its process wait for ever, and no property says otherwise.
* Threads: `thread_clone()` allocates one page of user stack but copies
  `userStackPages`, so that `thread_destroy()` frees too many (`thread.c:411`); the
  address of a kernel thread's stack is given to `vm_free()` twice;
  `thread_getTLSArea()` leaks a mapping of the kernel.
* Containers: `list_removeSoft()` moves `last` whichever entry is removed
  (`list.c:182`), and `IOArray::removeObject()` moves one object only
  (`IOArray.cpp:177`): `SequencesInOrder` says nothing of the list or array behind
  that. `IODictionary` releases an entry's object and key before it retains the new
  ones (`IODictionary.cpp:335`): when they are the same and had no other reference,
  the entry holds freed memory (`dangling`), and nothing is said behind that; 0 set for a key of a pointer dictionary panics. `IOSet` holds no reference for an object in a new bucket and
  its count wraps; an iteration over an `IODictionary` stops at an empty bucket; a
  rehash of the classes may put an old symbol before the new one.
* Modules: a module that failed to start stays in the tree (`iomodule.c:142`), where a
  driver may find it, and a module is retained after the lock was released
  (`iomodule.c:154`); `ModulesCounted` excepts the module itself, not the others and
  not the libraries. An insertion into the dictionary of modules may be lost while
  `unpublish()` changes it. A failed `publish()` leaves those that wait for it
  (`IOModule.cpp:139`).
* Run loop: `run()` clears a `stop()` that came first (`IORunLoop.cpp:180`);
  `_executed` of a command is never reset, so that only the first command that is
  carried out is answered for sure (`IORemoteCommand.cpp`). A wake-up inside
  `thread_sleep()`, or two that meet, take the thread away from the scheduler for good
  (violation 2), and `EverythingServed` excepts a thread that was met (`Gone`).
* `IOThread` may read its id before `detach()` stored it and is then unknown.
* Linking: `R_386_RELATIVE` uses the container of the last symbol looked up, and the
  program faults if there was none; what it writes is not modelled. linkd counts a dependency twice, and two threads may load a library twice.
* Interrupts: `kern_requestExclusiveInterrupt()` sets no callback; a driver may be
  called twice while another withdraws. When the array of handlers was freed to grow
  and its memory is used again before its new address is stored, a dispatch calls what
  it finds there (`astray`); nothing is said from that interrupt on.
* Clock: a leap day is counted a year early (`time.c`, `isLeapYear(year + 1)`).
* PCI: regions of less than 16 ports are rounded up to 16.

## 4. Proofs

| Theorem | Module | For every |
|---|---|---|
| `RingInvariant`, `RingbufferIsBoundedLog` | `Ringbuffer` | size > 0 and set of bytes |
| `SchedulerInvariant`, `TypeCorrect`, `LiveRuns`, `ProcessesInOnePlace`, `ThreadsInOnePlace`, `LockNeverWaits` | `SchedulerProofs` | number of processes and threads, slice and sleep |
| `BlocksAreResources`, `UnblockedRuns` | `SchedulerBlocks` | the same |
| `LogIsWhole` | `SyslogdProofs` | number of threads and messages, message length, size of the ring buffer and of the flush buffer |
| `LoopIsHonest` | `RunLoopProofs` | number of interrupts, commands and changes |
| `PagesExclusive`, `FailureIsTrue`, `PagesAreExact` | `PMemoryProofs` | number and length of words, memory map, number of callers and size of requests |
| `WritesAreKept` | `KernelProofs` | number of files open on a node, their accesses, sizes of pages, chunks and the file |
| `InterruptsAreDelivered` | `KernelProofs` | drivers, vectors, size of the first array and number of registrations |
| `NamespaceStaysConsistent` | `NamespaceProofs` | threads, processes, names, paths, flags, descriptors, nodes and calls, with one mover |

Each is of the form `Spec => []P`, `Spec => [][A]_vars` or a refinement, and states
a definition that a run checks (`PagesExclusive` and `FailureIsTrue` state conjuncts
of `PagesExact`, and the two ending in `Invariant` the inductive invariants). Every
inductive invariant was checked with TLC before it was proved. The assumptions are
those on the constants, in the modules that declare them. `SizeAssumption`,
`SchedulerAssumption` and `SyslogdAssumption` are ASSUMEs; `RunLoopAssumption`,
`PMemoryAssumption`, `FileDataAssumption`, `InterruptsAssumption` and
`NamespaceAssumption` are hypotheses of the theorems, and the composed modules assume
them of their instances. Two theorems, `PagesAreExact` and
`NamespaceStaysConsistent`, have more hypotheses, which are given below.

**Ring buffer.** `EndFollowsBegin` is what makes `TypeOK` inductive and the
refinement provable: the content is the `count` bytes from `begin` on, and a write
at `end` touches none of them unless the buffer is full.

**Scheduler.** `SchedInv` adds to the properties what the steps rely on:
`ProcessLists` and `ThreadLists` (the lists are injective, disjoint and together hold
what is in use), `RunList` (the kernel's process and the current one are in the run
list, every listed process has threads and its scheduled thread is one of them,
kerneld heads the kernel's threads and never dies, and what died is in a run list
only as the current one, on the way into the loop), `Ticks` (only the current thread
has used ticks, and reaches the slice only on the way into the loop), `Locking`
(`_sd_lock` is held by `sd_schedule` itself, or by kerneld at one of the `Critical`
values of `kpc`, and kerneld then keeps the CPU) and `Collecting` (what kerneld has
in its hands at each `kpc`). `OnlyLiveRuns` alone is not inductive: that the thread
after the one that exited is live rests on exited threads being unlinked before
anything else runs. The first lemmas state what inserting and unlinking do to the
elements and the injectivity of a list.

**Blocks.** `BlocksCountResources` equates an `uint8_t` that wraps with the size of
a set, so it holds only if that set is small, for any number of threads. `JoinInv`
says why it is. A thread that runs is in no list of listeners, so it enters one list
at a time by `_sc_threadJoin()`; `_sc_wait()` of another thread of its process puts
all of them into one list more, but all threads are in a list then, the caller
included, and nobody is left to do it again. kerneld's victim has its own copy of
this bound, as its list is emptied while the others go on. That is at most two
entries outside the victim's list and two in it, an alarm and a sleep: six.
`BlockInv` adds that what `sd_schedule()` chose is not blocked until it runs.

**Kernel log.** `LogInv` is about one stream: the console, what a flush has taken
from the ring and not printed, and the content of the ring. `StreamInv` says that in
it the bytes of a message that were kept stand in one piece and in order, except for
one `cut` behind which a panic lost at most the `hole` that its flush buffer held.
`LockInv` (who is inside the lock, and what a writer has tested before), `PanicInv`
(what the panicking thread still does) and `FlushInv` (outside a flush nothing is in
between, and a message in the ring has no byte on the console) are what the steps of
the other threads rely on. A write that overflows drops the oldest byte, which is the
first of the stream's ring part; `SyslogdProofs` takes what the ring does from the
refinement proved in `Ringbuffer`.

**Run loop.** `LoopInv`: `SourceInv` (the source that the host works on stays where it
is, as the host holds the lock), `OrderInv` (commands are carried out in the order of
their issue, each at most once), `ResultInv`, and `BeforeInv` and `AfterInv`, which
tell the time before the first command was carried out, when a timeout is the truth,
from the time after it, when `_executed` stays set.

**Physical memory.** No conjunct of `PagesExact` is inductive: that marking takes only
free pages rests on the search. `PInv` adds `Exclusion` (past `spinlock_lock()` is
only the holder, so that the locals are those of one search) and `Searching` (the
pages counted so far are free and end where the search is, and those it ends with are
free), which needs that the words follow each other without a gap (`WordBounds`).
`FInv` adds `Passed`: no run of free pages between the limit and the position is long
enough, and the one that ends at the position is no longer than `found`; `RunGrows`
and `RunEnds` say what a free and a used word or page do to it. `PagesAreExact` has
the hypotheses that the kernel's directory is page 1 and the trampolines begin at page
2, as `VM_KERNEL_DIRECTORY_ADDRESS` and `IR_TRAMPOLINE_PHYSICAL` say.

**Files.** `FileInv`: a byte that was written lies before `size`, and that is what
`ffs_node_allocateMemory()` copies when the memory grows; an open file's offset is not
behind `size` unless there was a truncation, so that only then a write can leave the
memory.

**Interrupts.** A registration and a withdrawal change the array of handlers in
stores between which interrupts arrive. `IrqInv` says that one call at a time works on
an entry, that an entry nobody works on is `Sound` (its first `count` handlers are
those of the drivers it was given to, each once, with room for one more), and how far
one is that a call works on: `Working` has what the call knows at each step, and
`Handled` leaves out the place that a withdrawal is about to overwrite while it
shifts. A dispatch in the middle of it then calls all others. While the array is
`loose`, a dispatch either still finds the handlers or goes `astray`; the theorem, as
the property, is about interrupts that do not.

**Names.** `NamespaceConsistent` counts references. `NamesInv` adds `NamesTypes`,
`TreeOK` (a directory's entry and a node's `parent` and `name` fields say the same),
`CallsOK` (what each call has found at its step: `Found`, `KnowsNodes`, `InPlace`;
that a node created by one thread is unknown to the others until it is attached) and
`TableOK` (who reserved or freed a slot of a descriptor table). Each step then adds
or takes one element of the set of those who hold a node, and its reference with it.
The theorem is about behaviours up to a use of a freed file and up to a second entry of
one name; these steps change neither nodes nor tables, and nothing follows them. It
has the hypothesis `OneMover`, and needs it: `ffs_nodeMove()` reads `node->parent`
before it locks it (`ffs_callbacks.c:138`), and with two movers and 6 calls TLC shows
that two moves of one node leave it in a directory it does not name. The run `kernel`
has one mover for the same reason.

**Only model checked:**

* All liveness properties and anything that needs `ENABLED` (outside the prover's
  reach).
* What recursive operators compute (`Hashset`, `ATree`, `Array`), as it needs
  induction over data; for the same reason the folds over sequences and sets in
  `Heap`, `Zone`, `MMap`, `DMA`, `Clock` and `Division`, and the search through
  libraries in `IOLinker` and `Linkd`.
* `ModulesCounted` and `ObjectsCounted`, which sum references over nested pools and
  libraries; `VMemory`, `ThreadStacks`, `Services`, `PCIResources`, `List`, the
  collections of libio and `Classes`, of which nothing is proved yet.
* The violations, and `KernelThreads` and `ThreadList`, which exist for them.

## 5. Plan

1. A module of nested spinlocks that yield, with a thread that dies while it holds
   one (`lock.S:33`).
2. `Namespace` together with `FileData` and the exit of a process with open files.
3. Proofs: `MappingsKept` of `VMemory` and `ModulesCounted` of `IOModules`.

## 6. Not modelled

* Boot, executable loader, processor set up, assembler stubs, console driver: run
  once, before there is concurrency, or are straight line code; what they set up is
  the initial state of the modules.
* The RTL8139 driver: register accesses to a device whose behaviour is not in the
  repository; it sends and receives nothing yet.
* String and stdio routines, immutable values of libio, logging: pure functions and
  formatting. The layout of ELF files and of the initial stack frames.
* System call stubs, libcrt, libdl, test programs and the unit test framework.
* Parts of modelled components are named in the notes of `PROJECT.json`: mounting of
  a second file system, the rehash of directories with many entries, `executeAction()`
  of a remote command, a driver that loads a module itself, the text of `dlerror()`, the backwards iterator of the tree, the copying initialisers
  of the collections, the parsing of ioglue's configuration, the table of TLS keys.
