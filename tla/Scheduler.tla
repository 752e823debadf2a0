------------------------------ MODULE Scheduler ------------------------------
(***************************************************************************)
(* The process and thread scheduler of the kernel: sys/scheduler/          *)
(* {scheduler,process,thread}.c, the process and thread system calls, the  *)
(* timer interrupt and kerneld, the kernel thread that frees what died.    *)
(*                                                                         *)
(* There is one CPU and every IDT entry is an interrupt gate, so a handler *)
(* or a system call runs with interrupts disabled: between two steps of it *)
(* (phase # "run") nothing else happens.  Threads, kerneld included, can   *)
(* be interrupted by the timer between any two of their own steps.         *)
(*                                                                         *)
(* The intrusive lists (process->next, thread->next) are sequences; the    *)
(* first element of a process's list is its mainThread.  A process or a    *)
(* thread is an address halloc() returned; the model never returns the     *)
(* same address twice, so a freed thread is told apart from its successor. *)
(***************************************************************************)
EXTENDS Integers, Sequences, SequencesExt

CONSTANTS
    Process, Thread,   \* addresses halloc() may return
    KProc, Kerneld,    \* the initial process and its main thread
    WantedTicks,       \* thread->wantedTicks: the length of a time slice
    MaxSleep,          \* bound: the longest sleep a system call asks for
    NULL

ASSUME SchedulerAssumption ==
    /\ KProc \in Process
    /\ Kerneld \in Thread
    /\ Process \cap Thread = {}
    /\ NULL \notin Process \cup Thread
    /\ WantedTicks \in Nat \ {0}
    /\ MaxSleep \in Nat

VARIABLES
    procs,       \* _process_firstProcess and its ->next chain
    current,     \* _process_currentProcess
    deadProcs,   \* _sd_deadProcess and its ->next chain
    deadThreads, \* _sd_deadThread and its ->next chain
    lock,        \* _sd_lock
    pdied,       \* process->died
    threads,     \* process->mainThread and its ->next chain
    scheduled,   \* process->scheduledThread
    tdied,       \* thread->died
    usedTicks,   \* thread->usedTicks
    blocks,      \* thread->blocks, an uint8_t
    sleeping,    \* thread->sleeping
    alarm,       \* ticks left until thread->alarm, 0 when it has passed
    listener,    \* thread->listener: who waits for the exit of the thread
    created,     \* processes and threads halloc() has returned
    freed,       \* those of them that were given to hfree()
    phase,       \* "run", or where the interrupt handler is
    resume,      \* the thread whose blocks _sc_sleep() still has to give back
    kpc,         \* where kerneld_main() is
    kprocs,      \* the dead processes kerneld has collected
    kthreads,    \* the dead threads kerneld has collected
    kvictim      \* the thread kerneld has notified the listeners of

procVars   == <<procs, pdied, threads, scheduled>>
deadVars   == <<deadProcs, deadThreads>>
sleepVars  == <<sleeping, alarm>>
blockVars  == <<blocks, sleeping, alarm, listener>>
threadVars == <<tdied, usedTicks, blockVars>>
memVars    == <<created, freed>>
kVars      == <<kpc, kprocs, kthreads, kvictim>>
cpuVars    == <<current, lock, phase, resume>>
vars == <<procVars, deadVars, threadVars, memVars, cpuVars, kVars>>

UInt8(n) == n % 256

(* where the loops over the ->next pointers find the element e *)
PosOf(s, e) == CHOOSE i \in DOMAIN s : s[i] = e

(* e->next, or the head of the list when e is its last element *)
NextIn(s, e) ==
    LET i == PosOf(s, e) IN IF i < Len(s) THEN s[i + 1] ELSE s[1]

(* new->next = e->next; e->next = new *)
InsertAfter(s, e, new) == InsertAt(s, PosOf(s, e) + 1, new)

(* previous->next = e->next *)
Unlink(s, e) == RemoveAt(s, PosOf(s, e))

(* process_createVoid() and the first thread_attachToProcess() of a process *)
Init ==
    /\ procs = <<KProc>>
    /\ current = KProc
    /\ deadProcs = <<>>
    /\ deadThreads = <<>>
    /\ lock = FALSE
    /\ pdied = [p \in Process |-> FALSE]
    /\ threads = [p \in Process |-> IF p = KProc THEN <<Kerneld>> ELSE <<>>]
    /\ scheduled = [p \in Process |-> IF p = KProc THEN Kerneld ELSE NULL]
    /\ tdied = [t \in Thread |-> FALSE]
    /\ usedTicks = [t \in Thread |-> 0]
    /\ blocks = [t \in Thread |-> 0]
    /\ sleeping = [t \in Thread |-> FALSE]
    /\ alarm = [t \in Thread |-> 0]
    /\ listener = [t \in Thread |-> <<>>]
    /\ created = {KProc, Kerneld}
    /\ freed = {}
    /\ phase = "run"
    /\ resume = NULL
    /\ kpc = "start"
    /\ kprocs = <<>>
    /\ kthreads = <<>>
    /\ kvictim = NULL

CurrentThread == scheduled[current]

-----------------------------------------------------------------------------
(* sd_schedule(), run with interrupts disabled, one action per part of it *)

(* The call: spinlock_tryLock(&_sd_lock), or return to the caller *)
SdCall ==
    /\ phase' = IF lock THEN "return" ELSE "enter"
    /\ lock' = TRUE
    /\ UNCHANGED current

(* A mutant: the process is not moved on. *)
NextThreadSame(p) == scheduled[p]

(* the thread of the process that sd_schedule() looks at next *)
NextThread(p) == NextIn(threads[p], scheduled[p])

(* Take what died off its list, and charge the thread for the tick *)
SdReapProcess ==
    LET p == current
        next == NextIn(procs, p)
    IN /\ pdied[p] \/ (tdied[scheduled[p]] /\ scheduled[p] = Head(threads[p]))
       /\ procs' = Unlink(procs, p)
       /\ deadProcs' = Cons(p, deadProcs)
       /\ current' = next
       /\ usedTicks' = [usedTicks EXCEPT ![scheduled[next]] = @ + 1]
       /\ UNCHANGED <<threads, scheduled, deadThreads>>

SdReapThread ==
    LET p == current
        t == scheduled[p]
        next == NextThread(p)
    IN /\ ~pdied[p] /\ tdied[t] /\ t # Head(threads[p])
       /\ threads' = [threads EXCEPT ![p] = Unlink(@, t)]
       /\ deadThreads' = Cons(t, deadThreads)
       /\ scheduled' = [scheduled EXCEPT ![p] = next]
       /\ usedTicks' = [usedTicks EXCEPT ![next] = @ + 1]
       /\ UNCHANGED <<procs, deadProcs, current>>

SdChargeTick ==
    /\ ~pdied[current] /\ ~tdied[CurrentThread]
    /\ usedTicks' = [usedTicks EXCEPT ![CurrentThread] = @ + 1]
    /\ UNCHANGED <<procs, threads, scheduled, deadVars, current>>

SdEnter ==
    /\ phase = "enter"
    /\ SdReapProcess \/ SdReapThread \/ SdChargeTick
    /\ phase' = "loop"
    /\ UNCHANGED <<pdied, tdied, blockVars, memVars, lock, resume, kVars>>

(* A mutant: the slice is not looked at. *)
MustSkipNoSlice(t) == blocks[t] > 0 \/ tdied[t]
(* A mutant: the blocks are not looked at. *)
MustSkipBlocked(t) == usedTicks[t] >= WantedTicks \/ tdied[t]

MustSkip(t) == usedTicks[t] >= WantedTicks \/ blocks[t] > 0 \/ tdied[t]

(* A mutant: the slice is never given again. *)
ResetTicksNever(t) == UNCHANGED usedTicks

ResetTicks(t) == usedTicks' = [usedTicks EXCEPT ![t] = 0]

(* A mutant: the lock is kept. *)
SdUnlockNever == UNCHANGED lock

SdUnlock == lock' = FALSE

(* One turn of the while loop: wake the thread when its alarm has passed,  *)
(* move the process on to its next thread and go on to the next process.   *)
SdSkip ==
    LET p == current
        t == scheduled[p]
        wake == sleeping[t] /\ alarm[t] = 0
        left == IF wake THEN UInt8(blocks[t] - 1) ELSE blocks[t]
        next == NextIn(procs, p)
    IN /\ phase = "loop"
       /\ MustSkip(t)
       /\ ResetTicks(t)
       /\ sleeping' = [sleeping EXCEPT ![t] = @ /\ ~wake]
       /\ blocks' = [blocks EXCEPT ![t] = left]
       /\ IF wake /\ left = 0 /\ tdied[t]
          THEN /\ phase' = "return"
               /\ SdUnlock
               /\ UNCHANGED <<scheduled, current>>
          ELSE /\ scheduled' = [scheduled EXCEPT ![p] = NextThread(p)]
               /\ current' = next
               /\ phase' = IF pdied[next] THEN "enter" ELSE "loop"
               /\ UNCHANGED lock
       /\ UNCHANGED <<procs, pdied, threads, deadVars, tdied, alarm, listener,
                      memVars, resume, kVars>>

(* The loop ends: this is the thread that runs next *)
SdPick ==
    /\ phase = "loop"
    /\ ~MustSkip(CurrentThread)
    /\ phase' = "return"
    /\ SdUnlock
    /\ UNCHANGED <<procVars, deadVars, threadVars, memVars, current, resume, kVars>>

(* The handler returns; _sc_sleep() gives its block back before it does *)
SdReturn ==
    /\ phase = "return"
    /\ phase' = "run"
    /\ blocks' = IF resume = NULL THEN blocks
                 ELSE [blocks EXCEPT ![resume] = UInt8(@ - 1)]
    /\ resume' = NULL
    /\ UNCHANGED <<procVars, deadVars, tdied, usedTicks, sleepVars, listener,
                   memVars, current, lock, kVars>>

-----------------------------------------------------------------------------
(* Interrupts *)

KerneldRuns == phase = "run" /\ current = KProc /\ CurrentThread = Kerneld

(* A mutant: time stands still. *)
ElapseNever == UNCHANGED alarm

Elapse == alarm' = [t \in Thread |-> IF alarm[t] > 0 THEN alarm[t] - 1 ELSE 0]

(* time_tick(): the timer interrupt of whatever runs; it ends kerneld's hlt *)
Tick ==
    /\ phase = "run"
    /\ Elapse
    /\ SdCall
    /\ kpc' = IF KerneldRuns /\ kpc = "halt" THEN "collectProcesses" ELSE kpc
    /\ UNCHANGED <<procVars, deadVars, tdied, usedTicks, blocks, sleeping,
                   listener, memVars, resume, kprocs, kthreads, kvictim>>

(* int $0x31 by a kernel thread: sd_yield() and sd_schedule_kernel() *)
Yield ==
    /\ phase = "run" /\ current = KProc /\ CurrentThread # Kerneld
    /\ usedTicks' = [usedTicks EXCEPT ![CurrentThread] = WantedTicks]
    /\ SdCall
    /\ UNCHANGED <<procVars, deadVars, tdied, blockVars, memVars, resume, kVars>>

(* sd_threadExit(): what a kernel thread ends with *)
SdThreadExit ==
    /\ phase = "run" /\ current = KProc /\ CurrentThread # Kerneld
    /\ tdied' = [tdied EXCEPT ![CurrentThread] = TRUE]
    /\ usedTicks' = [usedTicks EXCEPT ![CurrentThread] = WantedTicks]
    /\ SdCall
    /\ UNCHANGED <<procVars, deadVars, blockVars, memVars, resume, kVars>>

-----------------------------------------------------------------------------
(* System calls of the running user thread *)

UserRuns == phase = "run" /\ current # KProc

(* thread_createVoid() and process_createVoid() *)
VoidThread == Thread \ created
VoidProcess == Process \ created

(* thread_attachToProcess() *)
AttachThread(p, t) ==
    /\ threads' = [threads EXCEPT ![p] = IF @ = <<>> THEN <<t>> ELSE InsertAt(@, 2, t)]
    /\ scheduled' = [scheduled EXCEPT ![p] = IF threads[p] = <<>> THEN t ELSE @]

ScThreadAttach ==
    /\ UserRuns
    /\ \E t \in VoidThread :
          /\ AttachThread(current, t)
          /\ created' = created \cup {t}
    /\ UNCHANGED <<procs, pdied, deadVars, threadVars, freed, cpuVars, kVars>>

(* process_fork() and process_insert(): the child has one thread and *)
(* stands behind its parent in the list *)
ScFork ==
    /\ UserRuns /\ ~lock
    /\ \E p \in VoidProcess, t \in VoidThread :
          /\ AttachThread(p, t)
          /\ procs' = InsertAfter(procs, current, p)
          /\ created' = created \cup {p, t}
    /\ UNCHANGED <<pdied, deadVars, threadVars, freed, cpuVars, kVars>>

(* A mutant: the alarm is not counted as a block. *)
SleepBlocksNoAlarm(fresh) == 1

(* _sc_sleep(): one block until sd_schedule() has returned, another one *)
(* until the alarm when thread_sleep() is called *)
SleepBlocks(fresh) == IF fresh THEN 2 ELSE 1

ScSleep ==
    /\ UserRuns
    /\ \E time \in 0..MaxSleep :
         LET t == CurrentThread
             fresh == time > 0 /\ ~sleeping[t]
         IN /\ blocks' = [blocks EXCEPT ![t] = UInt8(@ + SleepBlocks(fresh))]
            /\ sleeping' = [sleeping EXCEPT ![t] = @ \/ fresh]
            /\ alarm' = [alarm EXCEPT ![t] = (IF fresh THEN 0 ELSE @) + time]
            /\ resume' = t
    /\ SdCall
    /\ UNCHANGED <<procVars, deadVars, tdied, usedTicks, listener, memVars, kVars>>

(* thread_join() of the threads of the sequence ts to the thread t *)
ThreadJoin(ts, t) ==
    /\ listener' = [listener EXCEPT ![t] = @ \o ts]
    /\ blocks' = [u \in Thread |-> IF u \in ToSet(ts) THEN UInt8(blocks[u] + 1)
                                   ELSE blocks[u]]

(* thread_getWithID() looks for the thread in the current process *)
ScThreadJoin ==
    /\ UserRuns
    /\ \E t \in ToSet(threads[current]) : ThreadJoin(<<CurrentThread>>, t)
    /\ SdCall
    /\ UNCHANGED <<procVars, deadVars, tdied, usedTicks, sleepVars, memVars,
                   resume, kVars>>

(* _sc_wait(): every thread of the caller joins the process's main thread *)
ScWait ==
    /\ UserRuns /\ ~lock
    /\ \E p \in ToSet(procs) : ~pdied[p] /\ ThreadJoin(threads[current], Head(threads[p]))
    /\ SdCall
    /\ UNCHANGED <<procVars, deadVars, tdied, usedTicks, sleepVars, memVars,
                   resume, kVars>>

(* A mutant: the thread that exits goes on running. *)
ScThreadExitReturns ==
    /\ UserRuns
    /\ tdied' = [tdied EXCEPT ![CurrentThread] = TRUE]
    /\ UNCHANGED <<procVars, deadVars, usedTicks, blockVars, memVars, cpuVars, kVars>>

ScThreadExit ==
    /\ UserRuns
    /\ tdied' = [tdied EXCEPT ![CurrentThread] = TRUE]
    /\ SdCall
    /\ UNCHANGED <<procVars, deadVars, usedTicks, blockVars, memVars, resume, kVars>>

ScExit ==
    /\ UserRuns
    /\ pdied' = [pdied EXCEPT ![current] = TRUE]
    /\ SdCall
    /\ UNCHANGED <<procs, threads, scheduled, deadVars, threadVars, memVars,
                   resume, kVars>>

-----------------------------------------------------------------------------
(* kerneld_main(), preemptible between any two of these steps *)

(* the sd_yield() at its beginning *)
KdYield ==
    /\ KerneldRuns /\ kpc = "start"
    /\ usedTicks' = [usedTicks EXCEPT ![Kerneld] = WantedTicks]
    /\ SdCall
    /\ kpc' = "boot"
    /\ UNCHANGED <<procVars, deadVars, tdied, blockVars, memVars, resume, kprocs,
                   kthreads, kvictim>>

(* thread_create(self, ...) of a system thread *)
KdCreateThread ==
    /\ KerneldRuns /\ kpc = "boot"
    /\ \E t \in VoidThread :
          /\ AttachThread(KProc, t)
          /\ created' = created \cup {t}
    /\ UNCHANGED <<procs, pdied, deadVars, threadVars, freed, cpuVars, kVars>>

(* spinlock_lock(&_sd_lock), by process_insert() and the two collectors *)
KdLock ==
    /\ KerneldRuns /\ ~lock
    /\ \/ /\ kpc = "spawn" /\ kpc' = "insert"
          /\ VoidProcess # {} /\ VoidThread # {}
       \/ kpc = "collectProcesses" /\ kpc' = "takeProcesses"
       \/ kpc = "collectThreads" /\ kpc' = "takeThreads"
    /\ lock' = TRUE
    /\ UNCHANGED <<procVars, deadVars, threadVars, memVars, current, phase, resume,
                   kprocs, kthreads, kvictim>>

(* process_createWithFile() of the first user process *)
KdInsertProcess ==
    /\ KerneldRuns /\ kpc = "insert"
    /\ \E p \in VoidProcess, t \in VoidThread :
          /\ AttachThread(p, t)
          /\ procs' = InsertAfter(procs, KProc, p)
          /\ created' = created \cup {p, t}
    /\ lock' = FALSE
    /\ kpc' = "collectProcesses"
    /\ UNCHANGED <<pdied, deadVars, threadVars, freed, current, phase, resume,
                   kprocs, kthreads, kvictim>>

(* A mutant: the list of the dead is taken and left. *)
TakeDeadProcessesTwice == kprocs' = deadProcs /\ UNCHANGED deadProcs

(* sd_getCollectableProcesses() and sd_getCollectableThreads() *)
TakeDeadProcesses == kprocs' = deadProcs /\ deadProcs' = <<>>

KdTakeProcesses ==
    /\ KerneldRuns /\ kpc = "takeProcesses"
    /\ TakeDeadProcesses
    /\ lock' = FALSE
    /\ kpc' = "destroyProcesses"
    /\ UNCHANGED <<procVars, deadThreads, threadVars, memVars, current, phase,
                   resume, kthreads, kvictim>>

(* A mutant: the list of the dead is taken and left. *)
TakeDeadThreadsTwice == kthreads' = deadThreads /\ UNCHANGED deadThreads

TakeDeadThreads == kthreads' = deadThreads /\ deadThreads' = <<>>

KdTakeThreads ==
    /\ KerneldRuns /\ kpc = "takeThreads"
    /\ TakeDeadThreads
    /\ lock' = FALSE
    /\ kpc' = "destroyThreads"
    /\ UNCHANGED <<procVars, deadProcs, threadVars, memVars, current, phase,
                   resume, kprocs, kvictim>>

(* The threads thread_destroy() is still to be called for *)
KdVictims ==
    IF kpc = "destroyProcesses" /\ kprocs # <<>> THEN threads[Head(kprocs)]
    ELSE IF kpc = "destroyThreads" THEN kthreads
    ELSE <<>>

(* thread_destroy(): thread_notify() wakes the listeners one at a time ... *)
KdNotify ==
    LET t == Head(KdVictims)
        u == Head(listener[t])
    IN /\ KerneldRuns /\ KdVictims # <<>> /\ kvictim = NULL
       /\ IF listener[t] = <<>>
          THEN kvictim' = t /\ UNCHANGED <<blocks, listener>>
          ELSE /\ blocks' = [blocks EXCEPT ![u] = UInt8(@ - 1)]
               /\ listener' = [listener EXCEPT ![t] = Tail(@)]
               /\ UNCHANGED kvictim
       /\ UNCHANGED <<procVars, deadVars, tdied, usedTicks, sleepVars, memVars,
                      cpuVars, kpc, kprocs, kthreads>>

(* ... and the rest of it frees the thread and what is left of the list *)
KdFreeThread ==
    /\ KerneldRuns /\ kvictim # NULL
    /\ listener' = [listener EXCEPT ![kvictim] = <<>>]
    /\ freed' = freed \cup {kvictim}
    /\ kvictim' = NULL
    /\ IF kpc = "destroyProcesses"
       THEN /\ threads' = [threads EXCEPT ![Head(kprocs)] = Tail(@)]
            /\ UNCHANGED kthreads
       ELSE /\ kthreads' = Tail(kthreads)
            /\ UNCHANGED threads
    /\ UNCHANGED <<procs, pdied, scheduled, deadVars, tdied, usedTicks, blocks,
                   sleepVars, created, cpuVars, kpc, kprocs>>

(* The end of process_destroy() *)
KdFreeProcess ==
    /\ KerneldRuns /\ kpc = "destroyProcesses"
    /\ kprocs # <<>> /\ threads[Head(kprocs)] = <<>>
    /\ freed' = freed \cup {Head(kprocs)}
    /\ kprocs' = Tail(kprocs)
    /\ UNCHANGED <<procVars, deadVars, threadVars, created, cpuVars, kpc,
                   kthreads, kvictim>>

(* A mutant: kerneld stops after the processes. *)
AfterProcessesHalt == "halt"

AfterProcesses == "collectThreads"

(* From one list to the other, and up to hlt.  The loop begins with        *)
(* fewer system threads or no user process when they cannot be created.    *)
KdTurn ==
    /\ KerneldRuns
    /\ \/ kpc = "boot" /\ kpc' = "spawn"
       \/ kpc = "spawn" /\ kpc' = "collectProcesses"
       \/ kpc = "destroyProcesses" /\ kprocs = <<>> /\ kpc' = AfterProcesses
       \/ kpc = "destroyThreads" /\ kthreads = <<>> /\ kpc' = "halt"
    /\ UNCHANGED <<procVars, deadVars, threadVars, memVars, cpuVars, kprocs,
                   kthreads, kvictim>>

-----------------------------------------------------------------------------
SdStep == SdEnter \/ SdSkip \/ SdPick \/ SdReturn

KerneldStep ==
    \/ KdYield \/ KdCreateThread \/ KdLock \/ KdInsertProcess
    \/ KdTakeProcesses \/ KdTakeThreads
    \/ KdNotify \/ KdFreeThread \/ KdFreeProcess \/ KdTurn

Syscall ==
    \/ ScThreadAttach \/ ScFork \/ ScSleep \/ ScThreadJoin
    \/ ScWait \/ ScThreadExit \/ ScExit

Next == SdStep \/ Tick \/ Yield \/ SdThreadExit \/ Syscall \/ KerneldStep

(* A handler runs to its end, the timer keeps interrupting, and kerneld   *)
(* executes some of its code whenever the scheduler gives it the CPU.      *)
Fairness == WF_vars(SdStep) /\ SF_vars(Tick) /\ SF_vars(KerneldStep)

Spec == Init /\ [][Next]_vars /\ Fairness

(* All processes but kerneld's and all threads but kerneld are alike.      *)
Interchangeable ==
    Permutations(Process \ {KProc}) \cup Permutations(Thread \ {Kerneld})

-----------------------------------------------------------------------------
(* Properties *)

KpcValues ==
    {"start", "boot", "spawn", "insert", "collectProcesses", "takeProcesses",
     "destroyProcesses", "collectThreads", "takeThreads", "destroyThreads",
     "halt"}

(* The fields of the process and thread structures, the lists and the      *)
(* locals of the handler and of kerneld have their types; usedTicks and    *)
(* blocks stay in an uint8_t.                                              *)
TypeOK ==
    /\ procs \in Seq(Process) /\ deadProcs \in Seq(Process) /\ kprocs \in Seq(Process)
    /\ deadThreads \in Seq(Thread) /\ kthreads \in Seq(Thread)
    /\ current \in Process
    /\ lock \in BOOLEAN
    /\ pdied \in [Process -> BOOLEAN]
    /\ threads \in [Process -> Seq(Thread)]
    /\ scheduled \in [Process -> Thread \cup {NULL}]
    /\ tdied \in [Thread -> BOOLEAN]
    /\ usedTicks \in [Thread -> 0..WantedTicks + 1]
    /\ blocks \in [Thread -> 0..255]
    /\ sleeping \in [Thread -> BOOLEAN]
    /\ alarm \in [Thread -> Nat]
    /\ listener \in [Thread -> Seq(Thread)]
    /\ created \subseteq Process \cup Thread
    /\ freed \subseteq Process \cup Thread
    /\ phase \in {"run", "enter", "loop", "return"}
    /\ resume \in Thread \cup {NULL}
    /\ kpc \in KpcValues
    /\ kvictim \in Thread \cup {NULL}

(* sd_schedule() gives the CPU to a live thread: its process is in the run *)
(* list and has not died, the thread is in its process's list and neither  *)
(* exited nor was freed.                                                   *)
OnlyLiveRuns ==
    phase = "run" =>
        /\ current \in ToSet(procs) /\ ~pdied[current]
        /\ CurrentThread \in ToSet(threads[current])
        /\ ~tdied[CurrentThread] /\ CurrentThread \notin freed

(* It gives the CPU to a thread that nothing blocks, although kerneld      *)
(* counts the blocks of other threads down while it is preempted, and      *)
(* _sc_sleep() does after the next thread was chosen.                      *)
OnlyUnblockedRuns ==
    phase = "run" => blocks[CurrentThread] = 0 /\ ~sleeping[CurrentThread]

(* Every process in use is in exactly one place, once: the run list, the   *)
(* list of the dead, or kerneld's hands.  What was freed is in none: the   *)
(* scheduler never follows a pointer to freed memory and kerneld frees     *)
(* nothing twice.                                                          *)
ProcessInOnePlace ==
    LET all == procs \o deadProcs \o kprocs
    IN IsInjective(all) /\ ToSet(all) = (created \cap Process) \ freed

(* The same of a thread, which is in the list of a process that was not    *)
(* freed, in the list of the dead, or in kerneld's hands.                  *)
ThreadInOnePlace ==
    LET dead == deadThreads \o kthreads
        own(p) == ToSet(threads[p])
    IN /\ IsInjective(dead)
       /\ \A p \in Process :
            /\ IsInjective(threads[p])
            /\ own(p) \cap ToSet(dead) = {}
            /\ \A q \in Process \ {p} : own(p) \cap own(q) = {}
       /\ ToSet(dead) \cup UNION {own(p) : p \in Process} = (created \cap Thread) \ freed

(* The comment in sd_schedule(): the lock is never taken from a thread by  *)
(* scheduling another one.  So when it is held while code runs, kerneld    *)
(* holds it and kerneld runs, and no spinlock_lock(&_sd_lock) ever waits.  *)
LockHolderRuns ==
    phase = "run" /\ lock =>
        KerneldRuns /\ kpc \in {"insert", "takeProcesses", "takeThreads"}

(* The waits for an exit that end with a thread: <<t, i>> when it is the   *)
(* i-th listener of t.                                                     *)
Joins(u) == UNION {{t} \X {i \in DOMAIN listener[t] : listener[t][i] = u} : t \in Thread}

Resources(u) == Cardinality(Joins(u)) + (IF sleeping[u] THEN 1 ELSE 0)
                                      + (IF resume = u THEN 1 ELSE 0)

(* thread.h: blocks is the number of resources that block the thread: the  *)
(* exits it waits for, its alarm, and _sc_sleep()'s own until it returns.  *)
BlocksCountResources == \A u \in Thread : blocks[u] = Resources(u)

(* thread.h:96 says of a listener's blocks that it is "True if the listener*)
(* is waiting for the event", and thread_notify() counts its blocks down:  *)
(* such a thread must not be freed before the one it listens to.           *)
ListenersAllocated ==
    \A t \in Thread : ToSet(listener[t]) \cap freed = {}

(* With interrupts disabled the time stands still, so sd_schedule() must   *)
(* find a thread to run among those that can run now.                      *)
ScheduleReturns == phase # "run" ~> phase = "run"

Runnable(t) ==
    \E p \in ToSet(procs) :
        t \in ToSet(threads[p]) /\ ~pdied[p] /\ ~tdied[t] /\ blocks[t] = 0

Runs(t) == phase = "run" /\ CurrentThread = t

(* No thread that can run is passed over forever. *)
EveryRunnableRuns == \A t \in Thread : Runnable(t) ~> (Runs(t) \/ ~Runnable(t))

(* A sleep ends, by the alarm or with the process.                         *)
SleepersWake == \A t \in Thread : sleeping[t] ~> (~sleeping[t] \/ t \in freed)

(* Everyone who waits for a thread that exited, or whose process did, is   *)
(* woken: kerneld destroys the thread and that notifies its listeners.     *)
JoinersWoken ==
    \A t, u \in Thread :
        /\ u \in ToSet(listener[t])
        /\ \/ t \in ToSet(deadThreads)
           \/ \E p \in ToSet(deadProcs) : t \in ToSet(threads[p])
        ~> u \notin ToSet(listener[t])
=============================================================================
