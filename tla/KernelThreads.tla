---------------------------- MODULE KernelThreads ----------------------------
(***************************************************************************)
(* Kernel threads that put themselves to sleep and wake each other, as the *)
(* run loops of libio do through __io_threadSleep() and __io_threadWakeup()*)
(* of sys/ioglue/iostubs.c.  A system call runs these functions with       *)
(* interrupts disabled; a kernel thread runs them with interrupts enabled, *)
(* so the timer can interrupt it between any two stores of thread_sleep()  *)
(* and thread_wakeup().                                                    *)
(***************************************************************************)
EXTENDS Scheduler

VARIABLES
    iopc,    \* where a kernel thread is in one of the two functions
    iowake   \* the thread it wakes up

ioVars == <<iopc, iowake>>
kernelVars == <<vars, ioVars>>

IoInit ==
    /\ Init
    /\ iopc = [t \in Thread |-> "idle"]
    /\ iowake = [t \in Thread |-> NULL]

(* A kernel thread other than kerneld runs the step at from, ending at to *)
IoStep(from, to) ==
    LET t == CurrentThread
    IN /\ phase = "run" /\ current = KProc /\ t # Kerneld
       /\ iopc[t] = from
       /\ iopc' = [iopc EXCEPT ![t] = to]
       /\ UNCHANGED <<procVars, deadVars, tdied, listener, memVars, resume, kVars>>

(* thread_sleep(): if(!thread->sleeping) { alarm = now; ... *)
IoSleep ==
    /\ IoStep("idle", IF sleeping[CurrentThread] THEN "add" ELSE "sleeping")
    /\ alarm' = [alarm EXCEPT ![CurrentThread] = IF sleeping[CurrentThread] THEN @ ELSE 0]
    /\ UNCHANGED <<usedTicks, blocks, sleeping, cpuVars, iowake>>

(* ... sleeping = true; ... *)
IoSetSleeping ==
    /\ IoStep("sleeping", "block")
    /\ sleeping' = [sleeping EXCEPT ![CurrentThread] = TRUE]
    /\ UNCHANGED <<usedTicks, blocks, alarm, cpuVars, iowake>>

(* ... blocks ++; } ... *)
IoBlock ==
    /\ IoStep("block", "add")
    /\ blocks' = [blocks EXCEPT ![CurrentThread] = UInt8(@ + 1)]
    /\ UNCHANGED <<usedTicks, sleepVars, cpuVars, iowake>>

(* ... alarm += time *)
IoAddTime ==
    /\ IoStep("add", "yield")
    /\ alarm' = [alarm EXCEPT ![CurrentThread] = @ + MaxSleep]
    /\ UNCHANGED <<usedTicks, blocks, sleeping, cpuVars, iowake>>

(* The sd_yield() that follows *)
IoYield ==
    /\ IoStep("yield", "idle")
    /\ usedTicks' = [usedTicks EXCEPT ![CurrentThread] = WantedTicks]
    /\ SdCall
    /\ UNCHANGED <<blocks, sleepVars, iowake>>

(* thread_wakeup(): if(thread->sleeping) ... *)
IoWakeup ==
    /\ \E t \in ToSet(threads[KProc]) \ {Kerneld, CurrentThread} :
         /\ sleeping[t]
         /\ iowake' = [iowake EXCEPT ![CurrentThread] = t]
    /\ IoStep("idle", "clear")
    /\ UNCHANGED <<usedTicks, blocks, sleepVars, cpuVars>>

(* ... sleeping = false; alarm = 0; ... *)
IoClear ==
    LET u == iowake[CurrentThread]
    IN /\ IoStep("clear", "unblock")
       /\ sleeping' = [sleeping EXCEPT ![u] = FALSE]
       /\ alarm' = [alarm EXCEPT ![u] = 0]
       /\ UNCHANGED <<usedTicks, blocks, cpuVars, iowake>>

(* ... blocks -- *)
IoUnblock ==
    LET u == iowake[CurrentThread]
    IN /\ IoStep("unblock", "idle")
       /\ blocks' = [blocks EXCEPT ![u] = UInt8(@ - 1)]
       /\ iowake' = [iowake EXCEPT ![CurrentThread] = NULL]
       /\ UNCHANGED <<usedTicks, sleepVars, cpuVars>>

IoNext ==
    \/ IoSleep \/ IoSetSleeping \/ IoBlock \/ IoAddTime \/ IoYield
    \/ IoWakeup \/ IoClear \/ IoUnblock
    \/ (SdStep \/ Tick \/ KerneldStep) /\ UNCHANGED ioVars

IoSpec == IoInit /\ [][IoNext]_kernelVars

(* thread.h on thread->blocks: "The number of resources that block the     *)
(* thread, or 0 if the thread isn't blocked".  The only resource that      *)
(* blocks a kernel thread is its alarm.                                    *)
KernelBlocksCountAlarm == \A t \in Thread : blocks[t] <= 1
=============================================================================
