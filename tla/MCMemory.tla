------------------------------ MODULE MCMemory ------------------------------
(***************************************************************************)
(* The memory of the machine, from the bitmap of physical pages up to the  *)
(* malloc() of a program.  Each allocator is checked against an idealised  *)
(* one below it; a behaviour belongs to one of them, which Init chooses,   *)
(* so that the states add up instead of multiplying.                       *)
(***************************************************************************)
EXTENDS PMemory

CONSTANTS
    Thread,                \* the threads of vmemory.c and of a program
    Process, Description,  \* the processes, and their mappings
    TinyMax, SmallMax, MediumMax, SmallPages, MediumPages, PageSize,
    ChunkMax, Extra, Align, Threshold, SizeT, Base
                           \* the sizes of a heap, scaled down

VARIABLES
    used,                                            \* the part of this behaviour
    heap, blocks, panicked,                          \* Heap
    present, dirMap, exists, dirLock, dirCall, given, raced, covered, stopped,
                                                     \* VMemory
    frames, kernel, requests, releasing, pending, overran,  \* DMA
    alive, mappings, locked, desc, tables, userMap, unused, stray, overlaid, calls, broken,
                                                     \* MMap
    created, zones, live, mem, call, crashed,        \* Zone
    rest, spaces, threads, creating, victim, forked, started, leaked, fault
                                                     \* ThreadStacks

Kernel == INSTANCE Heap WITH
    Size <- {1, 3, 8, 10}, Entries <- 4, MaxAllocations <- 5,
    zones <- heap, live <- blocks

Virtual == INSTANCE VMemory WITH
    Frame <- {"f1"}, Tables <- 3, TableLength <- 2, Cleared <- 1, KernelPages <- {1},
    Trampoline <- 4, StackLimit <- 3, Hints <- {2}, MaxPages <- 2, MaxGiven <- 2,
    map <- dirMap, created <- exists, lock <- dirLock, call <- dirCall, panicked <- stopped

Transfer == INSTANCE DMA WITH
    Frames <- 6, Pages <- 4, MaxFragments <- 2, MaxPages <- 3, MaxRequests <- 2,
    free <- frames

User == INSTANCE MMap WITH
    Frames <- 4, Tables <- 2, TableLength <- 3, Hints <- {3}, MaxLength <- 3, MaxCalls <- 5,
    held <- locked, map <- userMap, free <- unused

Program == INSTANCE Zone WITH
    MaxBlocks <- 2, Size <- {1, 8}, Entries <- 3, MaxAllocations <- 4

Stacks == INSTANCE ThreadStacks WITH
    Process <- {"kernel", "init", "child"}, KProc <- "kernel", Frames <- 6, Pages <- 6,
    StackLimit <- 4, StackPages <- 2, MaxTLS <- 2, MaxCreated <- 4,
    free <- rest, map <- spaces, created <- started

ASSUME MemoryAssumption ==
    /\ PMemoryAssumption
    /\ Kernel!HeapAssumption
    /\ Virtual!VMemoryAssumption
    /\ Transfer!DMAAssumption
    /\ User!MMapAssumption
    /\ Program!H!HeapAssumption
    /\ Stacks!StacksAssumption

heapVars == <<heap, blocks, panicked>>
virtualVars == <<present, dirMap, exists, dirLock, dirCall, given, raced, covered, stopped>>
transferVars == <<frames, kernel, requests, releasing, pending, overran>>
userVars == <<alive, mappings, locked, desc, tables, userMap, unused, stray, overlaid, calls,
              broken>>
programVars == <<created, zones, live, mem, call, crashed>>
stackVars == <<rest, spaces, threads, creating, victim, forked, started, leaked, fault>>
memoryVars == <<used, vars, heapVars, virtualVars, transferVars, userVars, programVars,
                stackVars>>

MemoryInit ==
    /\ used \in {"physical", "heap", "virtual", "transfer", "user", "program", "stacks"}
    /\ Init
    /\ used # "physical" => free = {}
    /\ Kernel!Init
    /\ Virtual!Init
    /\ Transfer!Init
    /\ User!Init
    /\ Program!Init
    /\ Stacks!Init

UsePhysical ==
    /\ used = "physical"
    /\ Next
    /\ UNCHANGED <<used, heapVars, virtualVars, transferVars, userVars, programVars,
                   stackVars>>

UseHeap ==
    /\ used = "heap"
    /\ Kernel!Next
    /\ UNCHANGED <<used, vars, virtualVars, transferVars, userVars, programVars,
                   stackVars>>

UseVirtual ==
    /\ used = "virtual"
    /\ Virtual!Next
    /\ UNCHANGED <<used, vars, heapVars, transferVars, userVars, programVars,
                   stackVars>>

UseTransfer ==
    /\ used = "transfer"
    /\ Transfer!Next
    /\ UNCHANGED <<used, vars, heapVars, virtualVars, userVars, programVars,
                   stackVars>>

UseUser ==
    /\ used = "user"
    /\ User!Next
    /\ UNCHANGED <<used, vars, heapVars, virtualVars, transferVars, programVars,
                   stackVars>>

UseProgram ==
    /\ used = "program"
    /\ Program!Next
    /\ UNCHANGED <<used, vars, heapVars, virtualVars, transferVars, userVars,
                   stackVars>>

UseStacks ==
    /\ used = "stacks"
    /\ Stacks!Next
    /\ UNCHANGED <<used, vars, heapVars, virtualVars, transferVars, userVars,
                   programVars>>

MemoryNext ==
    UsePhysical \/ UseHeap \/ UseVirtual \/ UseTransfer \/ UseUser \/ UseProgram \/ UseStacks

(* The holder of the lock of the pages is a runnable thread, which the     *)
(* scheduler serves.                                                       *)
MemoryFairness ==
    \A c \in Caller : WF_vars(used = "physical" /\ Step(c))

MemorySpec == MemoryInit /\ [][MemoryNext]_memoryVars /\ MemoryFairness

-----------------------------------------------------------------------------
(* The properties of a part are about the behaviours in which it is used.  *)

(* The blocks of the kernel's heap are whole and apart, the zones tiled    *)
(* and counted, and hfree() finds every block.                             *)
HeapConsistent ==
    used = "heap" =>
        /\ Kernel!TypeOK
        /\ Kernel!LiveBlocksIntact
        /\ Kernel!EntriesTileZone
        /\ Kernel!CountersExact
        /\ Kernel!NoIdleZone
        /\ Kernel!FreeFindsBlock

(* The search in an address space is first fit, and what was mapped for a  *)
(* caller stays mapped.                                                    *)
MappingsKept == used = "virtual" => Virtual!SearchIsFirstFit /\ Virtual!MappingsKept

(* A DMA request owns its physical pages alone.                            *)
RequestsSound == used = "transfer" => Transfer!RequestsSound

(* The mappings of a process are its own; what the threads take for their  *)
(* stacks and their local storage they have alone, and give back.          *)
MappingsPrivate ==
    /\ used = "user" => User!MappingsPrivate
    /\ used = "stacks" => Stacks!StacksSound

(* What a program wrote to a block stays there.                            *)
BlocksKeepContents == used = "program" => Program!BlocksKeepContents
=============================================================================
