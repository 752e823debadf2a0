---------------------------- MODULE ThreadStacks ----------------------------
(***************************************************************************)
(* The memory of a thread: its stacks and its thread local storage, from   *)
(* thread_createKernel(), thread_createUserland(), thread_clone() and      *)
(* thread_getTLSArea() to thread_destroy() (sys/scheduler/thread.c).       *)
(*                                                                         *)
(* System calls run with interrupts disabled, in one step.  Kernel threads *)
(* create other kernel threads, and kerneld destroys what died, with       *)
(* interrupts enabled: what they do between two pm_ or vm_ calls is a step *)
(* of its own.  pm_alloc() and vm_alloc() are first fit (PMemory, VMemory):*)
(* THREAD_STACK_LIMIT lies inside a table, but when that is absent there   *)
(* is nothing behind it yet, which is where VMemory's search would err.    *)
(***************************************************************************)
EXTENDS Integers, FiniteSetsExt

CONSTANTS
    Thread, Process,
    KProc,        \* the kernel's process, which has the kernel's directory
    Frames,       \* the number of physical pages
    Pages,        \* the number of pages of a directory
    StackLimit,   \* THREAD_STACK_LIMIT: the first page of the stacks
    StackPages,   \* the pages of a user stack
    MaxTLS,       \* the pages thread_getTLSArea() allows
    MaxCreated,   \* bound: threads that are ever created
    NULL

StacksAssumption ==
    /\ KProc \in Process
    /\ StackLimit \in 1..Pages
    /\ StackPages \in Nat \ {0} /\ MaxTLS \in Nat \ {0}

VARIABLES
    free,      \* the physical pages that are free
    map,       \* what each page of each directory is mapped to, or NULL
    threads,   \* the thread_t of each thread, or NULL
    creating,  \* the kernel thread that has a stack but no address for it
    victim,    \* where thread_destroy() of kerneld is, or NULL
    forked,    \* the processes process_fork() made, or failed to make
    created,   \* how many threads were created
    leaked,    \* pages of the kernel that no one gives back
    fault      \* what went wrong, or "none"

vars == <<free, map, threads, creating, victim, forked, created, leaked, fault>>

Frame == 1..Frames
Page == 1..Pages
Run(p, n) == IF p = 0 THEN {} ELSE p..p + n - 1

(* thread_createVoid(), as far as memory is concerned.  "taken" are the    *)
(* frames that were allocated for the thread, "stack" those for its user   *)
(* stack.                                                                  *)
Void(p) ==
    [process |-> p, userStack |-> 0, userVirt |-> 0, userPages |-> 0, kernelStack |-> 0,
     kernelVirt |-> 0, tls |-> 0, tlsPages |-> 0, taken |-> {},
     stack |-> {}]

Init ==
    /\ free = Frame
    /\ map = [p \in Process |-> [v \in Page |-> NULL]]
    /\ threads = [t \in Thread |-> NULL]
    /\ creating = NULL
    /\ victim = NULL
    /\ forked = {}
    /\ created = 0
    /\ leaked = {}
    /\ fault = "none"

(* The first n that are free, or 0.                                        *)
FirstRun(S, n) ==
    LET starts == {p \in S : Run(p, n) \subseteq S} IN
    IF starts = {} THEN 0 ELSE Min(starts)

Unmapped(p) == {v \in Page : map[p][v] = NULL}
StackArea(p) == {v \in Unmapped(p) : v >= StackLimit}

Mapping(p, v, n, f) == [w \in Page |-> IF w \in Run(v, n) THEN f + (w - v) ELSE map[p][w]]
Unmapping(p, v, n) == [w \in Page |-> IF w \in Run(v, n) THEN NULL ELSE map[p][w]]

(* The thread_t that halloc() returns next.                                *)
New ==
    LET unused == {t \in Thread : threads[t] = NULL /\ (creating = NULL \/ creating.thread # t)}
    IN  IF unused = {} \/ created = MaxCreated THEN {} ELSE {CHOOSE t \in unused : TRUE}
Live == {t \in Thread : threads[t] # NULL}
Threads(p) == {t \in Live : threads[t].process = p}

(* A live thread that is not being destroyed and can make a system call.   *)
User == {t \in Live : threads[t].process # KProc /\ (victim = NULL \/ victim.thread # t)}

-----------------------------------------------------------------------------
(* thread_createKernel(): the physical page, and its address.              *)
CreateKernel ==
    \E t \in New :
      LET f == FirstRun(free, 1) IN
      /\ creating = NULL
      /\ f # 0
      /\ creating' = [thread |-> t, frame |-> f]
      /\ free' = free \ {f}
      /\ created' = created + 1
      /\ UNCHANGED <<map, threads, victim, forked, leaked, fault>>

MapKernelStack ==
    LET v == FirstRun(StackArea(KProc), 1)
        f == creating.frame
    IN
    /\ creating # NULL
    /\ creating' = NULL
    /\ IF v = 0
       THEN free' = free \cup {f} /\ UNCHANGED <<map, threads>>
       ELSE /\ map' = [map EXCEPT ![KProc] = Mapping(KProc, v, 1, f)]
            /\ threads' = [threads EXCEPT ![creating.thread] =
                 [Void(KProc) EXCEPT !.kernelStack = f, !.kernelVirt = v, !.taken = {f}]]
            /\ UNCHANGED free
    /\ UNCHANGED <<victim, forked, created, leaked, fault>>

(* A mutant: the address of the kernel stack is only free in the kernel.   *)
TwoSidedKernel(p, used) == FirstRun(StackArea(KProc), 1)

(* vm_allocTwoSidedLimit(): a page that is free in the process and in the  *)
(* kernel; the process already uses some more.                             *)
TwoSided(p, used) == FirstRun((StackArea(p) \ used) \cap StackArea(KProc), 1)

(* thread_createUserland(), of _sc_threadAttach() or for the first program.*)
(* If a step fails, thread_destroy() gives back what the thread has.       *)
CreateUserland ==
    \E t \in New, p \in Process \ {KProc} :
      LET stack == FirstRun(free, StackPages)
          kstack == FirstRun(free \ Run(stack, StackPages), 1)
          virt == FirstRun(StackArea(p), StackPages)
          window == FirstRun(Unmapped(KProc), 1)
          kvirt == TwoSided(p, Run(virt, StackPages))
          made == [Void(p) EXCEPT
                     !.userStack = stack, !.userVirt = virt, !.userPages = StackPages,
                     !.kernelStack = kstack, !.kernelVirt = kvirt,
                     !.stack = Run(stack, StackPages),
                     !.taken = Run(stack, StackPages) \cup {kstack}]
      IN
      /\ p \notin forked \/ Threads(p) # {}
      /\ 0 \notin {stack, kstack, virt, window, kvirt}
      /\ free' = free \ made.taken
      /\ threads' = [threads EXCEPT ![t] = made]
      /\ map' = [map EXCEPT
           ![p] = [w \in Page |-> IF w = kvirt THEN kstack
                                  ELSE Mapping(p, virt, StackPages, stack)[w]],
           ![KProc] = Mapping(KProc, kvirt, 1, kstack)]
      /\ created' = created + 1
      /\ UNCHANGED <<creating, victim, forked, leaked, fault>>

(* thread_clone(), of _sc_fork(), into a new directory: one page is        *)
(* allocated and mapped for the user stack, but the pages are copied from  *)
(* the source.  If there is no room to copy it or for the kernel stack,    *)
(* thread_destroy() gives back more than was taken.                        *)
Clone ==
    \E s \in User, t \in New, p \in Process \ {KProc} :
      LET stack == FirstRun(free, 1)
          kstack == FirstRun(free \ {stack}, 1)
          window == FirstRun(Unmapped(KProc), 1)
          other == FirstRun(Unmapped(KProc) \ {window}, 1)
          virt == threads[s].userVirt
          kvirt == TwoSided(p, {virt})
          made == [Void(p) EXCEPT
                     !.userStack = stack, !.userVirt = virt,
                     !.userPages = threads[s].userPages,
                     !.kernelStack = kstack, !.kernelVirt = kvirt,
                     !.stack = {stack}, !.taken = {stack, kstack}]
      IN
      /\ Threads(p) = {} /\ p \notin forked
      /\ Unmapped(p) = Page
      /\ 0 \notin {stack, kstack}
      /\ IF 0 \in {window, other, kvirt}
         THEN /\ free' = free \cup (Run(stack, made.userPages) \cap Frame)
              /\ fault' = IF made.userPages > 1 THEN "overfreed" ELSE fault
              /\ UNCHANGED <<map, threads>>
         ELSE /\ free' = free \ made.taken
              /\ threads' = [threads EXCEPT ![t] = made]
              /\ map' = [map EXCEPT
                   ![p] = [w \in Page |-> IF w = virt THEN stack
                                          ELSE IF w = kvirt THEN kstack ELSE NULL],
                   ![KProc] = Mapping(KProc, kvirt, 1, kstack)]
              /\ UNCHANGED fault
      /\ forked' = forked \cup {p}
      /\ created' = created + 1
      /\ UNCHANGED <<creating, victim, leaked>>

-----------------------------------------------------------------------------
AllowedPages(n) == Max({1, Min({MaxTLS, n})})

(* thread_getTLSArea() that finds the area, or has to allocate it.  The    *)
(* address in the kernel at which it is cleared, and the one from which it *)
(* is copied, are not checked; the latter stays mapped.                    *)
GetTLSArea ==
    \E t \in User, n \in 0..MaxTLS + 1 :
      LET d == threads[t]
          p == d.process
          pages == AllowedPages(n)
          f == FirstRun(free, pages)
          v == FirstRun(Unmapped(p), pages)
          target == FirstRun(Unmapped(KProc), pages)
          source == FirstRun(Unmapped(KProc) \ Run(target, pages), d.tlsPages)
          old == map[p][d.tls]
          resize == d.tls # 0
      IN
      /\ d.tls = 0 \/ pages > d.tlsPages
      /\ 0 \notin {f, v}
      /\ IF target = 0 \/ (resize /\ source = 0)
         THEN fault' = "panic" /\ UNCHANGED <<free, map, threads, leaked>>
         ELSE /\ free' = (free \ Run(f, pages))
                           \cup (IF resize THEN Run(old, d.tlsPages) ELSE {})
              /\ threads' = [threads EXCEPT ![t] =
                   [d EXCEPT !.tls = v, !.tlsPages = pages,
                             !.taken = (@ \ (IF resize THEN Run(old, d.tlsPages) ELSE {}))
                                          \cup Run(f, pages)]]
              /\ map' = [map EXCEPT
                   ![p] = [w \in Page |->
                             IF w \in Run(v, pages) THEN f + (w - v)
                             ELSE Unmapping(p, d.tls, d.tlsPages)[w]],
                   ![KProc] = IF resize THEN Mapping(KProc, source, d.tlsPages, old) ELSE @]
              /\ leaked' = IF resize THEN leaked \cup Run(source, d.tlsPages) ELSE leaked
              /\ UNCHANGED fault
      /\ UNCHANGED <<creating, victim, forked, created>>

-----------------------------------------------------------------------------
(* thread_destroy() of a thread that died, by kerneld.                     *)
Destroy ==
    \E t \in Live :
      /\ victim = NULL
      /\ victim' = [thread |-> t, at |-> "userVirt", frame |-> 0]
      /\ UNCHANGED <<free, map, threads, creating, forked, created, leaked, fault>>

At(step) == victim # NULL /\ victim.at = step

UnmapUserStack ==
    LET d == threads[victim.thread] IN
    /\ At("userVirt")
    /\ map' = [map EXCEPT ![d.process] = Unmapping(d.process, d.userVirt, d.userPages)]
    /\ victim' = [victim EXCEPT !.at = "userStack"]
    /\ UNCHANGED <<free, threads, creating, forked, created, leaked, fault>>

(* A mutant: the user stack is one page. *)
UserStackOne(d) == Run(d.userStack, 1)

UserStack(d) == Run(d.userStack, d.userPages) \cap Frame

FreeUserStack ==
    LET d == threads[victim.thread] IN
    /\ At("userStack")
    /\ free' = free \cup UserStack(d)
    /\ fault' = IF UserStack(d) \subseteq d.stack THEN fault ELSE "overfreed"
    /\ threads' = [threads EXCEPT ![victim.thread].taken = @ \ UserStack(d)]
    /\ victim' = [victim EXCEPT !.at = "kernelVirt"]
    /\ UNCHANGED <<map, creating, forked, created, leaked>>

(* vm_free() in the directory of the process, which is the kernel's for a  *)
(* kernel thread.                                                          *)
UnmapKernelStack ==
    LET d == threads[victim.thread] IN
    /\ At("kernelVirt")
    /\ map' = [map EXCEPT ![d.process] = Unmapping(d.process, d.kernelVirt, 1)]
    /\ victim' = [victim EXCEPT !.at = "kernelSide"]
    /\ UNCHANGED <<free, threads, creating, forked, created, leaked, fault>>

(* vm_free() in the kernel's directory.  The page of a kernel thread is    *)
(* unmapped already, and may be mapped for another thread.                 *)
UnmapKernelSide ==
    LET d == threads[victim.thread] IN
    /\ At("kernelSide")
    /\ map' = [map EXCEPT ![KProc] = Unmapping(KProc, d.kernelVirt, 1)]
    /\ fault' = IF map[KProc][d.kernelVirt] \in {NULL, d.kernelStack} THEN fault
                ELSE "unmapped"
    /\ victim' = [victim EXCEPT !.at = "tls"]
    /\ UNCHANGED <<free, threads, creating, forked, created, leaked>>

UnmapTLS ==
    LET d == threads[victim.thread] IN
    /\ At("tls")
    /\ victim' = [victim EXCEPT !.at = "frames",
                                !.frame = IF d.tls = 0 THEN 0 ELSE map[d.process][d.tls]]
    /\ map' = [map EXCEPT ![d.process] = Unmapping(d.process, d.tls, d.tlsPages)]
    /\ UNCHANGED <<free, threads, creating, forked, created, leaked, fault>>

FreeFrames ==
    LET d == threads[victim.thread] IN
    /\ At("frames")
    /\ free' = free \cup Run(victim.frame, d.tlsPages) \cup {d.kernelStack}
    /\ threads' = [threads EXCEPT ![victim.thread] = NULL]
    /\ victim' = NULL
    /\ UNCHANGED <<map, creating, forked, created, leaked, fault>>

Next ==
    /\ fault = "none"
    /\ \/ CreateKernel \/ MapKernelStack \/ CreateUserland \/ Clone \/ GetTLSArea
       \/ Destroy \/ UnmapUserStack \/ FreeUserStack \/ UnmapKernelStack
       \/ UnmapKernelSide \/ UnmapTLS \/ FreeFrames

Spec == Init /\ [][Next]_vars

-----------------------------------------------------------------------------
Taken == UNION {threads[t].taken : t \in Live}
             \cup (IF creating = NULL THEN {} ELSE {creating.frame})

(* A physical page is free or belongs to one thread, until a clone is      *)
(* destroyed, which gives back as many pages as the stack it was copied    *)
(* from has; kerneld unmaps a page before it is free, so that nothing but  *)
(* the leaked addresses leads to a free page; and a thread that is not     *)
(* being destroyed has its kernel stack at one address in the kernel's     *)
(* directory and its own, unless a kernel thread's address was given to    *)
(* another thread between the two calls of vm_free() for it.               *)
StacksSound ==
    /\ fault = "overfreed" => forked # {}
    /\ fault # "overfreed" =>
         /\ free \cup Taken = Frame
         /\ free \cap Taken = {}
         /\ \A t, u \in Live : t # u => threads[t].taken \cap threads[u].taken = {}
         /\ \A p \in Process, v \in Page :
              map[p][v] \in free => (p = KProc /\ v \in leaked)
    /\ fault # "unmapped" =>
         \A t \in Live : (victim = NULL \/ victim.thread # t) =>
            LET d == threads[t] IN
            /\ map[KProc][d.kernelVirt] = d.kernelStack
            /\ d.process \notin forked => map[d.process][d.kernelVirt] = d.kernelStack
=============================================================================
