------------------------------ MODULE ThreadList ------------------------------
(***************************************************************************)
(* The list of the threads of one process at the level of its ->next       *)
(* pointers.  thread_attachToProcess() changes it under process->          *)
(* threadLock; sd_schedule() unlinks an exited thread under _sd_lock only. *)
(* The process is the kernel's, whose threads attach others with the       *)
(* interrupts enabled (a system call disables them, and Scheduler has it   *)
(* as one step).  Main is its main thread, which is kerneld.               *)
(***************************************************************************)
EXTENDS Integers, FiniteSets

CONSTANTS Thread, Main, NULL

VARIABLES
    next,        \* thread->next, used by the thread list and by the dead list
    dead,        \* _sd_deadThread
    running,     \* process->scheduledThread
    tdied,       \* thread->died
    threadLock,  \* process->threadLock: the thread that holds it, or NULL
    attaching,   \* the thread attachToProcess() has not linked yet
    created,     \* threads thread_createVoid() has returned
    freed        \* threads thread_destroy() has freed

vars == <<next, dead, running, tdied, threadLock, attaching, created, freed>>

Init ==
    /\ next = [t \in Thread |-> NULL]
    /\ dead = NULL
    /\ running = Main
    /\ tdied = [t \in Thread |-> FALSE]
    /\ threadLock = NULL
    /\ attaching = NULL
    /\ created = {Main}
    /\ freed = {}

(* The threads on the chain of ->next pointers that starts at head *)
Chain(head) ==
    LET reach[n \in 0..Cardinality(Thread)] ==
          IF n = 0 THEN {head} \ {NULL}
          ELSE reach[n - 1] \cup ({next[t] : t \in reach[n - 1]} \ {NULL})
    IN reach[Cardinality(Thread)]

(* sd_schedule() moves a process on to its next thread *)
Following(link, t) == IF link[t] # NULL THEN link[t] ELSE Main

(* thread_createVoid(), spinlock_lock(&process->threadLock) and            *)
(* thread->next = mthread->next                                            *)
AttachBegin ==
    /\ threadLock = NULL
    /\ \E t \in Thread \ created :
         /\ next' = [next EXCEPT ![t] = next[Main]]
         /\ attaching' = t
         /\ created' = created \cup {t}
    /\ threadLock' = running
    /\ UNCHANGED <<dead, running, tdied, freed>>

(* mthread->next = thread and spinlock_unlock(&process->threadLock) *)
AttachEnd ==
    /\ threadLock = running
    /\ next' = [next EXCEPT ![Main] = attaching]
    /\ attaching' = NULL
    /\ threadLock' = NULL
    /\ UNCHANGED <<dead, running, tdied, created, freed>>

(* The timer interrupt ends the running thread's time slice *)
Preempt ==
    /\ running' = Following(next, running)
    /\ UNCHANGED <<next, dead, tdied, threadLock, attaching, created, freed>>

(* The running thread exits and sd_schedule() takes it off the list *)
Exit ==
    /\ running # Main /\ threadLock # running
    /\ \E previous \in Chain(Main) :
         /\ next[previous] = running
         /\ next' = [next EXCEPT ![previous] = next[running], ![running] = dead]
         /\ running' = Following(next', previous)
    /\ tdied' = [tdied EXCEPT ![running] = TRUE]
    /\ dead' = running
    /\ UNCHANGED <<threadLock, attaching, created, freed>>

(* kerneld takes the list of the dead and destroys the threads on it *)
Collect ==
    /\ running = Main /\ threadLock # Main
    /\ dead # NULL
    /\ freed' = freed \cup Chain(dead)
    /\ dead' = NULL
    /\ UNCHANGED <<next, running, tdied, threadLock, attaching, created>>

Next == AttachBegin \/ AttachEnd \/ Preempt \/ Exit \/ Collect

Spec == Init /\ [][Next]_vars

(* process.h on threadLock: "Must be obtained before changing something on *)
(* the threads".  What that is for: the list holds exactly the threads     *)
(* that were attached and have not exited, whoever attaches and exits.     *)
ListHoldsLiveThreads ==
    Chain(Main) = {t \in created : ~tdied[t] /\ t # attaching}
=============================================================================
