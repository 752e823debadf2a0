------------------------------- MODULE Syslogd -------------------------------
(***************************************************************************)
(* The kernel log: threads queue messages in a ring buffer under           *)
(* syslogd_lock, and the kernel thread syslogd moves them to the console   *)
(* (sys/kerneld/syslogd.c, sys/system/syslog.c).  Until syslogd runs, and  *)
(* after a panic, a message goes to the console at once.  A panic disables *)
(* interrupts and the scheduler, so from then on only the thread that      *)
(* panics runs (sys/system/panic.c).                                       *)
(*                                                                         *)
(* The ring buffer is the one of Ringbuffer; its bytes are the bytes of    *)
(* messages, so that each byte tells where it comes from.                  *)
(***************************************************************************)
EXTENDS Integers, Sequences

CONSTANTS
    Writer,      \* threads that call syslog()
    Daemon,      \* the thread that runs syslogd()
    Length,      \* bytes of a message, colour prefix included
    MaxMessages, \* bound: how many messages a writer writes
    Size,        \* size of the ring buffer, 80 * 25 in the code
    ChunkSize,   \* how much __syslogd_flush() reads at a time, 255 in the code
    NULL

ASSUME SyslogdAssumption ==
    /\ Daemon \notin Writer /\ NULL \notin Writer \cup {Daemon}
    /\ {Length, Size, ChunkSize} \subseteq Nat \ {0} /\ MaxMessages \in Nat

Threads == Writer \cup {Daemon}

(* The i-th byte of the n-th message of a thread *)
Byte == [from : Threads, n : 1..MaxMessages + 1, i : 1..Length]

VARIABLES
    buffer, begin, end, count,  \* syslogd_buffer
    out,        \* the bytes ringbuffer_read() has delivered
    console,    \* the bytes vd_writeString() has written
    printed,    \* how many bytes of out __syslogd_flush() is done with
    lock,       \* syslogd_lock: the thread that holds it, or NULL
    running,    \* syslogd_running
    pc,         \* where a thread is
    sent,       \* messages a thread has begun
    pos,        \* bytes of the message a thread has written
    panicked    \* the thread that called panic(), or NULL

ringVars == <<buffer, begin, end, count, out>>
logVars == <<console, printed, lock, running>>
threadVars == <<pc, sent, pos>>
vars == <<ringVars, logVars, threadVars, panicked>>

Ring == INSTANCE Ringbuffer

Init ==
    /\ buffer = [k \in 0..Size - 1 |-> [from |-> Daemon, n |-> 1, i |-> 1]]
    /\ begin = 0 /\ end = 0 /\ count = 0 /\ out = <<>>
    /\ console = <<>>
    /\ printed = 0
    /\ lock = NULL
    /\ running = FALSE
    /\ pc = [t \in Threads |-> IF t = Daemon THEN "create" ELSE "idle"]
    /\ sent = [t \in Threads |-> 0]
    /\ pos = [t \in Threads |-> 0]
    /\ panicked = NULL

(* After panic() has disabled interrupts and the scheduler, it runs alone *)
CanRun(t) == panicked \in {NULL, t}

Goto(t, from, to) ==
    /\ CanRun(t) /\ pc[t] = from
    /\ pc' = [pc EXCEPT ![t] = to]

CurrentByte(t) == [from |-> t, n |-> sent[t], i |-> pos[t] + 1]

-----------------------------------------------------------------------------
(* syslogd_queueMessage() *)

Queue(t) ==
    /\ IF t \in Writer THEN sent[t] < MaxMessages \/ panicked = t ELSE panicked = t
    /\ Goto(t, "idle", "lock")
    /\ sent' = [sent EXCEPT ![t] = @ + 1]
    /\ pos' = [pos EXCEPT ![t] = 0]
    /\ UNCHANGED <<ringVars, logVars, panicked>>

(* A mutant: the lock is not waited for. *)
LockFreeUnchecked == TRUE

LockFree == lock = NULL

(* A mutant: the lock is not released. *)
ReleaseNever == UNCHANGED lock

Release == lock' = NULL

MoreBytes(t) == pos[t] < Length

(* spinlock_lock(), then the test of syslogd_running *)
Lock(t) ==
    /\ LockFree
    /\ Goto(t, "lock", IF running THEN "write" ELSE "direct")
    /\ lock' = t
    /\ UNCHANGED <<ringVars, console, printed, running, sent, pos, panicked>>

(* One byte of one of the two ringbuffer_write() calls *)
WriteRing(t) ==
    /\ CanRun(t) /\ pc[t] = "write" /\ MoreBytes(t)
    /\ Ring!WriteByte(CurrentByte(t))
    /\ pos' = [pos EXCEPT ![t] = @ + 1]
    /\ UNCHANGED <<logVars, pc, sent, panicked>>

(* One byte of vd_writeString() *)
WriteConsole(t) ==
    /\ CanRun(t) /\ pc[t] = "direct" /\ MoreBytes(t)
    /\ console' = Append(console, CurrentByte(t))
    /\ pos' = [pos EXCEPT ![t] = @ + 1]
    /\ UNCHANGED <<ringVars, printed, lock, running, pc, sent, panicked>>

Unlock(t) ==
    /\ pos[t] = Length
    /\ \/ Goto(t, "write", "idle")
       \/ Goto(t, "direct", IF panicked = t THEN "halt" ELSE "idle")
    /\ Release
    /\ UNCHANGED <<ringVars, console, printed, running, sent, pos, panicked>>

-----------------------------------------------------------------------------
(* syslogd() and syslogd_flush() *)

(* ringbuffer_create() succeeds, or syslogd() panics *)
DaemonCreate ==
    /\ Goto(Daemon, "create", "start")
    /\ UNCHANGED <<ringVars, logVars, sent, pos, panicked>>

DaemonStart ==
    /\ LockFree
    /\ Goto(Daemon, "start", "started")
    /\ lock' = Daemon
    /\ running' = TRUE
    /\ UNCHANGED <<ringVars, console, printed, sent, pos, panicked>>

DaemonStarted ==
    /\ Goto(Daemon, "started", "loop")
    /\ lock' = NULL
    /\ UNCHANGED <<ringVars, console, printed, running, sent, pos, panicked>>

(* syslogd_flush() takes the lock when there is anything to do *)
FlushLock(t) ==
    /\ running /\ LockFree
    /\ Goto(t, "loop", "flush")
    /\ lock' = t
    /\ UNCHANGED <<ringVars, console, printed, running, sent, pos, panicked>>

(* One byte of ringbuffer_read(), up to the size of the local buffer *)
FlushRead(t) ==
    /\ CanRun(t) /\ pc[t] = "flush"
    /\ Len(out) - printed < ChunkSize
    /\ Ring!ReadByte
    /\ UNCHANGED <<logVars, threadVars, panicked>>

(* One byte of vd_writeString() of the local buffer, which starts when the *)
(* ring is empty or the local buffer is full.                              *)
FlushPrint(t) ==
    /\ CanRun(t)
    /\ Len(out) > printed
    /\ \/ pc[t] = "print"
       \/ pc[t] = "flush" /\ (count = 0 \/ Len(out) - printed = ChunkSize)
    /\ console' = Append(console, out[printed + 1])
    /\ printed' = printed + 1
    /\ pc' = [pc EXCEPT ![t] = IF printed + 1 = Len(out) THEN "flush" ELSE "print"]
    /\ UNCHANGED <<ringVars, lock, running, sent, pos, panicked>>

(* The end of syslogd_flush(); syslogd_forceFlush() clears syslogd_running *)
FlushUnlock(t) ==
    /\ count = 0 /\ Len(out) = printed
    /\ Goto(t, "flush", IF panicked = t THEN "idle" ELSE "loop")
    /\ lock' = NULL
    /\ running' = (running /\ panicked # t)
    /\ UNCHANGED <<ringVars, console, printed, sent, pos, panicked>>

-----------------------------------------------------------------------------
(* A mutant: the forced flush leaves the lock taken. *)
ForceUnlockNot == lock

(* syslogd_forceFlush() forgets who holds the lock *)
ForceUnlock == IF running THEN NULL ELSE lock

(* panic(), called by a thread or by an interrupt handler on top of it:    *)
(* whatever the thread was doing is abandoned, and so is the local buffer  *)
(* of a flush that was under way.  When syslogd runs, syslogd_forceFlush() *)
(* releases the lock whoever holds it and flushes; otherwise it returns.   *)
(* Then the reason is logged.                                              *)
Panic(t) ==
    /\ panicked = NULL
    /\ panicked' = t
    /\ pc' = [pc EXCEPT ![t] = IF running THEN "loop" ELSE "idle"]
    /\ lock' = ForceUnlock
    /\ printed' = Len(out)
    /\ UNCHANGED <<ringVars, console, running, sent, pos>>

-----------------------------------------------------------------------------
Step(t) ==
    \/ Queue(t) \/ Lock(t) \/ WriteRing(t) \/ WriteConsole(t) \/ Unlock(t)
    \/ FlushLock(t) \/ FlushRead(t) \/ FlushPrint(t) \/ FlushUnlock(t)

DaemonStep == DaemonCreate \/ DaemonStart \/ DaemonStarted

Next == (\E t \in Threads : Step(t) \/ Panic(t)) \/ DaemonStep

(* Every thread that can run gets the CPU again and again (Scheduler). *)
Fairness == WF_vars(DaemonStep) /\ \A t \in Threads : WF_vars(Step(t))

Spec == Init /\ [][Next]_vars /\ Fairness

-----------------------------------------------------------------------------
(* The ring buffer keeps its type, and the threads are where they can be.  *)
TypeOK ==
    /\ Ring!TypeOK
    /\ console \in Seq(Byte)
    /\ printed \in 0..Len(out)
    /\ lock \in Threads \cup {NULL}
    /\ running \in BOOLEAN
    /\ pc \in [Threads -> {"create", "start", "started", "loop", "flush", "print",
                           "idle", "lock", "write", "direct", "halt"}]
    /\ sent \in [Threads -> 0..MaxMessages + 1]
    /\ pos \in [Threads -> 0..Length]
    /\ panicked \in Threads \cup {NULL}

(* From place j to place k of the console, a message goes on byte by byte, *)
(* but for the bytes that are lost behind the place cut.                   *)
GoesOn(s, j, k, cut, hole) ==
    s[j].from = s[k].from /\ s[j].n = s[k].n
      => s[k].i - s[j].i = k - j + (IF j <= cut /\ cut < k THEN hole ELSE 0)

(* What of a message reaches the console stands there in one piece and in  *)
(* order: the lock is held over both ringbuffer_write() calls, and an      *)
(* overflow takes away the beginning of a message and never its middle.    *)
(* Only a panic can cut a message, once, and then it takes no more out of  *)
(* it than the local buffer of the flush that was under way.               *)
MessagesWhole ==
    \E cut \in 0..Len(console), hole \in 0..ChunkSize :
        /\ panicked = NULL => hole = 0
        /\ \A j, k \in DOMAIN console : j < k => GoesOn(console, j, k, cut, hole)

(* What is queued is printed, or a panic stops the system.                 *)
QueueIsPrinted == count > 0 ~> (count = 0 /\ Len(out) = printed) \/ panicked # NULL

(* A panic while syslogd runs empties the queue and shows its reason,      *)
(* even if the lock is held by a thread that will never run again.         *)
PanicIsShown ==
    \A t \in Threads : (panicked = t /\ running) ~> (pc[t] = "halt" /\ count = 0)

(* panic.c before syslogd_forceFlush(): "Make sure that syslogd isn't      *)
(* locked", so that the syslog() calls after it can print the reason.      *)
PanicFindsLockFree ==
    \A t \in Threads : panicked = t /\ pc[t] = "lock" => lock = NULL
=============================================================================
