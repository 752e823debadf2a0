----------------------------- MODULE Interrupts -----------------------------
(***************************************************************************)
(* Interrupts: the dispatch in interrupts/interrupts.c, the exceptions of  *)
(* interrupts/exceptions.c, and the handlers that drivers register through *)
(* ioglue/iostubs.c.                                                       *)
(*                                                                         *)
(* A driver registers on its thread, with interrupts enabled; an interrupt *)
(* comes between any two of its steps and runs to its end.  It takes no    *)
(* lock: it may find the array of handlers half changed.                   *)
(***************************************************************************)
EXTENDS Integers, Sequences, FiniteSets, Functions

CONSTANTS
    Owner,          \* drivers, each with a thread
    Line,           \* vectors of the interrupt controllers
    PublicBegin, PublicEnd,
    Master, Slave,  \* the first vector of each controller
    Space,          \* places of a new array
    MaxRegistrations,  \* bound
    Nil            \* NULL, and no vector

Vector == Line \cup (PublicBegin..PublicEnd)

(* io_interrupt_entry_t and its array; loose: the array's memory has been  *)
(* freed and its new memory is not yet assigned.                           *)
Entry == [exclusive : BOOLEAN, data : Seq(Owner \cup {Nil}), count : Nat, loose : BOOLEAN]

InterruptsAssumption ==
    /\ PublicBegin \in Nat /\ PublicEnd \in Nat
    /\ Nil \notin Owner /\ Nil \notin Vector /\ Nil \notin Entry
    /\ \A v \in Line : v \in Master..2 * Slave - Master - 1
    /\ Master < Slave /\ 2 * Slave - Master <= PublicBegin
    /\ Space \in Nat \ {0, 1}

VARIABLES
    entry,      \* __io_interruptEntries
    callback,   \* the vectors whose callback is __io_dispatchInterrupt()
    irqLock,    \* the owner of __io_interrupt_lock
    irqCall,    \* per driver: where its call is
    given,      \* per driver: the vector it has a handler for
    service,    \* controllers that wait for an acknowledgement
    log,        \* the last interrupt: its vector and the owners called
    raised,     \* its parity
    registrations,
    died,       \* processes killed by an exception
    panicked,
    astray      \* an interrupt called what freed memory held

irqVars == <<entry, callback, irqLock, irqCall, given, service, log, raised, registrations,
             died, panicked, astray>>

NewEntry(exclusive) ==
    [exclusive |-> exclusive, data |-> [i \in 1..Space |-> Nil], count |-> 0, loose |-> FALSE]

NoCall == [step |-> "idle", v |-> 0, exclusive |-> FALSE, i |-> 0]

IrqInit ==
    /\ entry = [v \in Vector |-> Nil]
    /\ callback = {}
    /\ irqLock = Nil
    /\ irqCall = [o \in Owner |-> NoCall]
    /\ given = [o \in Owner |-> Nil]
    /\ service = {}
    /\ log = [v |-> 0, called |-> <<>>]
    /\ raised = FALSE
    /\ registrations = 0
    /\ died = {}
    /\ panicked = FALSE
    /\ astray = FALSE

Goto(o, step) == irqCall' = [irqCall EXCEPT ![o].step = step]
Handlers(e) == SubSeq(e.data, 1, e.count)

-----------------------------------------------------------------------------
(* kern_registerForInterrupt() and kern_requestExclusiveInterrupt(): the   *)
(* lock, and the search for a free vector.                                 *)
Register(o) ==
    /\ irqCall[o].step = "idle"
    /\ given[o] = Nil
    /\ registrations < MaxRegistrations
    /\ irqLock = Nil
    /\ \E v \in Vector, exclusive \in BOOLEAN :
         irqCall' = [irqCall EXCEPT ![o] = [step |-> "look", v |-> v, exclusive |-> exclusive, i |-> 0]]
    /\ irqLock' = o
    /\ registrations' = registrations + 1
    /\ UNCHANGED <<entry, callback, given, service, log, raised, died, panicked, astray>>

FreeVectors == {v \in PublicBegin..PublicEnd - 1 : entry[v] = Nil}

RequestExclusive(o) ==
    /\ irqCall[o].step = "idle"
    /\ given[o] = Nil
    /\ registrations < MaxRegistrations
    /\ irqLock = Nil
    /\ registrations' = registrations + 1
    /\ IF FreeVectors = {}
       THEN UNCHANGED <<entry, irqLock, irqCall>>
       ELSE LET v == CHOOSE v \in FreeVectors : \A w \in FreeVectors : v <= w IN
            /\ entry' = [entry EXCEPT ![v] = NewEntry(TRUE)]
            /\ irqCall' = [irqCall EXCEPT ![o] = [step |-> "store", v |-> v, exclusive |-> TRUE, i |-> 0]]
            /\ irqLock' = o
    /\ UNCHANGED <<callback, given, service, log, raised, died, panicked, astray>>

(* A mutant: only the new handler is asked. *)
RefusedNew(e, exclusive) == exclusive

Refused(e, exclusive) == e.exclusive \/ exclusive

Look(o) ==
    LET v == irqCall[o].v IN
    /\ irqCall[o].step = "look"
    /\ IF entry[v] = Nil
       THEN /\ entry' = [entry EXCEPT ![v] = NewEntry(irqCall[o].exclusive)]
            /\ Goto(o, "callback")
            /\ UNCHANGED irqLock
       ELSE /\ IF Refused(entry[v], irqCall[o].exclusive)
               THEN /\ irqCall' = [irqCall EXCEPT ![o] = NoCall]
                    /\ irqLock' = Nil
               ELSE /\ Goto(o, "grow")
                    /\ UNCHANGED irqLock
            /\ UNCHANGED entry
    /\ UNCHANGED <<callback, given, service, log, raised, registrations, died,
                   panicked, astray>>

SetInterruptCallback(o) ==
    /\ irqCall[o].step = "callback"
    /\ callback' = callback \cup {irqCall[o].v}
    /\ Goto(o, "grow")
    /\ UNCHANGED <<entry, irqLock, given, service, log, raised, registrations, died,
                   panicked, astray>>

(* A mutant: the last handler is not copied. *)
ResizedShort(e, n) == [i \in 1..n |-> IF i < e.count THEN e.data[i] ELSE Nil]

(* array_addObject(): __array_resizeToNextStepIfNeeded() copies, frees and *)
(* assigns; then the object is stored, and then counted.                   *)
Resized(e, n) == [i \in 1..n |-> IF i <= e.count THEN e.data[i] ELSE Nil]

Grow(o) ==
    LET e == entry[irqCall[o].v] IN
    /\ irqCall[o].step = "grow"
    /\ IF e.count >= Len(e.data) - 1 /\ ~e.loose
       THEN /\ entry' = [entry EXCEPT ![irqCall[o].v].loose = TRUE]
            /\ UNCHANGED irqCall
       ELSE /\ entry' = IF e.loose
                        THEN [entry EXCEPT ![irqCall[o].v].loose = FALSE,
                                           ![irqCall[o].v].data = Resized(e, 2 * Len(e.data))]
                        ELSE entry
            /\ Goto(o, "store")
    /\ UNCHANGED <<callback, irqLock, given, service, log, raised, registrations, died,
                   panicked, astray>>

Store(o) ==
    /\ irqCall[o].step = "store"
    /\ entry' = [entry EXCEPT ![irqCall[o].v].data[entry[irqCall[o].v].count + 1] = o]
    /\ Goto(o, "count")
    /\ UNCHANGED <<callback, irqLock, given, service, log, raised, registrations, died,
                   panicked, astray>>

Count(o) ==
    /\ irqCall[o].step = "count"
    /\ entry' = [entry EXCEPT ![irqCall[o].v].count = @ + 1]
    /\ given' = [given EXCEPT ![o] = irqCall[o].v]
    /\ irqLock' = Nil
    /\ irqCall' = [irqCall EXCEPT ![o] = NoCall]
    /\ UNCHANGED <<callback, service, log, raised, registrations, died,
                   panicked, astray>>

(* kern_registerForInterrupt() without a callback: the first handler of    *)
(* the owner is removed.  The others move up one by one, then the count is *)
(* lowered, and the array may shrink.                                      *)
Unregister(o) ==
    /\ irqCall[o].step = "idle"
    /\ given[o] # Nil
    /\ irqLock = Nil
    /\ irqLock' = o
    /\ LET v == given[o]
           i == CHOOSE i \in 1..entry[v].count :
                  /\ entry[v].data[i] = o
                  /\ \A j \in 1..i - 1 : entry[v].data[j] # o
       IN  irqCall' = [irqCall EXCEPT ![o] = [step |-> "shift", v |-> v, exclusive |-> FALSE, i |-> i]]
    /\ given' = [given EXCEPT ![o] = Nil]
    /\ UNCHANGED <<entry, callback, service, log, raised, registrations, died,
                   panicked, astray>>

Shift(o) ==
    LET e == entry[irqCall[o].v] i == irqCall[o].i IN
    /\ irqCall[o].step = "shift"
    /\ IF i < e.count
       THEN /\ entry' = [entry EXCEPT ![irqCall[o].v].data[i] = e.data[i + 1]]
            /\ irqCall' = [irqCall EXCEPT ![o].i = i + 1]
       ELSE /\ entry' = [entry EXCEPT ![irqCall[o].v].count = @ - 1]
            /\ Goto(o, "shrink")
    /\ UNCHANGED <<callback, irqLock, given, service, log, raised, registrations, died,
                   panicked, astray>>

Shrink(o) ==
    LET e == entry[irqCall[o].v] n == Len(e.data) \div 2 IN
    /\ irqCall[o].step = "shrink"
    /\ IF e.count < n /\ ~e.loose
       THEN /\ entry' = [entry EXCEPT ![irqCall[o].v].loose = TRUE]
            /\ UNCHANGED <<irqCall, irqLock>>
       ELSE /\ entry' = IF e.loose
                        THEN [entry EXCEPT ![irqCall[o].v].loose = FALSE,
                                           ![irqCall[o].v].data = Resized(e, n)]
                        ELSE entry
            /\ irqCall' = [irqCall EXCEPT ![o] = NoCall]
            /\ irqLock' = Nil
    /\ UNCHANGED <<callback, given, service, log, raised, registrations, died,
                   panicked, astray>>

-----------------------------------------------------------------------------
(* ir_handleInterrupt() of a vector that a driver uses: the callback, then *)
(* the acknowledgements.  An array whose memory is freed still has its     *)
(* handlers, or what another thread has put there meanwhile is called.     *)
Controllers(v) ==
    {c \in {Master, Slave} : v >= c /\ v < 2 * Slave - Master}

EndOfInterrupt(v) == Controllers(v)

Dispatched(v) == IF entry[v] = Nil THEN <<>> ELSE Handlers(entry[v])

Interrupt ==
    \E o \in Owner :
      LET v == given[o] IN
      /\ v # Nil
      /\ Controllers(v) \cap service = {}
      /\ \/ /\ v \notin callback
            /\ panicked' = TRUE
            /\ UNCHANGED <<service, log, raised, astray>>
         \/ /\ v \in callback
            /\ log' = [v |-> v, called |-> Dispatched(v)]
            /\ raised' = ~raised
            /\ service' = (service \cup Controllers(v)) \ EndOfInterrupt(v)
            /\ UNCHANGED <<panicked, astray>>
         \/ /\ v \in callback /\ entry[v] # Nil /\ entry[v].loose
            /\ astray' = TRUE
            /\ UNCHANGED <<service, log, raised, panicked>>
      /\ UNCHANGED <<entry, callback, irqLock, irqCall, given, registrations, died>>

(* __ir_handleException() and __ir_exceptionKillAndDump(): the process is  *)
(* marked, and the scheduler called; pid 0 is the kernel.  Other           *)
(* exceptions than these three are fatal in every process.                 *)
Kills(exception) == exception \in {0, 13, 14}

Exception(pid, exception) ==
    /\ pid \notin died
    /\ IF Kills(exception) /\ pid # 0
       THEN died' = died \cup {pid} /\ UNCHANGED panicked
       ELSE panicked' = TRUE /\ UNCHANGED died
    /\ UNCHANGED <<entry, callback, irqLock, irqCall, given, service, log, raised, registrations,
                   astray>>

IrqNext ==
    /\ ~panicked /\ ~astray
    /\ \/ \E o \in Owner :
            \/ Register(o) \/ RequestExclusive(o) \/ Look(o) \/ SetInterruptCallback(o)
            \/ Grow(o) \/ Store(o) \/ Count(o)
            \/ Unregister(o) \/ Shift(o) \/ Shrink(o)
       \/ Interrupt
       \/ \E pid \in {0, 1}, exception \in {0, 6, 13, 14} : Exception(pid, exception)

IrqSpec == IrqInit /\ [][IrqNext]_irqVars

-----------------------------------------------------------------------------
Withdrawing(o, v) == irqCall[o].v = v /\ irqCall[o].step = "shift"

(* An interrupt calls every driver whose registration has returned and     *)
(* that has not begun to withdraw, whatever change of the array it meets,  *)
(* as long as it does not find the array freed and its memory used again;  *)
(* it calls no other driver than one that is withdrawing, and calls one    *)
(* twice only while another withdraws.                                     *)
DispatchedToAll ==
    raised' # raised =>
      LET v == log'.v called == log'.called IN
      /\ \A o \in Owner : given[o] = v => o \in Range(called)
      /\ \A o \in Range(called) : given[o] = v \/ Withdrawing(o, v)
      /\ IsInjective(called) \/ \E o \in Owner : Withdrawing(o, v)

(* A vector that one driver has for itself has no other; a driver's        *)
(* interrupt is unhandled only if it got its vector from                   *)
(* kern_requestExclusiveInterrupt(), which sets no callback.               *)
ExclusiveIsAlone ==
    /\ \A v \in Vector : entry[v] # Nil /\ entry[v].exclusive =>
         Cardinality({o \in Owner : given[o] = v}) <= 1
    /\ \A o \in Owner : given[o] # Nil =>
         given[o] \in callback \/ (entry[given[o]].exclusive /\ given[o] >= PublicBegin)

(* An interrupt that does not go astray reaches all drivers that are       *)
(* registered for it, one that asked for a vector of its own has it alone, *)
(* and every such interrupt is acknowledged.                               *)
InterruptsDelivered ==
    [][DispatchedToAll]_irqVars /\ [](ExclusiveIsAlone /\ service = {})
=============================================================================
