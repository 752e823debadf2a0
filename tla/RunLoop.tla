------------------------------- MODULE RunLoop -------------------------------
(***************************************************************************)
(* The run loop of a libio thread, IORunLoop.cpp, with an event source of  *)
(* every kind: IOInterruptEventSource, IOTimerEventSource and              *)
(* IORemoteCommand.  The host thread runs the loop, another thread issues  *)
(* commands, adds and removes sources and stops the loop, and interrupts   *)
(* come at any time; the threads are preempted everywhere, also within     *)
(* thread_sleep() and thread_wakeup(), which libio calls with interrupts   *)
(* enabled: a wake-up that comes between sleeping = true and blocks ++, or *)
(* two wake-ups that meet, take blocks from 0 to 255 (KernelThreads), and  *)
(* the scheduler never chooses the thread again.                           *)
(***************************************************************************)
EXTENDS Integers, Sequences, FiniteSets, Functions

CONSTANTS
    MaxInterrupts,  \* bound: interrupts
    MaxCommands,    \* bound: executeCommand()
    MaxChanges      \* bound: changes of the sources and stops of the loop

RunLoopAssumption == {MaxInterrupts, MaxCommands, MaxChanges} \subseteq Nat

Thread == {"host", "caller"}
Source == {"interrupt", "timer", "command"}

VARIABLES
    host,      \* [at, i, count]: where the host is, its source, what it read
    asleep,    \* thread->sleeping: of "host" and "caller" those that sleep
    blocks,    \* per thread: thread->blocks
    within,    \* per thread: where it is in thread_sleep() or thread_wakeup(), or "no"
    holder,    \* of _lock: "host" or "none"
    sources,   \* _eventSources
    enabled,   \* the sources that are enabled
    removed,   \* _removedSources
    lost,      \* the sources that fell out of _eventSources with another
    stop,      \* _shouldStop
    irq,       \* [count, consumed] of the interrupt source
    timer,     \* [due, repeats]
    cmd,       \* [waiting, executing, executed, cancelled, timeout, arg]
    caller,    \* [at, arg]
    done,      \* the commands whose action ran, in order
    result,    \* per command: "none", "success" or "timeout"
    changes    \* changes so far

sleepVars == <<asleep, blocks, within>>
loopVars == <<host, sleepVars, holder, sources, enabled, removed, lost, stop, irq, timer,
              cmd, caller, done, result, changes>>

LoopInit ==
    /\ host = [at |-> "out", i |-> 0, count |-> 0]
    /\ asleep = {}
    /\ blocks = [thread \in Thread |-> 0]
    /\ within = [thread \in Thread |-> "no"]
    /\ holder = "none"
    /\ sources \in {<<"interrupt", "timer", "command">>, <<"command", "timer">>}
    /\ enabled = Range(sources)
    /\ removed = {}
    /\ lost = {}
    /\ stop = FALSE
    /\ irq = [count |-> 0, consumed |-> 0]
    /\ timer \in [due : {FALSE}, repeats : BOOLEAN]
    /\ cmd \in [waiting : {FALSE}, executing : {FALSE}, executed : {FALSE},
                cancelled : {FALSE}, timeout : BOOLEAN, arg : {0}]
    /\ caller = [at |-> "idle", arg |-> 0]
    /\ done = <<>>
    /\ result = [c \in 1..MaxCommands |-> "none"]
    /\ changes = 0

HostGoto(at) == host' = [host EXCEPT !.at = at]
UInt8(n) == n % 256
Other(thread) == IF thread = "host" THEN "caller" ELSE "host"

(* The scheduler chooses only threads that nothing blocks.                 *)
Runs(thread) == blocks[thread] = 0
Free(thread) == Runs(thread) /\ within[thread] = "no"

Within(thread, step) == within' = [within EXCEPT ![thread] = step]

(* thread_sleep() of the thread itself: sleeping = true, and blocks ++     *)
(* follows; neither if a late blocks -- lets it run although it sleeps.    *)
GoToSleep(thread) ==
    /\ asleep' = asleep \cup {thread}
    /\ Within(thread, IF thread \in asleep THEN "no" ELSE "block")
    /\ UNCHANGED blocks

Block(thread) ==
    /\ within[thread] = "block"
    /\ blocks' = [blocks EXCEPT ![thread] = UInt8(@ + 1)]
    /\ Within(thread, "no")
    /\ UNCHANGED asleep

(* thread_wakeup() of the other thread: nothing if it does not sleep, or   *)
(* sleeping = false and then blocks --.                                    *)
Wakeup(thread) ==
    /\ within[thread] = "wakeup"
    /\ Within(thread, IF Other(thread) \in asleep THEN "clear" ELSE "no")
    /\ UNCHANGED <<asleep, blocks>>

Clear(thread) ==
    /\ within[thread] = "clear"
    /\ asleep' = asleep \ {Other(thread)}
    /\ Within(thread, "unblock")
    /\ UNCHANGED blocks

Unblock(thread) ==
    /\ within[thread] = "unblock"
    /\ blocks' = [blocks EXCEPT ![Other(thread)] = UInt8(@ - 1)]
    /\ Within(thread, "no")
    /\ UNCHANGED asleep

ThreadStep(thread) ==
    /\ Runs(thread)
    /\ Block(thread) \/ Wakeup(thread) \/ Clear(thread) \/ Unblock(thread)
    /\ UNCHANGED <<host, holder, sources, enabled, removed, lost, stop, irq, timer, cmd, caller,
                   done, result, changes>>

(* A wake-up by an interrupt handler or the scheduler: no thread runs      *)
(* meanwhile.                                                              *)
Woken(thread) ==
    /\ asleep' = asleep \ {thread}
    /\ blocks' = [blocks EXCEPT ![thread] = IF thread \in asleep THEN UInt8(@ - 1) ELSE @]

Current == sources[host.i]

(* IOArray::removeObject() of _eventSources: of what is behind the object, *)
(* only the next one moves up, and the last one falls out.                 *)
Without(s) ==
    IF s \notin Range(sources) THEN sources
    ELSE LET i == CHOOSE i \in DOMAIN sources :
                     sources[i] = s /\ \A j \in 1..i - 1 : sources[j] # s
         IN  [j \in 1..Len(sources) - 1 |-> IF j = i THEN sources[i + 1] ELSE sources[j]]

RemoveSource(s) ==
    /\ sources' = Without(s)
    /\ enabled' = enabled \ {s}
    /\ lost' = (lost \cup (Range(sources) \ Range(sources'))) \ {s}

-----------------------------------------------------------------------------
(* run(): stops that came before it are forgotten.                         *)
Run ==
    /\ host.at = "out"
    /\ stop' = FALSE
    /\ HostGoto("loop")
    /\ UNCHANGED <<sleepVars, holder, sources, enabled, removed, lost, irq, timer, cmd, caller,
                   done, result, changes>>

Loop ==
    /\ host.at = "loop"
    /\ HostGoto(IF stop THEN "out" ELSE "step")
    /\ UNCHANGED <<sleepVars, holder, sources, enabled, removed, lost, stop, irq, timer, cmd,
                   caller, done, result, changes>>

(* step() takes the lock.                                                  *)
LoopStep ==
    /\ host.at = "step"
    /\ holder = "none"
    /\ holder' = "host"
    /\ host' = [host EXCEPT !.at = "process", !.i = 1]
    /\ UNCHANGED <<sleepVars, sources, enabled, removed, lost, stop, irq, timer, cmd, caller,
                   done, result, changes>>

(* processEventSources(): the next source, or the end of the loop over     *)
(* them, where those that were removed meanwhile go, and of step().        *)
Process ==
    /\ host.at = "process"
    /\ host.i <= Len(sources)
    /\ host' = IF Current \in enabled THEN [host EXCEPT !.at = Current]
               ELSE [host EXCEPT !.i = @ + 1]
    /\ UNCHANGED <<sleepVars, holder, sources, enabled, removed, lost, stop, irq, timer, cmd,
                   caller, done, result, changes>>

Processed ==
    /\ host.at = "process"
    /\ host.i > Len(sources)
    /\ IF removed = {} THEN UNCHANGED <<sources, enabled, lost>>
       ELSE \E s \in removed : RemoveSource(s)   \* the timer alone removes itself
    /\ removed' = {}
    /\ holder' = "none"
    /\ HostGoto("sleep")
    /\ UNCHANGED <<sleepVars, stop, irq, timer, cmd, caller, done, result, changes>>

(* _host->sleep(_nextStep): for 100 ms or less, whatever came since.       *)
Sleep ==
    /\ host.at = "sleep"
    /\ GoToSleep("host")
    /\ HostGoto("loop")
    /\ UNCHANGED <<holder, sources, enabled, removed, lost, stop, irq, timer, cmd, caller,
                   done, result, changes>>

NextSource == host' = [host EXCEPT !.at = "process", !.i = @ + 1]

(* IOInterruptEventSource::doWork(): the count is read first, and what was *)
(* read is consumed after the action.                                      *)
InterruptCount ==
    /\ host.at = "interrupt"
    /\ IF irq.count = irq.consumed THEN NextSource
       ELSE host' = [host EXCEPT !.at = "action", !.count = irq.count]
    /\ UNCHANGED <<sleepVars, holder, sources, enabled, removed, lost, stop, irq, timer, cmd,
                   caller, done, result, changes>>

Consumed == host.count

InterruptAction ==
    /\ host.at = "action"
    /\ irq' = [irq EXCEPT !.consumed = Consumed]
    /\ NextSource
    /\ UNCHANGED <<sleepVars, holder, sources, enabled, removed, lost, stop, timer, cmd,
                   caller, done, result, changes>>

(* IOTimerEventSource::doWork(): one that does not repeat is disabled, and *)
(* removed when the step ends.                                             *)
TimerWork ==
    /\ host.at = "timer"
    /\ timer' = [timer EXCEPT !.due = FALSE]
    /\ enabled' = IF timer.due /\ ~timer.repeats THEN enabled \ {"timer"} ELSE enabled
    /\ removed' = IF timer.due /\ ~timer.repeats THEN removed \cup {"timer"} ELSE removed
    /\ NextSource
    /\ UNCHANGED <<sleepVars, holder, sources, lost, stop, irq, cmd, caller, done, result,
                   changes>>

(* IORemoteCommand::doWork() and its action, under the command's lock      *)
(* before and after.                                                       *)
Claims == cmd.waiting /\ ~cmd.cancelled

CommandClaim ==
    /\ host.at = "command"
    /\ IF Claims
       THEN cmd' = [cmd EXCEPT !.executing = TRUE] /\ HostGoto("execute")
       ELSE UNCHANGED cmd /\ NextSource
    /\ UNCHANGED <<sleepVars, holder, sources, enabled, removed, lost, stop, irq, timer, caller,
                   done, result, changes>>

CommandAction ==
    /\ host.at = "execute"
    /\ done' = Append(done, cmd.arg)
    /\ HostGoto("executed")
    /\ UNCHANGED <<sleepVars, holder, sources, enabled, removed, lost, stop, irq, timer, cmd,
                   caller, result, changes>>

CommandDone ==
    /\ host.at = "executed"
    /\ cmd' = [cmd EXCEPT !.executing = FALSE, !.executed = TRUE, !.waiting = FALSE]
    /\ Within("host", "wakeup")
    /\ NextSource
    /\ UNCHANGED <<asleep, blocks, holder, sources, enabled, removed, lost, stop, irq, timer, caller, done,
                   result, changes>>

HostStep ==
    /\ Free("host")
    /\ \/ Run \/ Loop \/ LoopStep \/ Process \/ Processed \/ Sleep
       \/ InterruptCount \/ InterruptAction \/ TimerWork
       \/ CommandClaim \/ CommandAction \/ CommandDone

-----------------------------------------------------------------------------
(* executeCommand(): executed is not reset.                                *)
Execute ==
    /\ caller.at = "idle"
    /\ caller.arg < MaxCommands
    /\ caller' = [at |-> "sleep", arg |-> caller.arg + 1]
    /\ cmd' = [cmd EXCEPT !.cancelled = FALSE, !.waiting = TRUE, !.arg = caller.arg + 1]
    /\ UNCHANGED <<host, sleepVars, holder, sources, enabled, removed, lost, stop, irq, timer,
                   done, result, changes>>

ExecuteSleep ==
    /\ caller.at = "sleep"
    /\ GoToSleep("caller")
    /\ caller' = [caller EXCEPT !.at = "check"]
    /\ UNCHANGED <<host, holder, sources, enabled, removed, lost, stop, irq, timer, cmd, done,
                   result, changes>>

(* A mutant: the caller gives up while the action runs. *)
GivesUpAnyway == cmd.timeout

GivesUp == cmd.timeout /\ ~cmd.executing

Return(r) ==
    /\ result' = [result EXCEPT ![caller.arg] = r]
    /\ caller' = [caller EXCEPT !.at = "idle"]

ExecuteCheck ==
    /\ caller.at = "check"
    /\ \/ cmd.executed /\ Return("success") /\ UNCHANGED cmd
       \/ /\ ~cmd.executed /\ GivesUp
          /\ Return("timeout")
          /\ cmd' = [cmd EXCEPT !.cancelled = TRUE]
       \/ /\ ~cmd.executed /\ ~GivesUp
          /\ caller' = [caller EXCEPT !.at = "sleep"]
          /\ UNCHANGED <<cmd, result>>
    /\ UNCHANGED <<host, sleepVars, holder, sources, enabled, removed, lost, stop, irq, timer,
                   done, changes>>

Change ==
    /\ caller.at = "idle"
    /\ changes < MaxChanges
    /\ changes' = changes + 1

(* addEventSource() and removeEventSource() of another thread than the     *)
(* host: they wait for the lock of the run loop.                           *)
CanChange == holder = "none"

AddEventSource(s) ==
    /\ Change
    /\ CanChange
    /\ s \notin Range(sources) \cup lost
    /\ sources' = Append(sources, s)
    /\ enabled' = enabled \cup {s}
    /\ UNCHANGED <<host, sleepVars, holder, removed, lost, stop, irq, timer, cmd, caller, done,
                   result>>

RemoveEventSource(s) ==
    /\ Change
    /\ CanChange
    /\ s \in Range(sources) \cup lost
    /\ RemoveSource(s)
    /\ UNCHANGED <<host, sleepVars, holder, removed, stop, irq, timer, cmd, caller, done, result>>

(* stop()                                                                  *)
Stop ==
    /\ Change
    /\ stop' = TRUE
    /\ Within("caller", "wakeup")
    /\ UNCHANGED <<host, asleep, blocks, holder, sources, enabled, removed, lost, irq, timer, cmd, caller,
                   done, result>>

CallerStep ==
    /\ Free("caller")
    /\ Execute \/ ExecuteSleep \/ ExecuteCheck

-----------------------------------------------------------------------------
(* handleInterrupt() wakes the host, which may have the CPU: in            *)
(* thread_sleep() it goes on with blocks ++ if the timer does not come     *)
(* first.                                                                  *)
InterruptsSleep ==
    /\ Runs("host") /\ within["host"] = "block"
    /\ asleep' = asleep \ {"host"}
    /\ Within("host", "no")
    /\ UNCHANGED blocks

HandleInterrupt ==
    /\ irq.count < MaxInterrupts
    /\ irq' = [irq EXCEPT !.count = @ + 1]
    /\ \/ "interrupt" \in enabled /\ Woken("host") /\ UNCHANGED within
       \/ "interrupt" \in enabled /\ InterruptsSleep
       \/ "interrupt" \notin enabled /\ UNCHANGED sleepVars
    /\ UNCHANGED <<host, holder, sources, enabled, removed, lost, stop, timer, cmd, caller, done,
                   result, changes>>

(* A mutant: nobody is woken by the clock. *)
AlarmNever(thread) == FALSE /\ UNCHANGED loopVars

(* The clock: sd_schedule() ends a sleep whose alarm has passed, and the   *)
(* alarm is the time at which thread_sleep() began until it adds to it     *)
(* after blocks ++; a timer is due.                                        *)
Alarm(thread) ==
    /\ thread \in asleep
    /\ Woken(thread)
    /\ UNCHANGED <<host, within, holder, sources, enabled, removed, lost, stop, irq, timer, cmd, caller,
                   done, result, changes>>

TimerDue ==
    /\ ~timer.due
    /\ timer' = [timer EXCEPT !.due = TRUE]
    /\ UNCHANGED <<host, sleepVars, holder, sources, enabled, removed, lost, stop, irq, cmd, caller,
                   done, result, changes>>

LoopNext ==
    \/ HostStep
    \/ CallerStep
    \/ \E thread \in Thread : ThreadStep(thread) \/ Alarm(thread)
    \/ Free("caller") /\ \/ Stop
                         \/ \E s \in Source : AddEventSource(s) \/ RemoveEventSource(s)
    \/ HandleInterrupt \/ TimerDue

LoopSpec == LoopInit /\ [][LoopNext]_loopVars

(* The scheduler runs the threads that nothing blocks in turn, and at the  *)
(* timer's interrupts it ends sleeps, of the threads that are still marked *)
(* as sleeping.  A thread with blocks = 255 gets nothing of either.        *)
LoopFairness ==
    /\ WF_loopVars(HostStep)
    /\ WF_loopVars(Free("caller") /\ (ExecuteSleep \/ ExecuteCheck))
    /\ \A thread \in Thread : WF_loopVars(ThreadStep(thread)) /\ WF_loopVars(Alarm(thread))

LoopFairSpec == LoopSpec /\ LoopFairness

-----------------------------------------------------------------------------
(* The first command that a remote command carries out: later ones find    *)
(* _executed set.                                                          *)
FirstSuccess(c) == \A b \in 1..c - 1 : result[b] # "success" /\ result[b] # "none"

(* executeCommand() says what happened: up to the first command that is    *)
(* carried out, success means that the action ran, once, with this         *)
(* caller's arguments, and a timeout that it never does, although the host *)
(* may claim the command while the caller gives up.                        *)
CommandHonest ==
    \A c \in 1..MaxCommands :
       LET ran == Cardinality({k \in DOMAIN done : done[k] = c}) IN
       /\ ran <= 1
       /\ FirstSuccess(c) => /\ result[c] = "success" => ran = 1
                             /\ result[c] = "timeout" => ran = 0

(* A source that another thread removed is at rest: the host works only on *)
(* a source that is attached, and it never steps over one because the list *)
(* moved under it.                                                         *)
RemovedIsQuiet ==
    /\ host.at \in Source => host.at \in Range(sources)
    /\ host.at \in {"action", "interrupt"} => Current = "interrupt"
    /\ host.at \in {"execute", "executed", "command"} => Current = "command"
    /\ host.at = "timer" => Current = "timer"
    /\ enabled \subseteq Range(sources) \cup lost

(* A remote command says what happened, and a source that was removed is   *)
(* at rest.                                                                *)
LoopHonest == CommandHonest /\ RemovedIsQuiet

(* A thread whose blocks went below 0 never runs again, and one that it    *)
(* was about to unblock stays blocked.                                     *)
Below(thread) == blocks[thread] > 1

Gone(thread) ==
    \/ Below(thread)
    \/ blocks[thread] = 1 /\ within[Other(thread)] = "unblock" /\ Below(Other(thread))

(* What is signalled is served, though a wake-up that comes just before    *)
(* the host sleeps is lost, unless a wake-up within thread_sleep() or      *)
(* another wake-up has put the thread that serves it out of the scheduler  *)
(* for good: an interrupt is consumed as long as its source stays in the   *)
(* array, stop() ends a loop that runs, and a command with a timeout       *)
(* returns, even if its source fell out of the array, unless the host is   *)
(* gone, perhaps with the lock of the command.                             *)
EverythingServed ==
    /\ \A n \in 1..MaxInterrupts :
         (irq.count >= n /\ "interrupt" \in Range(sources))
           ~> (irq.consumed >= n \/ "interrupt" \notin Range(sources) \/ Gone("host"))
    /\ (stop /\ host.at # "out") ~> (host.at = "out" \/ Gone("host"))
    /\ (cmd.timeout /\ caller.at # "idle")
         ~> (caller.at = "idle" \/ Gone("caller") \/ Gone("host"))

=============================================================================
