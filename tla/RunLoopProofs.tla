---------------------------- MODULE RunLoopProofs ----------------------------
(***************************************************************************)
(* Proofs about RunLoop: what a remote command says to its caller, and     *)
(* that the host works on sources that are attached.                       *)
(***************************************************************************)
EXTENDS RunLoop, FiniteSetTheorems, TLAPS

(* Where the host is while it holds _lock.                                 *)
AtSource == {"interrupt", "action", "timer", "command", "execute", "executed"}

Place == {"out", "loop", "step", "process", "sleep"} \cup AtSource
Host == [at : Place, i : Nat, count : Nat]
Command == [waiting : BOOLEAN, executing : BOOLEAN, executed : BOOLEAN,
            cancelled : BOOLEAN, timeout : BOOLEAN, arg : Nat]
Caller == [at : {"idle", "sleep", "check"}, arg : 0..MaxCommands]

LoopTypeOK ==
    /\ host \in Host
    /\ irq \in [count : Nat, consumed : Nat]
    /\ sources \in Seq(Source)
    /\ cmd \in Command
    /\ caller \in Caller
    /\ done \in Seq(Nat)
    /\ result \in [1..MaxCommands -> {"none", "success", "timeout"}]

(* The host holds the lock while it works on the sources, so that the      *)
(* source it works on stays where it is.                                   *)
SourceInv ==
    /\ host.at \in AtSource \cup {"process"} => holder = "host" /\ host.i >= 1
    /\ host.at \in AtSource => host.i <= Len(sources)
    /\ host.at \in {"interrupt", "action"} => Current = "interrupt"
    /\ host.at = "timer" => Current = "timer"
    /\ host.at \in {"command", "execute", "executed"} => Current = "command"
    /\ enabled \subseteq Range(sources) \cup lost

(* Commands are carried out in the order in which they are issued, each at *)
(* most once: one that waits and is not being carried out has not been.    *)
OrderInv ==
    /\ cmd.arg = caller.arg
    /\ host.at \in {"execute", "executed"} => cmd.waiting /\ cmd.executing
    /\ cmd.waiting => cmd.arg >= 1
    /\ \A j, k \in DOMAIN done : j < k => done[j] < done[k]
    /\ \A k \in DOMAIN done : done[k] \in 1..cmd.arg
    /\ cmd.waiting /\ host.at # "executed" => \A k \in DOMAIN done : done[k] < cmd.arg

(* A command has a result once its caller has returned.                    *)
ResultInv ==
    /\ \A c \in 1..MaxCommands : c > caller.arg => result[c] = "none"
    /\ caller.at # "idle" => caller.arg >= 1 /\ result[caller.arg] = "none"

(* Until a command is carried out, all have timed out, and none is begun   *)
(* whose caller is gone.                                                   *)
BeforeInv ==
    ~cmd.executed =>
        /\ \A c \in 1..caller.arg : c < caller.arg \/ caller.at = "idle" => result[c] = "timeout"
        /\ cmd.executing => caller.at # "idle"
        /\ caller.at = "idle" => ~cmd.waiting \/ cmd.cancelled
        /\ host.at # "executed" => done = <<>>
        /\ host.at = "executed" => Len(done) = 1 /\ done[1] = cmd.arg

(* From then on the first that was carried out is the first that has not   *)
(* timed out.                                                              *)
AfterInv ==
    cmd.executed =>
        /\ Len(done) >= 1
        /\ \A c \in 1..done[1] - 1 : result[c] = "timeout"
        /\ result[done[1]] # "timeout"

CommandInv == OrderInv /\ ResultInv /\ BeforeInv /\ AfterInv

LoopInv == LoopTypeOK /\ SourceInv /\ CommandInv

(* A list of sources stays one when a source is taken out.                 *)
LEMMA WithoutIsList ==
    ASSUME sources \in Seq(Source), NEW s
    PROVE  Without(s) \in Seq(Source)
<1> DEFINE i == CHOOSE i \in DOMAIN sources :
                   sources[i] = s /\ \A j \in 1..i - 1 : sources[j] # s
           rest == [j \in 1..Len(sources) - 1 |-> IF j = i THEN sources[i + 1] ELSE sources[j]]
<1> HIDE DEF i
<1>1. CASE s \notin Range(sources)
  BY <1>1 DEF Without
<1>2. CASE s \in Range(sources)
  <2>1. PICK x \in DOMAIN sources : sources[x] = s
    BY <1>2 DEF Range
  <2>2. Len(sources) \in Nat /\ Len(sources) >= 1
    BY <2>1
  <2>3. ASSUME NEW j \in 1..Len(sources) - 1
        PROVE  (IF j = i THEN sources[i + 1] ELSE sources[j]) \in Source
    <3>1. sources[j] \in Source /\ sources[j + 1] \in Source
      BY <2>2
    <3> QED
      BY <3>1
  <2>4. rest \in [1..Len(sources) - 1 -> Source]
    BY <2>3
  <2>5. rest \in Seq(Source)
    <3>1. Len(sources) - 1 \in Nat
      BY <2>2
    <3> HIDE DEF rest
    <3> QED
      BY <2>4, <3>1
  <2>6. Without(s) = rest
    BY <1>2 DEF Without, i
  <2> QED
    BY <2>5, <2>6
<1> QED
  BY <1>1, <1>2

(* The host, a command and its caller stay what they are.                  *)
LEMMA Records ==
    ASSUME LoopTypeOK
    PROVE  /\ \A at \in Place : [host EXCEPT !.at = at] \in Host
           /\ \A at \in Place, i \in Nat : [host EXCEPT !.at = at, !.i = i] \in Host
           /\ \A i \in Nat : [host EXCEPT !.i = i] \in Host
           /\ \A at \in Place, n \in Nat : [host EXCEPT !.at = at, !.count = n] \in Host
           /\ host.i \in Nat /\ host.count \in Nat /\ host.at \in Place
           /\ \A at \in {"idle", "sleep", "check"} : [caller EXCEPT !.at = at] \in Caller
           /\ caller.arg \in 0..MaxCommands /\ cmd.arg \in Nat
<1>1. host \in Host /\ caller \in Caller /\ cmd \in Command
  BY DEF LoopTypeOK
<1>2. host.i \in Nat /\ host.count \in Nat /\ host.at \in Place
  BY <1>1 DEF Host
<1>3. caller.arg \in 0..MaxCommands /\ cmd.arg \in Nat
  BY <1>1 DEF Caller, Command
<1>4. \A at \in Place : [host EXCEPT !.at = at] \in Host
  BY <1>1 DEF Host
<1>5. \A at \in Place, i \in Nat : [host EXCEPT !.at = at, !.i = i] \in Host
  BY <1>1, Zenon DEF Host
<1>6. \A i \in Nat : [host EXCEPT !.i = i] \in Host
  BY <1>1 DEF Host
<1>7. \A at \in Place, n \in Nat : [host EXCEPT !.at = at, !.count = n] \in Host
  BY <1>1, Zenon DEF Host
<1>8. \A at \in {"idle", "sleep", "check"} : [caller EXCEPT !.at = at] \in Caller
  BY <1>1 DEF Caller
<1> QED
  BY <1>2, <1>3, <1>4, <1>5, <1>6, <1>7, <1>8, Zenon

(* Every step keeps the types.                                             *)
LEMMA LoopTypeStep ==
    ASSUME RunLoopAssumption, LoopTypeOK, SourceInv, [LoopNext]_loopVars
    PROVE  LoopTypeOK'
<1>0. /\ {"out", "loop", "step", "process", "sleep", "action", "execute", "executed"} \subseteq Place
      /\ Source \subseteq Place
  BY DEF Place, AtSource, Source
<1>19. host.i \in Nat /\ host.count \in Nat /\ caller.arg \in 0..MaxCommands /\ cmd.arg \in Nat
  BY Records, Zenon
<1>20. host.i + 1 \in Nat
  BY <1>19
<1>1. CASE Run \/ Loop \/ LoopStep \/ Sleep
  <2>1. UNCHANGED <<irq, cmd, caller, done, result, sources>>
    BY <1>1 DEF Run, Loop, LoopStep, Sleep
  <2>2. host' \in Host
    <3>1. CASE Run
      BY <1>0, <3>1, Records, Zenon DEF Run, HostGoto
    <3>2. CASE Loop
      BY <1>0, <3>2, Records, Zenon DEF Loop, HostGoto
    <3>3. CASE LoopStep
      BY <1>0, <3>3, Records, Zenon DEF LoopStep
    <3>4. CASE Sleep
      BY <1>0, <3>4, Records, Zenon DEF Sleep, HostGoto
    <3> QED
      BY <1>1, <3>1, <3>2, <3>3, <3>4
  <2> QED
    BY <2>1, <2>2 DEF LoopTypeOK
<1>2. CASE Processed
  <2>1. UNCHANGED <<irq, cmd, caller, done, result>>
    BY <1>2 DEF Processed
  <2>2. host' \in Host
    BY <1>0, <1>2, Records, Zenon DEF Processed, HostGoto
  <2>3. sources' \in Seq(Source)
    BY <1>2, WithoutIsList DEF Processed, RemoveSource, LoopTypeOK
  <2> QED
    BY <2>1, <2>2, <2>3 DEF LoopTypeOK
<1>3. CASE Process
  <2>1. Current \in Source
    <3>1. host.i \in Nat /\ host.i >= 1 /\ host.i <= Len(sources) /\ sources \in Seq(Source)
      BY <1>3, Records, Zenon DEF Process, SourceInv, LoopTypeOK
    <3> QED
      BY <3>1 DEF Current
  <2>3. host' \in Host
    <3>1. Current \in Place
      BY <1>0, <2>1
    <3> QED
      BY <1>3, <1>20, <3>1, Records, Zenon DEF Process
  <2>4. UNCHANGED <<irq, cmd, caller, done, result, sources>>
    BY <1>3 DEF Process
  <2> QED
    BY <2>3, <2>4 DEF LoopTypeOK
<1>4. NextSource => host' \in Host
  <2>1. "process" \in Place
    BY <1>0
  <2> QED
    BY <1>20, <2>1, Records, Zenon DEF NextSource
<1>5. CASE InterruptCount
  <2>1. irq.count \in Nat
    BY DEF LoopTypeOK
  <2>2. host' \in Host
    <3>1. "action" \in Place
      BY <1>0
    <3> QED
      BY <1>4, <1>5, <2>1, <3>1, Records, Zenon DEF InterruptCount
  <2> QED
    BY <1>5, <2>2 DEF InterruptCount, LoopTypeOK
<1>6. CASE InterruptAction
  <2>1. irq' \in [count : Nat, consumed : Nat]
    BY <1>6, Records, Zenon DEF InterruptAction, Consumed, LoopTypeOK
  <2> QED
    BY <1>4, <1>6, <2>1 DEF InterruptAction, LoopTypeOK
<1>7. CASE TimerWork
  BY <1>4, <1>7 DEF TimerWork, LoopTypeOK
<1>8. CASE CommandClaim
  <2>1. cmd' \in Command
    BY <1>8, Zenon DEF CommandClaim, LoopTypeOK, Command
  <2>2. host' \in Host
    BY <1>0, <1>4, <1>8, Records, Zenon DEF CommandClaim, HostGoto
  <2> QED
    BY <1>8, <2>1, <2>2 DEF CommandClaim, LoopTypeOK
<1>9. CASE CommandAction
  <2>1. done' \in Seq(Nat)
    BY <1>9, <1>19 DEF CommandAction, LoopTypeOK
  <2>2. host' \in Host
    BY <1>0, <1>9, Records, Zenon DEF CommandAction, HostGoto
  <2> QED
    BY <1>9, <2>1, <2>2 DEF CommandAction, LoopTypeOK
<1>10. CASE CommandDone
  <2>1. cmd' \in Command
    BY <1>10, Zenon DEF CommandDone, LoopTypeOK, Command
  <2> QED
    BY <1>4, <1>10, <2>1 DEF CommandDone, LoopTypeOK
<1>11. CASE Execute
  <2>1. caller.arg + 1 \in 0..MaxCommands /\ caller.arg + 1 \in Nat
    BY <1>11, <1>19 DEF Execute, RunLoopAssumption
  <2>2. cmd' \in Command
    BY <1>11, <2>1, Zenon DEF Execute, LoopTypeOK, Command
  <2>3. caller' \in Caller
    BY <1>11, <2>1 DEF Execute, Caller
  <2> QED
    BY <1>11, <2>2, <2>3 DEF Execute, LoopTypeOK
<1>12. CASE ExecuteSleep
  BY <1>12, Records, Zenon DEF ExecuteSleep, LoopTypeOK
<1>13. CASE ExecuteCheck
  <2>1. caller' \in Caller
    BY <1>13, Records, Zenon DEF ExecuteCheck, Return
  <2>2. cmd' \in Command
    BY <1>13, Zenon DEF ExecuteCheck, LoopTypeOK, Command
  <2>3. result' \in [1..MaxCommands -> {"none", "success", "timeout"}]
    BY <1>13 DEF ExecuteCheck, Return, LoopTypeOK
  <2> QED
    BY <1>13, <2>1, <2>2, <2>3 DEF ExecuteCheck, LoopTypeOK
<1>14. CASE HandleInterrupt
  <2>1. irq' \in [count : Nat, consumed : Nat]
    BY <1>14 DEF HandleInterrupt, LoopTypeOK
  <2> QED
    BY <1>14, <2>1 DEF HandleInterrupt, LoopTypeOK
<1>15. CASE Stop \/ TimerDue
  BY <1>15 DEF Stop, TimerDue, LoopTypeOK
<1>16. ASSUME NEW s \in Source, AddEventSource(s) \/ RemoveEventSource(s)
      PROVE  LoopTypeOK'
  <2>1. UNCHANGED <<host, irq, cmd, caller, done, result>>
    BY <1>16 DEF AddEventSource, RemoveEventSource
  <2>2. sources' \in Seq(Source)
    <3>0. sources \in Seq(Source)
      BY DEF LoopTypeOK
    <3>1. CASE AddEventSource(s)
      BY <3>0, <3>1 DEF AddEventSource
    <3>2. CASE RemoveEventSource(s)
      BY <3>0, <3>2, WithoutIsList DEF RemoveEventSource, RemoveSource
    <3> QED
      BY <1>16, <3>1, <3>2
  <2> QED
    BY <2>1, <2>2 DEF LoopTypeOK
<1>17. ASSUME NEW thread, ThreadStep(thread) \/ Alarm(thread)
      PROVE  LoopTypeOK'
  BY <1>17 DEF ThreadStep, Alarm, LoopTypeOK
<1>18. CASE UNCHANGED loopVars
  BY <1>18 DEF loopVars, LoopTypeOK
<1> QED
  BY <1>1, <1>2, <1>3, <1>5, <1>6, <1>7, <1>8, <1>9, <1>10, <1>11, <1>12, <1>13, <1>14, <1>15,
     <1>16, <1>17, <1>18
  DEF LoopNext, HostStep, CallerStep

(* What is enabled is in the array, or fell out of it.                     *)
LEMMA EnabledStays ==
    ASSUME enabled \subseteq Range(sources) \cup lost, NEW s, RemoveSource(s)
    PROVE  (enabled \subseteq Range(sources) \cup lost)'
BY DEF RemoveSource

(* So is what a step leaves alone.                                         *)
LEMMA SourceStays ==
    ASSUME SourceInv, UNCHANGED <<host, holder, sources, lost>>, enabled' \subseteq enabled
    PROVE  SourceInv'
BY DEF SourceInv, Current

(* The host leaves its source, or goes on with it.                         *)
LEMMA SourceLeft ==
    ASSUME LoopTypeOK, SourceInv, UNCHANGED <<holder, sources, lost>>, enabled' \subseteq enabled,
           \/ NextSource /\ host.at \in AtSource
           \/ /\ host.at \in AtSource
              /\ host'.at \in AtSource /\ host'.i = host.i
              /\ host'.at = "action" => host.at = "interrupt"
              /\ host'.at \in {"execute", "executed"} => host.at \in {"command", "execute"}
              /\ host'.at \in {"action", "execute", "executed"}
    PROVE  SourceInv'
<1>1. host.i \in Nat /\ host \in Host
  BY Records, Zenon DEF LoopTypeOK
<1>2. (enabled \subseteq Range(sources) \cup lost)'
  BY DEF SourceInv
<1>3. CASE NextSource /\ host.at \in AtSource
  <2>1. host'.at = "process" /\ host'.i = host.i + 1 /\ host'.i >= 1
    BY <1>1, <1>3 DEF NextSource, Host
  <2> QED
    BY <1>2, <1>3, <2>1 DEF SourceInv, AtSource
<1>4. CASE ~NextSource
  <2>1. Current' = Current
    BY <1>4 DEF Current
  <2> QED
    BY <1>2, <1>4, <2>1 DEF SourceInv, AtSource
<1> QED
  BY <1>3, <1>4

(* Every step keeps the host at a source that is where it was.             *)
LEMMA LoopSourceStep ==
    ASSUME LoopTypeOK, SourceInv, [LoopNext]_loopVars
    PROVE  SourceInv'
<1>0. host \in Host /\ host.i \in Nat
  BY Records, Zenon DEF LoopTypeOK
<1>1. CASE Run \/ Loop \/ LoopStep \/ Sleep
  <2>1. UNCHANGED <<sources, enabled, lost>>
    BY <1>1 DEF Run, Loop, LoopStep, Sleep
  <2>2. \/ host'.at \in {"out", "loop", "step"}
        \/ host'.at = "process" /\ host'.i = 1 /\ holder' = "host"
    BY <1>0, <1>1, Zenon DEF Run, Loop, LoopStep, Sleep, HostGoto, Host
  <2> QED
    BY <2>1, <2>2 DEF SourceInv, AtSource
<1>2. CASE Process
  <2>1. Current \in Source /\ host.i <= Len(sources) /\ holder = "host" /\ host.i >= 1
    <3>1. /\ host.i \in Nat /\ host.i >= 1 /\ host.i <= Len(sources) /\ sources \in Seq(Source)
          /\ holder = "host"
      BY <1>0, <1>2 DEF Process, SourceInv, LoopTypeOK
    <3> QED
      BY <3>1 DEF Current
  <2>2. UNCHANGED <<holder, sources, enabled, lost>>
    BY <1>2 DEF Process
  <2>3. CASE Current \in enabled
    <3>1. host'.at = Current /\ host'.i = host.i
      BY <1>0, <1>2, <2>3 DEF Process, Host
    <3> QED
      BY <2>1, <2>2, <3>1 DEF SourceInv, Current, Source, AtSource
  <2>4. CASE Current \notin enabled
    <3>1. host'.at = "process" /\ host'.i = host.i + 1
      BY <1>0, <1>2, <2>4 DEF Process, Host
    <3>2. host'.i >= 1
      BY <1>0, <3>1
    <3> QED
      BY <2>1, <2>2, <3>1, <3>2 DEF SourceInv, AtSource
  <2> QED
    BY <2>3, <2>4
<1>3. CASE Processed
  <2>1. (enabled \subseteq Range(sources) \cup lost)'
    BY <1>3, EnabledStays DEF Processed, SourceInv
  <2>2. host'.at = "sleep"
    BY <1>0, <1>3 DEF Processed, HostGoto, Host
  <2> QED
    BY <2>1, <2>2 DEF SourceInv, AtSource
<1>4. CASE InterruptCount
  <2>1. /\ host.at = "interrupt" /\ UNCHANGED <<holder, sources, lost, enabled>>
        /\ NextSource \/ (host'.at = "action" /\ host'.i = host.i)
    BY <1>0, <1>4, Zenon DEF InterruptCount, Host
  <2> QED
    BY <2>1, SourceLeft DEF AtSource
<1>5. CASE InterruptAction \/ TimerWork \/ CommandDone
  <2>1. /\ host.at \in AtSource /\ NextSource /\ UNCHANGED <<holder, sources, lost>>
        /\ enabled' \subseteq enabled
    BY <1>5 DEF InterruptAction, TimerWork, CommandDone, AtSource
  <2> QED
    BY <2>1, SourceLeft
<1>6. CASE CommandClaim \/ CommandAction
  <2>1. /\ host.at \in {"command", "execute"} /\ UNCHANGED <<holder, sources, lost, enabled>>
        /\ NextSource \/ (host'.at \in {"execute", "executed"} /\ host'.i = host.i)
    BY <1>0, <1>6 DEF CommandClaim, CommandAction, HostGoto, Host
  <2> QED
    BY <2>1, SourceLeft DEF AtSource
<1>7. CASE Execute \/ ExecuteSleep \/ ExecuteCheck \/ Stop \/ HandleInterrupt \/ TimerDue
  BY <1>7, SourceStays DEF Execute, ExecuteSleep, ExecuteCheck, Stop, HandleInterrupt, TimerDue
<1>8. ASSUME NEW s \in Source, AddEventSource(s) \/ RemoveEventSource(s)
      PROVE  SourceInv'
  <2>1. host' = host /\ holder = "none"
    BY <1>8 DEF AddEventSource, RemoveEventSource, CanChange
  <2>2. (enabled \subseteq Range(sources) \cup lost)'
    <3>1. CASE RemoveEventSource(s)
      BY <3>1, EnabledStays DEF RemoveEventSource, SourceInv
    <3>2. CASE AddEventSource(s)
      <4>1. sources' = Append(sources, s) /\ enabled' = enabled \cup {s} /\ lost' = lost
        BY <3>2 DEF AddEventSource
      <4>2. Range(sources) \cup {s} \subseteq Range(sources')
        <5>0. sources \in Seq(Source)
          BY DEF LoopTypeOK
        <5>1. /\ DOMAIN sources' = 1..Len(sources) + 1
              /\ sources'[Len(sources) + 1] = s
              /\ \A j \in DOMAIN sources : sources'[j] = sources[j] /\ j \in DOMAIN sources'
          BY <4>1, <5>0
        <5>2. Len(sources) + 1 \in DOMAIN sources'
          BY <5>0, <5>1
        <5> QED
          BY <5>1, <5>2, Zenon DEF Range
      <4> QED
        BY <4>1, <4>2 DEF SourceInv
    <3> QED
      BY <1>8, <3>1, <3>2
  <2>3. host.at \notin AtSource \cup {"process"}
    BY <2>1 DEF SourceInv
  <2> QED
    BY <2>1, <2>2, <2>3 DEF SourceInv, AtSource
<1>9. ASSUME NEW thread, ThreadStep(thread) \/ Alarm(thread)
      PROVE  SourceInv'
  BY <1>9, SourceStays DEF ThreadStep, Alarm
<1>10. CASE UNCHANGED loopVars
  BY <1>10, SourceStays DEF loopVars
<1> QED
  BY <1>1, <1>2, <1>3, <1>4, <1>5, <1>6, <1>7, <1>8, <1>9, <1>10 DEF LoopNext, HostStep, CallerStep

(* What a step leaves alone of the command.                                *)
LEMMA CommandStays ==
    ASSUME CommandInv, UNCHANGED <<cmd, caller, done, result>>,
           \/ host'.at = host.at
           \/ host.at \notin {"execute", "executed"} /\ host'.at \notin {"execute", "executed"}
    PROVE  CommandInv'
<1>1. OrderInv'
  BY DEF CommandInv, OrderInv
<1>2. ResultInv'
  BY DEF CommandInv, ResultInv
<1>3. BeforeInv'
  BY DEF CommandInv, BeforeInv
<1>4. AfterInv'
  BY DEF CommandInv, AfterInv
<1> QED
  BY <1>1, <1>2, <1>3, <1>4 DEF CommandInv

(* The host claims a command.                                              *)
LEMMA ClaimStep ==
    ASSUME LoopTypeOK, CommandInv, CommandClaim
    PROVE  CommandInv'
<1>0. host \in Host /\ cmd \in Command
  BY DEF LoopTypeOK
<1>1. CASE ~Claims
  <2>1. UNCHANGED <<cmd, caller, done, result>> /\ host.at = "command" /\ host'.at = "process"
    BY <1>0, <1>1, Zenon DEF CommandClaim, NextSource, Host
  <2> QED
    BY <2>1, CommandStays
<1>2. CASE Claims
  <2>1. /\ UNCHANGED <<caller, done, result>> /\ host.at = "command" /\ host'.at = "execute"
        /\ cmd' = [cmd EXCEPT !.executing = TRUE]
    BY <1>0, <1>2 DEF CommandClaim, HostGoto, Host
  <2>2. /\ cmd'.arg = cmd.arg /\ cmd'.waiting = cmd.waiting /\ cmd'.executing
        /\ cmd'.executed = cmd.executed /\ cmd'.cancelled = cmd.cancelled
        /\ cmd.waiting /\ ~cmd.cancelled
    BY <1>0, <1>2, <2>1, Zenon DEF Command, Claims
  <2>3. OrderInv'
    BY <2>1, <2>2 DEF CommandInv, OrderInv
  <2>4. ResultInv'
    BY <2>1 DEF CommandInv, ResultInv
  <2>5. BeforeInv'
    BY <2>1, <2>2 DEF CommandInv, BeforeInv
  <2>6. AfterInv'
    BY <2>1, <2>2 DEF CommandInv, AfterInv
  <2> QED
    BY <2>3, <2>4, <2>5, <2>6 DEF CommandInv
<1> QED
  BY <1>1, <1>2

(* Its action runs.                                                        *)
LEMMA ActionStep ==
    ASSUME LoopTypeOK, CommandInv, CommandAction
    PROVE  CommandInv'
<1>0. host \in Host /\ cmd.arg \in Nat /\ done \in Seq(Nat)
  BY Records, Zenon DEF LoopTypeOK
<1>1. UNCHANGED <<cmd, caller, result>> /\ host.at = "execute" /\ host'.at = "executed"
  BY <1>0 DEF CommandAction, HostGoto, Host
<1>2. /\ Len(done) \in Nat /\ DOMAIN done = 1..Len(done)
      /\ DOMAIN done' = 1..Len(done) + 1 /\ Len(done') = Len(done) + 1
      /\ done'[Len(done) + 1] = cmd.arg
      /\ \A k \in 1..Len(done) : done'[k] = done[k] /\ done[k] \in Nat
  BY <1>0 DEF CommandAction
<1>3. /\ cmd.waiting /\ cmd.arg \in 1..cmd.arg
      /\ \A k \in 1..Len(done) : done[k] < cmd.arg /\ done[k] \in 1..cmd.arg
  BY <1>0, <1>1, <1>2 DEF CommandInv, OrderInv
<1>4. OrderInv'
  <2>1. \A k \in DOMAIN done' : k = Len(done) + 1 \/ k \in 1..Len(done)
    BY <1>2
  <2>2. ASSUME NEW j \in DOMAIN done', NEW k \in DOMAIN done', j < k
        PROVE  done'[j] < done'[k]
    <3>1. j \in 1..Len(done)
      BY <1>2, <2>2
    <3>2. CASE k = Len(done) + 1
      BY <1>2, <1>3, <3>1, <3>2
    <3>3. CASE k \in 1..Len(done)
      BY <1>2, <2>2, <3>1, <3>3 DEF CommandInv, OrderInv
    <3> QED
      BY <2>1, <3>2, <3>3
  <2>3. \A k \in DOMAIN done' : done'[k] \in 1..cmd.arg
    BY <1>2, <1>3, <2>1
  <2> QED
    BY <1>1, <1>3, <2>2, <2>3 DEF CommandInv, OrderInv
<1>5. ResultInv'
  BY <1>1 DEF CommandInv, ResultInv
<1>6. BeforeInv'
  <2>1. ~cmd.executed => Len(done) = 0
    BY <1>1 DEF CommandInv, BeforeInv
  <2>2. ~cmd.executed => Len(done') = 1 /\ done'[1] = cmd.arg
    BY <1>2, <2>1
  <2> QED
    BY <1>1, <2>2 DEF CommandInv, BeforeInv
<1>7. AfterInv'
  <2>1. cmd.executed => Len(done) >= 1 /\ Len(done') >= 1 /\ done'[1] = done[1]
    BY <1>2 DEF CommandInv, AfterInv
  <2> QED
    BY <1>1, <2>1 DEF CommandInv, AfterInv
<1> QED
  BY <1>4, <1>5, <1>6, <1>7 DEF CommandInv

(* The host is done with it.                                               *)
LEMMA DoneStep ==
    ASSUME RunLoopAssumption, LoopTypeOK, CommandInv, CommandDone
    PROVE  CommandInv'
<1>0. /\ host \in Host /\ cmd \in Command /\ cmd.arg \in Nat /\ caller.arg \in Nat
      /\ caller.arg <= MaxCommands /\ MaxCommands \in Nat
  <2>1. /\ caller.arg \in 0..MaxCommands /\ cmd.arg \in Nat /\ host \in Host /\ cmd \in Command
    BY Records, Zenon DEF LoopTypeOK
  <2> QED
    BY <2>1 DEF RunLoopAssumption
<1>1. /\ UNCHANGED <<caller, done, result>> /\ host.at = "executed" /\ host'.at = "process"
      /\ cmd'.arg = cmd.arg /\ ~cmd'.waiting /\ cmd'.executed
  BY <1>0 DEF CommandDone, NextSource, Host, Command
<1>2. OrderInv'
  BY <1>1 DEF CommandInv, OrderInv
<1>3. ResultInv'
  BY <1>1 DEF CommandInv, ResultInv
<1>4. BeforeInv'
  BY <1>1 DEF BeforeInv
<1>5. AfterInv'
  <2>1. CASE cmd.executed
    BY <1>1, <2>1 DEF CommandInv, AfterInv
  <2>2. CASE ~cmd.executed
    <3>1. Len(done) = 1 /\ done[1] = caller.arg /\ caller.at # "idle"
      BY <1>1, <2>2 DEF CommandInv, BeforeInv, OrderInv
    <3>2. result[caller.arg] = "none"
      BY <3>1 DEF CommandInv, ResultInv
    <3>3. \A c \in 1..caller.arg - 1 : result[c] = "timeout"
      <4>1. \A c \in 1..caller.arg - 1 : c \in 1..caller.arg /\ c < caller.arg
        BY <1>0
      <4> QED
        BY <2>2, <4>1 DEF CommandInv, BeforeInv
    <3> QED
      BY <1>1, <3>1, <3>2, <3>3 DEF AfterInv
  <2> QED
    BY <2>1, <2>2
<1> QED
  BY <1>2, <1>3, <1>4, <1>5 DEF CommandInv

(* executeCommand() hands over the next command.                           *)
LEMMA ExecuteStep ==
    ASSUME RunLoopAssumption, LoopTypeOK, CommandInv, Execute
    PROVE  CommandInv'
<1>0. cmd \in Command /\ caller.arg \in Nat /\ MaxCommands \in Nat
  <2>1. caller.arg \in 0..MaxCommands /\ cmd \in Command
    BY Records, Zenon DEF LoopTypeOK
  <2> QED
    BY <2>1 DEF RunLoopAssumption
<1>1. /\ UNCHANGED <<host, done, result>> /\ caller.at = "idle" /\ caller.arg < MaxCommands
      /\ caller'.at = "sleep" /\ caller'.arg = caller.arg + 1
  BY DEF Execute
<1>2. /\ cmd'.arg = caller.arg + 1 /\ cmd'.waiting /\ ~cmd'.cancelled
      /\ cmd'.executing = cmd.executing /\ cmd'.executed = cmd.executed
  BY <1>0 DEF Execute, Command
<1>3. OrderInv'
  <2>1. \A k \in DOMAIN done : done[k] \in 1..caller.arg
    BY DEF CommandInv, OrderInv
  <2>2. \A k \in DOMAIN done : done[k] \in 1..caller.arg + 1 /\ done[k] < caller.arg + 1
    BY <1>0, <2>1
  <2>3. caller.arg + 1 >= 1
    BY <1>0
  <2> QED
    BY <1>1, <1>2, <2>2, <2>3 DEF CommandInv, OrderInv
<1>4. ResultInv'
  <2>1. caller.arg + 1 \in 1..MaxCommands /\ caller.arg + 1 > caller.arg /\ caller.arg + 1 >= 1
    BY <1>0, <1>1
  <2>2. \A c \in 1..MaxCommands : c > caller.arg + 1 => c > caller.arg
    BY <1>0
  <2> QED
    BY <1>1, <2>1, <2>2 DEF CommandInv, ResultInv
<1>5. BeforeInv'
  <2>1. \A c \in 1..caller.arg + 1 : c < caller.arg + 1 => c \in 1..caller.arg
    BY <1>0
  <2>2. ~cmd.executed => host.at # "executed"
    BY <1>1 DEF CommandInv, BeforeInv, OrderInv
  <2> QED
    BY <1>1, <1>2, <2>1, <2>2 DEF CommandInv, BeforeInv
<1>6. AfterInv'
  BY <1>1, <1>2 DEF CommandInv, AfterInv
<1> QED
  BY <1>3, <1>4, <1>5, <1>6 DEF CommandInv

(* It looks whether the command is carried out, and gives up on one that   *)
(* is not begun.                                                           *)
LEMMA CheckStep ==
    ASSUME RunLoopAssumption, LoopTypeOK, CommandInv, ExecuteCheck
    PROVE  CommandInv'
<1>0. /\ cmd \in Command /\ caller \in Caller /\ caller.arg \in Nat
      /\ caller.arg <= MaxCommands /\ MaxCommands \in Nat
      /\ result \in [1..MaxCommands -> {"none", "success", "timeout"}]
  <2>1. /\ caller.arg \in 0..MaxCommands /\ cmd \in Command /\ caller \in Caller
        /\ result \in [1..MaxCommands -> {"none", "success", "timeout"}]
    BY Records, Zenon DEF LoopTypeOK
  <2> QED
    BY <2>1 DEF RunLoopAssumption
<1>1. caller.at = "check" /\ UNCHANGED <<host, done>>
  BY DEF ExecuteCheck
<1>2. caller.arg >= 1 /\ caller.arg \in 1..MaxCommands
  BY <1>0, <1>1 DEF CommandInv, ResultInv
<1>3. ASSUME NEW r \in {"success", "timeout"}, Return(r)
      PROVE  /\ caller'.at = "idle" /\ caller'.arg = caller.arg /\ result'[caller.arg] = r
             /\ \A c \in 1..MaxCommands : c # caller.arg => result'[c] = result[c]
             /\ ResultInv'
  <2>1. /\ caller'.at = "idle" /\ caller'.arg = caller.arg
        /\ result' = [result EXCEPT ![caller.arg] = r]
    BY <1>0, <1>3 DEF Return, Caller
  <2>2. /\ result'[caller.arg] = r
        /\ \A c \in 1..MaxCommands : c # caller.arg => result'[c] = result[c]
    BY <1>0, <1>2, <2>1
  <2>3. \A c \in 1..MaxCommands : c > caller.arg => c # caller.arg
    BY <1>0
  <2> QED
    BY <2>1, <2>2, <2>3 DEF CommandInv, ResultInv
<1>4. CASE cmd.executed /\ Return("success") /\ UNCHANGED cmd
  <2>1. /\ caller'.at = "idle" /\ caller'.arg = caller.arg /\ result'[caller.arg] = "success"
        /\ \A c \in 1..MaxCommands : c # caller.arg => result'[c] = result[c]
        /\ ResultInv'
    BY <1>3, <1>4
  <2>2. OrderInv'
    BY <1>1, <1>4, <2>1 DEF CommandInv, OrderInv
  <2>3. AfterInv'
    <3>1. /\ Len(done) >= 1 /\ \A c \in 1..done[1] - 1 : result[c] = "timeout"
          /\ result[done[1]] # "timeout"
      BY <1>4 DEF CommandInv, AfterInv
    <3>2. done[1] \in 1..caller.arg
      <4>1. 1 \in DOMAIN done
        BY <3>1 DEF LoopTypeOK
      <4> QED
        BY <4>1 DEF CommandInv, OrderInv
    <3>3. /\ done[1] \in 1..MaxCommands
          /\ \A c \in 1..done[1] - 1 : c \in 1..MaxCommands /\ c # caller.arg
      BY <1>0, <1>2, <3>2
    <3>4. result'[done[1]] # "timeout"
      BY <2>1, <3>1, <3>3
    <3> QED
      BY <1>1, <1>4, <2>1, <3>1, <3>3, <3>4 DEF AfterInv
  <2> QED
    BY <1>4, <2>1, <2>2, <2>3 DEF CommandInv, BeforeInv
<1>5. CASE ~cmd.executed /\ GivesUp /\ Return("timeout") /\ cmd' = [cmd EXCEPT !.cancelled = TRUE]
  <2>1. /\ caller'.at = "idle" /\ caller'.arg = caller.arg /\ result'[caller.arg] = "timeout"
        /\ \A c \in 1..MaxCommands : c # caller.arg => result'[c] = result[c]
        /\ ResultInv'
    BY <1>3, <1>5
  <2>2. /\ cmd'.arg = cmd.arg /\ cmd'.waiting = cmd.waiting /\ cmd'.executing = cmd.executing
        /\ cmd'.executed = cmd.executed /\ cmd'.cancelled /\ ~cmd.executing
    BY <1>0, <1>5 DEF Command, GivesUp
  <2>3. OrderInv'
    BY <1>1, <2>1, <2>2 DEF CommandInv, OrderInv
  <2>4. BeforeInv'
    <3>1. host.at # "executed"
      BY <2>2 DEF CommandInv, OrderInv
    <3>2. \A c \in 1..caller.arg : c \in 1..MaxCommands /\ (c < caller.arg \/ c = caller.arg)
      BY <1>0, <1>2
    <3>3. \A c \in 1..caller.arg : result'[c] = "timeout"
      BY <1>5, <2>1, <3>2 DEF CommandInv, BeforeInv
    <3> QED
      BY <1>1, <1>5, <2>1, <2>2, <3>1, <3>3 DEF CommandInv, BeforeInv
  <2> QED
    BY <1>5, <2>1, <2>2, <2>3, <2>4 DEF CommandInv, AfterInv
<1>6. CASE ~cmd.executed /\ ~GivesUp /\ caller' = [caller EXCEPT !.at = "sleep"]
           /\ UNCHANGED <<cmd, result>>
  <2>1. caller'.at = "sleep" /\ caller'.arg = caller.arg
    BY <1>0, <1>6 DEF Caller
  <2>2. OrderInv'
    BY <1>1, <1>6, <2>1 DEF CommandInv, OrderInv
  <2>3. ResultInv'
    BY <1>1, <1>6, <2>1 DEF CommandInv, ResultInv
  <2>4. BeforeInv'
    BY <1>1, <1>6, <2>1 DEF CommandInv, BeforeInv
  <2> QED
    BY <1>6, <2>2, <2>3, <2>4 DEF CommandInv, AfterInv
<1> QED
  BY <1>4, <1>5, <1>6 DEF ExecuteCheck

(* Every step keeps what is known of the command.                          *)
LEMMA LoopCommandStep ==
    ASSUME RunLoopAssumption, LoopTypeOK, SourceInv, CommandInv, [LoopNext]_loopVars
    PROVE  CommandInv'
<1>0. host \in Host /\ caller \in Caller
  BY DEF LoopTypeOK
<1>1. CASE Run \/ Loop \/ LoopStep \/ Processed \/ Sleep
  <2>1. /\ UNCHANGED <<cmd, caller, done, result>>
        /\ host.at \notin {"execute", "executed"} /\ host'.at \notin {"execute", "executed"}
    BY <1>0, <1>1, Zenon DEF Run, Loop, LoopStep, Processed, Sleep, HostGoto, Host
  <2> QED
    BY <2>1, CommandStays
<1>2. CASE Process
  <2>1. Current \in Source
    <3>1. host.i \in Nat /\ host.i >= 1 /\ host.i <= Len(sources) /\ sources \in Seq(Source)
      BY <1>0, <1>2 DEF Process, SourceInv, LoopTypeOK, Host
    <3> QED
      BY <3>1 DEF Current
  <2>2. /\ UNCHANGED <<cmd, caller, done, result>>
        /\ host.at = "process" /\ host'.at \in Source \cup {"process"}
    BY <1>0, <1>2, <2>1 DEF Process, Host
  <2> QED
    BY <2>2, CommandStays DEF Source
<1>3. CASE InterruptCount \/ InterruptAction \/ TimerWork
  <2>1. /\ UNCHANGED <<cmd, caller, done, result>>
        /\ host.at \in {"interrupt", "action", "timer"} /\ host'.at \in {"process", "action"}
    BY <1>0, <1>3, Zenon DEF InterruptCount, InterruptAction, TimerWork, NextSource, Host
  <2> QED
    BY <2>1, CommandStays
<1>4. CASE ExecuteSleep
  <2>1. /\ UNCHANGED <<cmd, host, done, result>>
        /\ caller.at = "sleep" /\ caller'.at = "check" /\ caller'.arg = caller.arg
    BY <1>0, <1>4 DEF ExecuteSleep, Caller
  <2>2. OrderInv'
    BY <2>1 DEF CommandInv, OrderInv
  <2>3. ResultInv'
    BY <2>1 DEF CommandInv, ResultInv
  <2>4. BeforeInv'
    BY <2>1 DEF CommandInv, BeforeInv
  <2>5. AfterInv'
    BY <2>1 DEF CommandInv, AfterInv
  <2> QED
    BY <2>2, <2>3, <2>4, <2>5 DEF CommandInv
<1>5. CASE Stop \/ HandleInterrupt \/ TimerDue
  BY <1>5, CommandStays DEF Stop, HandleInterrupt, TimerDue
<1>6. ASSUME NEW s \in Source, AddEventSource(s) \/ RemoveEventSource(s)
      PROVE  CommandInv'
  BY <1>6, CommandStays DEF AddEventSource, RemoveEventSource
<1>7. ASSUME NEW thread, ThreadStep(thread) \/ Alarm(thread)
      PROVE  CommandInv'
  BY <1>7, CommandStays DEF ThreadStep, Alarm
<1>8. CASE UNCHANGED loopVars
  BY <1>8, CommandStays DEF loopVars
<1> QED
  BY <1>1, <1>2, <1>3, <1>4, <1>5, <1>6, <1>7, <1>8, ClaimStep, ActionStep, DoneStep,
     ExecuteStep, CheckStep
  DEF LoopNext, HostStep, CallerStep

(* The run loop keeps its invariant, whatever number of interrupts,        *)
(* commands and changes there are.                                         *)
LEMMA LoopInvariant ==
    ASSUME RunLoopAssumption
    PROVE  LoopSpec => []LoopInv
<1>1. LoopInit => LoopInv
  <2> SUFFICES ASSUME LoopInit
               PROVE  LoopInv
    OBVIOUS
  <2>0. /\ cmd.arg = 0 /\ ~cmd.waiting /\ ~cmd.executed /\ ~cmd.executing
        /\ cmd \in Command
    <3>1. cmd \in [waiting : {FALSE}, executing : {FALSE}, executed : {FALSE},
                   cancelled : {FALSE}, timeout : BOOLEAN, arg : {0}]
      BY Zenon DEF LoopInit
    <3>2. /\ cmd.arg = 0 /\ cmd.waiting = FALSE /\ cmd.executed = FALSE /\ cmd.executing = FALSE
      BY <3>1, Zenon
    <3>0. {FALSE} \subseteq BOOLEAN /\ {0} \subseteq Nat
      OBVIOUS
    <3>3. [waiting : {FALSE}, executing : {FALSE}, executed : {FALSE},
           cancelled : {FALSE}, timeout : BOOLEAN, arg : {0}] \subseteq Command
      BY <3>0, Zenon DEF Command
    <3> QED
      BY <3>1, <3>2, <3>3, Zenon
  <2>1. LoopTypeOK
    <3>1. sources \in Seq(Source)
      <4>1. "interrupt" \in Source /\ "timer" \in Source /\ "command" \in Source
        BY DEF Source
      <4>2. /\ <<"interrupt", "timer", "command">> \in Seq(Source)
            /\ <<"command", "timer">> \in Seq(Source)
        BY <4>1
      <4> QED
        BY <4>2, Zenon DEF LoopInit
    <3>2. host \in Host /\ irq \in [count : Nat, consumed : Nat]
      BY DEF LoopInit, Host, Place
    <3>3. cmd \in Command
      BY <2>0
    <3>4. caller \in Caller
      BY RunLoopAssumption DEF LoopInit, Caller, RunLoopAssumption
    <3>5. done \in Seq(Nat) /\ result \in [1..MaxCommands -> {"none", "success", "timeout"}]
      BY DEF LoopInit
    <3> QED
      BY <3>1, <3>2, <3>3, <3>4, <3>5 DEF LoopTypeOK
  <2>2. SourceInv
    BY DEF LoopInit, SourceInv, AtSource
  <2>3. OrderInv
    BY <2>0 DEF LoopInit, OrderInv
  <2>4. ResultInv
    BY DEF LoopInit, ResultInv
  <2>5. BeforeInv
    BY <2>0 DEF LoopInit, BeforeInv
  <2>6. AfterInv
    BY <2>0 DEF LoopInit, AfterInv
  <2> QED
    BY <2>1, <2>2, <2>3, <2>4, <2>5, <2>6 DEF LoopInv, CommandInv
<1>2. LoopInv /\ [LoopNext]_loopVars => LoopInv'
  BY RunLoopAssumption, LoopTypeStep, LoopSourceStep, LoopCommandStep DEF LoopInv
<1> QED
  BY <1>1, <1>2, PTL DEF LoopSpec

(* However the threads, interrupts and the clock interleave: an action     *)
(* runs at most once for each executeCommand(); up to the first that is    *)
(* carried out, the caller is told whether it was; and the host works only *)
(* on a source that is attached.                                           *)
THEOREM LoopIsHonest ==
    ASSUME RunLoopAssumption
    PROVE  LoopSpec => []LoopHonest
<1>1. ASSUME LoopInv
      PROVE  RemovedIsQuiet
  <2>1. /\ host.i \in Nat /\ sources \in Seq(Source) /\ host.at \in Place
    BY <1>1, Records, Zenon DEF LoopInv, LoopTypeOK
  <2>2. host.at \in AtSource => host.i \in DOMAIN sources
    BY <1>1, <2>1 DEF LoopInv, SourceInv
  <2>3. host.at \in Source => host.at \in Range(sources)
    <3>1. host.at \in Source => host.at \in AtSource /\ host.at = sources[host.i]
      BY <1>1 DEF LoopInv, SourceInv, Source, AtSource, Current
    <3> QED
      BY <2>2, <3>1 DEF Range
  <2> QED
    BY <1>1, <2>3 DEF LoopInv, SourceInv, RemovedIsQuiet, AtSource
<1>2. ASSUME LoopInv
      PROVE  CommandHonest
  <2> SUFFICES ASSUME NEW c \in 1..MaxCommands
               PROVE  LET ran == Cardinality({k \in DOMAIN done : done[k] = c}) IN
                      /\ ran <= 1
                      /\ FirstSuccess(c) => /\ result[c] = "success" => ran = 1
                                            /\ result[c] = "timeout" => ran = 0
    BY DEF CommandHonest
  <2> DEFINE at == {k \in DOMAIN done : done[k] = c}
  <2>0. /\ MaxCommands \in Nat /\ done \in Seq(Nat) /\ Len(done) \in Nat
        /\ DOMAIN done = 1..Len(done) /\ caller.arg \in Nat /\ cmd.arg = caller.arg /\ c \in Nat
    <3>1. caller.arg \in 0..MaxCommands /\ done \in Seq(Nat) /\ cmd.arg = caller.arg
      BY <1>2, Records, Zenon DEF LoopInv, LoopTypeOK, CommandInv, OrderInv
    <3> QED
      BY <3>1, RunLoopAssumption DEF RunLoopAssumption
  <2>1. \A j, k \in at : j = k
    <3>1. \A j, k \in at : ~(j < k)
      BY <1>2, <2>0 DEF LoopInv, CommandInv, OrderInv
    <3> QED
      BY <2>0, <3>1
  <2>2. at = {} => Cardinality(at) = 0
    BY FS_EmptySet
  <2>3. at # {} => Cardinality(at) = 1
    <3> SUFFICES ASSUME at # {}
                 PROVE  Cardinality(at) = 1
      OBVIOUS
    <3>1. PICK k \in at : TRUE
      OBVIOUS
    <3>2. at = {k}
      BY <2>1, <3>1
    <3> QED
      BY <3>2, FS_Singleton
  <2>4. FirstSuccess(c) /\ result[c] = "success" => at # {}
    <3> SUFFICES ASSUME FirstSuccess(c), result[c] = "success"
                 PROVE  at # {}
      OBVIOUS
    <3>1. cmd.executed
      <4> SUFFICES ASSUME ~cmd.executed
                   PROVE  FALSE
        OBVIOUS
      <4>1. c <= caller.arg
        BY <1>2, <2>0 DEF LoopInv, CommandInv, ResultInv
      <4>2. c \in 1..caller.arg /\ (c < caller.arg \/ c = caller.arg)
        BY <2>0, <4>1
      <4>3. CASE c < caller.arg \/ caller.at = "idle"
        BY <1>2, <4>2, <4>3 DEF LoopInv, CommandInv, BeforeInv
      <4>4. CASE c = caller.arg /\ caller.at # "idle"
        BY <1>2, <4>4 DEF LoopInv, CommandInv, ResultInv
      <4> QED
        BY <4>2, <4>3, <4>4
    <3>2. /\ Len(done) >= 1 /\ \A b \in 1..done[1] - 1 : result[b] = "timeout"
          /\ result[done[1]] # "timeout"
      BY <1>2, <3>1 DEF LoopInv, CommandInv, AfterInv
    <3>3. 1 \in DOMAIN done /\ done[1] \in 1..caller.arg /\ done[1] \in Nat
      BY <1>2, <2>0, <3>2 DEF LoopInv, CommandInv, OrderInv
    <3>4. ~(c < done[1])
      <4>1. c < done[1] => c \in 1..done[1] - 1
        BY <2>0, <3>3
      <4> QED
        BY <3>2, <4>1
    <3>5. ~(done[1] < c)
      <4> SUFFICES ASSUME done[1] < c
                   PROVE  FALSE
        OBVIOUS
      <4>1. done[1] \in 1..c - 1 /\ done[1] \in 1..MaxCommands
        BY <2>0, <3>3
      <4>2. result[done[1]] \in {"none", "success", "timeout"}
        BY <1>2, <4>1 DEF LoopInv, LoopTypeOK
      <4> QED
        BY <3>2, <4>1, <4>2 DEF FirstSuccess
    <3>6. done[1] = c
      BY <2>0, <3>3, <3>4, <3>5
    <3> QED
      BY <3>3, <3>6
  <2>5. FirstSuccess(c) /\ result[c] = "timeout" => at = {}
    <3> SUFFICES ASSUME result[c] = "timeout", NEW k \in DOMAIN done, done[k] = c, FirstSuccess(c)
                 PROVE  FALSE
      OBVIOUS
    <3>0. k \in Nat /\ k >= 1 /\ Len(done) >= 1 /\ 1 \in DOMAIN done
      BY <2>0
    <3>1. CASE cmd.executed
      <4>1. /\ result[done[1]] # "timeout"
        BY <1>2, <3>1 DEF LoopInv, CommandInv, AfterInv
      <4>2. done[1] # c /\ k # 1
        BY <4>1
      <4>3. done[1] < c /\ done[1] \in 1..caller.arg
        <5>1. 1 < k
          BY <3>0, <4>2
        <5> QED
          BY <1>2, <2>0, <3>0, <5>1 DEF LoopInv, CommandInv, OrderInv
      <4>4. done[1] \in 1..c - 1 /\ done[1] \in 1..MaxCommands
        BY <2>0, <4>3
      <4>5. result[done[1]] \in {"none", "success", "timeout"}
        BY <1>2, <4>4 DEF LoopInv, LoopTypeOK
      <4> QED
        BY <4>1, <4>4, <4>5 DEF FirstSuccess
    <3>2. CASE ~cmd.executed
      <4>1. host.at = "executed" /\ Len(done) = 1 /\ done[1] = cmd.arg
        <5>1. done # <<>>
          BY <3>0
        <5> QED
          BY <1>2, <3>2, <5>1 DEF LoopInv, CommandInv, BeforeInv
      <4>2. c = caller.arg
        BY <2>0, <3>0, <4>1
      <4>3. caller.at # "idle"
        BY <1>2, <3>2, <4>1 DEF LoopInv, CommandInv, OrderInv, BeforeInv
      <4> QED
        BY <1>2, <4>2, <4>3 DEF LoopInv, CommandInv, ResultInv
    <3> QED
      BY <3>1, <3>2
  <2> HIDE DEF at
  <2>6. /\ Cardinality(at) <= 1
        /\ FirstSuccess(c) => /\ result[c] = "success" => Cardinality(at) = 1
                              /\ result[c] = "timeout" => Cardinality(at) = 0
    BY <2>2, <2>3, <2>4, <2>5
  <2> QED
    BY <2>6, Zenon DEF at
<1> QED
  BY <1>1, <1>2, RunLoopAssumption, LoopInvariant, PTL DEF LoopHonest
=============================================================================
