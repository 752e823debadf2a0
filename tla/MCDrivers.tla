----------------------------- MODULE MCDrivers -----------------------------
(***************************************************************************)
(* What the kernel threads do while nothing holds the CPU: syslogd prints, *)
(* a run loop serves its sources, modules are loaded, published and        *)
(* stopped, and objects are retained and released.  The four share no      *)
(* state, so that a behaviour belongs to one of them, which Init chooses,  *)
(* and the states add up instead of multiplying.                           *)
(***************************************************************************)
EXTENDS Syslogd, RunLoop, TLC

CONSTANTS
    Driver,             \* threads that look modules up
    MaxRefs, MaxPools   \* bounds of the objects

VARIABLES
    used,                                    \* the part of this behaviour
    glued, queue, store, lib, tree, kmod, dict, obj, stopped, thread, client, bumped,
    raced, failed,                           \* the modules
    owns, rc, holds, at, assigned, seen, threads, pools, todo, drain, leaked, fault
                                             \* the objects

(* The bus and a network card, whose driver needs the library of the bus.  *)
Modules == INSTANCE IOModules WITH
    Module <- {"pci", "rtl"}, Conf <- <<"pci", "rtl">>,
    Needs <- ("pci" :> {}) @@ ("rtl" :> {"pci"}),
    Client <- Driver, stop <- stopped

(* An object that has another, which its free() releases or autoreleases.  *)
Having(later) == {[by |-> "array", owned |-> "entry", later |-> later]}

Objects == INSTANCE Objects WITH
    Thread <- {"main", "worker"}, Object <- {"array", "entry"},
    Owning <- {Having(TRUE), Having(FALSE)}, dict <- threads

ASSUME DriversAssumption == RunLoopAssumption /\ Modules!IOModulesAssumption

moduleVars == <<glued, queue, store, lib, tree, kmod, dict, obj, stopped, thread, client,
                bumped, raced, failed>>
objectVars == <<owns, rc, holds, at, assigned, seen, threads, pools, todo, drain, leaked,
                fault>>
allVars == <<used, vars, loopVars, moduleVars, objectVars>>

DriversInit ==
    /\ used \in {"syslogd", "run loop", "modules", "objects"}
    /\ Init
    /\ LoopInit
    /\ Modules!Init
    /\ Objects!Init
    /\ holds["main"]["array"] = 1   \* the threads are alike
    /\ used # "objects" => owns = Having(TRUE)
    /\ used # "run loop" => Len(sources) = 2 /\ ~timer.repeats /\ ~cmd.timeout

UseSyslogd ==
    /\ used = "syslogd"
    /\ Next
    /\ UNCHANGED <<used, loopVars, moduleVars, objectVars>>

UseRunLoop ==
    /\ used = "run loop"
    /\ LoopNext
    /\ UNCHANGED <<used, vars, moduleVars, objectVars>>

UseModules ==
    /\ used = "modules"
    /\ Modules!Next
    /\ UNCHANGED <<used, vars, loopVars, objectVars>>

UseObjects ==
    /\ used = "objects"
    /\ Objects!Next
    /\ UNCHANGED <<used, vars, loopVars, moduleVars>>

DriversNext == UseSyslogd \/ UseRunLoop \/ UseModules \/ UseObjects

ModulesRun == used = "modules" /\ glued.at # "panic"
ObjectsRun == used = "objects" /\ ~fault

(* Every thread that can run gets the CPU again and again (Scheduler), and *)
(* the timer interrupt wakes those whose time has come.                    *)
DriversFairness ==
    /\ WF_vars(used = "syslogd" /\ DaemonStep)
    /\ \A t \in Threads : WF_vars(used = "syslogd" /\ Step(t))
    /\ WF_loopVars(used = "run loop" /\ HostStep)
    /\ WF_loopVars(used = "run loop" /\ Free("caller")
                     /\ (ExecuteSleep \/ ExecuteCheck))
    /\ \A t \in Thread : /\ WF_loopVars(used = "run loop" /\ ThreadStep(t))
                         /\ WF_loopVars(used = "run loop" /\ Alarm(t))
    /\ WF_moduleVars(ModulesRun /\ Modules!Glued)
    /\ \A m \in {"pci", "rtl"} : WF_moduleVars(ModulesRun /\ Modules!ModuleThread(m))
    /\ \A c \in Driver : WF_moduleVars(ModulesRun /\ Modules!WaitForPublish(c))
    /\ \A t \in {"main", "worker"} : WF_objectVars(ObjectsRun /\ Objects!Work(t))

DriversSpec == DriversInit /\ [][DriversNext]_allVars /\ DriversFairness

-----------------------------------------------------------------------------
(* Libraries and modules have the references that are held to them.        *)
ModulesCounted == Modules!ModulesCounted

(* Objects have the references that are held to them, and a thread that    *)
(* runs is known by its id.                                                *)
ObjectsCounted == Objects!CountsExact /\ Objects!ThreadsKnown

(* A driver that waits for a module and a pool that is freed get done.     *)
WaitsEnd == Modules!WaitersReturn /\ Objects!PoolsDrain
=============================================================================
