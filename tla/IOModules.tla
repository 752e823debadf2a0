------------------------------ MODULE IOModules ------------------------------
(***************************************************************************)
(* The life of kernel modules: ioglued() loads the libraries that          *)
(* /etc/ioglue.conf names and stops the modules without references         *)
(* (kerneld/ioglued.c), the tree of modules and their counts               *)
(* (ioglue/iomodule.c), the store of libraries and their counts            *)
(* (ioglue/iostore.c, iolibrary.c), and the IOModule object that a module  *)
(* publishes on a thread of its own (libio/IOModule.cpp).                  *)
(*                                                                         *)
(* ioglued, the threads of the modules and the drivers that look modules   *)
(* up are kernel threads and are preempted everywhere; a step is what runs *)
(* under one lock.  A library and its module have the same name.           *)
(***************************************************************************)
EXTENDS Integers, Sequences, FiniteSets, SequencesExt

CONSTANTS
    Module,
    Conf,    \* the modules in /etc/ioglue.conf, in order
    Needs,   \* per module: the libraries its library depends on
    Client,  \* the drivers' threads
    NULL

IOModulesAssumption ==
    /\ Conf \in Seq(Module)
    /\ Needs \in [Module -> SUBSET Module]

VARIABLES
    glued,   \* ioglued: [at, i, list]
    queue,   \* __ioglued_modulesToStop
    store,   \* __io_storeLibraries
    lib,     \* per module: refCount of its library, 0 where there is none
    tree,    \* __io_moduleTree
    kmod,    \* per module: [state, references, initialized, module]
    dict,    \* __moduleDictionary of IOModule.cpp
    obj,     \* per module: its IOModule [state, retainCount, published,
             \*   needsUnpublish, open]; open when _publishLock is
    stop,    \* the modules whose run loop was told to stop
    thread,  \* per module: where its thread is
    client,  \* per client: [at, m, took]; took when it has a reference
    bumped,  \* the modules that io_moduleStop() gave a reference
    raced,   \* the modules that a client took without a reference or freed
    failed   \* the modules that were freed because they did not start

vars == <<glued, queue, store, lib, tree, kmod, dict, obj, stop, thread, client,
          bumped, raced, failed>>

NoKmod == [state |-> "none", references |-> 0, initialized |-> FALSE, module |-> FALSE]
NoObject == [state |-> "none", retainCount |-> 0, published |-> FALSE,
             needsUnpublish |-> FALSE, open |-> FALSE]

Init ==
    /\ glued = [at |-> "load", i |-> 1, list |-> <<>>]
    /\ queue = <<>>
    /\ store = {}
    /\ lib = [m \in Module |-> 0]
    /\ tree = {}
    /\ kmod = [m \in Module |-> NoKmod]
    /\ dict = {}
    /\ obj = [m \in Module |-> NoObject]
    /\ stop = {}
    /\ thread = [m \in Module |-> "none"]
    /\ client = [c \in Client |-> [at |-> "idle", m |-> NULL, took |-> FALSE]]
    /\ bumped = {} /\ raced = {} /\ failed = {}

-----------------------------------------------------------------------------
(* The names ioglued() asks for.  The comma is searched from the beginning *)
(* of the file every time, so that the second name goes on to its end.     *)
Requested(conf) == IF Len(conf) > 2 THEN SubSeq(conf, 1, 1) ELSE conf

GluedNext == [glued EXCEPT !.at = "load", !.i = @ + 1]

(* A mutant: the libraries that are needed are not retained. *)
RetainNone(refs, S) == refs

(* io_libraryRetain() of what a library needs, io_libraryRelease() of it.  *)
RetainAll(refs, S) == [m \in Module |-> IF m \in S THEN refs[m] + 1 ELSE refs[m]]

(* io_libraryRelease(): at zero the libraries that this one needs are      *)
(* released too.  A library is loaded after those it needs, so that the    *)
(* order of loading, backwards, meets every library before these.          *)
ReleaseLibrary(refs, m) ==
    LET release[i \in 0..Len(Conf)] ==
          \* the counts, and the libraries that are gone
          IF i = 0 THEN [refs |-> [refs EXCEPT ![m] = @ - 1],
                         gone |-> IF refs[m] = 1 THEN {m} ELSE {}]
          ELSE LET r == release[i - 1]
                   n == Conf[Len(Conf) + 1 - i]
               IN  IF n \notin r.gone THEN r
                   ELSE LET left == [d \in Module |-> IF d \in Needs[n] THEN r.refs[d] - 1
                                                      ELSE r.refs[d]]
                        IN  [refs |-> left,
                             gone |-> r.gone \cup {d \in Needs[n] : left[d] = 0}]
    IN  release[Len(Conf)]

(* io_moduleWithName() with the path of a file: it finds neither a module  *)
(* nor a library, for their names have no path.  The file may be missing   *)
(* or not be a library; a library that cannot be relocated leaves the      *)
(* store, but is used all the same; one without entry points stays there.  *)
LoadMissing ==
    /\ glued.at = "load"
    /\ glued.i <= Len(Requested(Conf))
    /\ glued' = GluedNext
    /\ UNCHANGED <<queue, store, lib, tree, kmod, dict, obj, stop, thread, client,
                   bumped, raced, failed>>

(* io_libraryCreate(): the creator has the first reference.                *)
CreateLibrary(m) == [lib EXCEPT ![m] = 1]

LoadLibrary(m) ==
    /\ glued.at = "load"
    /\ glued.i <= Len(Requested(Conf)) /\ m = Requested(Conf)[glued.i]
    /\ Needs[m] \subseteq store
    /\ lib' = RetainAll(CreateLibrary(m), Needs[m])
    /\ \E relocated \in BOOLEAN : store' = IF relocated THEN store \cup {m} ELSE store

(* io_libraryResolveDependencies() of a library whose dependency is not    *)
(* in the store: panic().                                                  *)
LoadPanics(m) ==
    /\ glued.at = "load"
    /\ glued.i <= Len(Requested(Conf)) /\ m = Requested(Conf)[glued.i]
    /\ ~(Needs[m] \subseteq store)
    /\ glued' = [glued EXCEPT !.at = "panic"]
    /\ UNCHANGED <<queue, store, lib, tree, kmod, dict, obj, stop, thread, client, bumped,
                   raced, failed>>

LoadWithoutEntry(m) ==
    /\ LoadLibrary(m)
    /\ glued' = GluedNext
    /\ UNCHANGED <<queue, tree, kmod, dict, obj, stop, thread, client, bumped, raced, failed>>

(* __io_moduleCreateWithLibrary()                                          *)
LoadModule(m) ==
    /\ LoadLibrary(m)
    /\ kmod' = [kmod EXCEPT ![m] = [NoKmod EXCEPT !.state = "live", !.references = 1]]
    /\ tree' = tree \cup {m}
    /\ glued' = [glued EXCEPT !.at = "start"]
    /\ UNCHANGED <<queue, dict, obj, stop, thread, client, bumped, raced, failed>>

(* __io_moduleStart() fails: the module is freed and stays in the tree.    *)
StartFails(m) ==
    /\ glued.at = "start" /\ m = Conf[glued.i]
    /\ lib' = ReleaseLibrary(lib, m).refs
    /\ store' = store \ ReleaseLibrary(lib, m).gone
    /\ kmod' = [kmod EXCEPT ![m].state = "freed"]
    /\ failed' = failed \cup {m}
    /\ glued' = GluedNext
    /\ UNCHANGED <<queue, tree, dict, obj, stop, thread, client, bumped, raced>>

(* IOModule::unpublish() changes the dictionary without __moduleLock: a    *)
(* module whose entry comes into it meanwhile may not get there.           *)
Unlisting == {m \in Module : thread[m] = "unlisting"}

(* _kern_start() and IOModule::initWithKmod(): the dictionary and the      *)
(* thread retain the object.                                               *)
Start(m) ==
    /\ glued.at = "start" /\ m = Conf[glued.i]
    /\ obj' = [obj EXCEPT ![m] = [NoObject EXCEPT !.state = "live", !.retainCount = 3]]
    /\ dict' = dict \cup {m} \/ (Unlisting # {} /\ dict' = dict)
    /\ thread' = [thread EXCEPT ![m] = "publish"]
    /\ glued' = [glued EXCEPT !.at = "attach"]
    /\ UNCHANGED <<queue, store, lib, tree, kmod, stop, client, bumped, raced, failed>>

Attach(m) ==
    /\ glued.at = "attach" /\ m = Conf[glued.i]
    /\ kmod' = [kmod EXCEPT ![m].module = TRUE]
    /\ glued' = [glued EXCEPT !.at = "started"]
    /\ UNCHANGED <<queue, store, lib, tree, dict, obj, stop, thread, client, bumped,
                   raced, failed>>

Started(m) ==
    /\ glued.at = "started" /\ m = Conf[glued.i]
    /\ kmod' = [kmod EXCEPT ![m].initialized = TRUE]
    /\ glued' = GluedNext
    /\ UNCHANGED <<queue, store, lib, tree, dict, obj, stop, thread, client, bumped,
                   raced, failed>>

(* The loop of ioglued(): it takes what was queued and looks at each.      *)
TakeQueue ==
    /\ glued.at = "load" /\ glued.i > Len(Requested(Conf))
    /\ queue # <<>>
    /\ glued' = [glued EXCEPT !.at = "check", !.list = queue]
    /\ queue' = <<>>
    /\ UNCHANGED <<store, lib, tree, kmod, dict, obj, stop, thread, client, bumped,
                   raced, failed>>

GluedModule == Head(glued.list)
Done(g) == [g EXCEPT !.at = IF Len(g.list) = 1 THEN "load" ELSE "check",
                     !.list = Tail(g.list)]

CheckModule(m) ==
    /\ glued.at = "check" /\ m = GluedModule
    /\ IF kmod[m].initialized
       THEN glued' = [glued EXCEPT !.at = "stop"] /\ UNCHANGED queue
       ELSE glued' = Done(glued) /\ queue' = Append(queue, m)
    /\ UNCHANGED <<store, lib, tree, kmod, dict, obj, stop, thread, client, bumped,
                   raced, failed>>

(* IOModule::requestUnpublish()                                            *)
RequestUnpublish(m) ==
    /\ obj' = IF obj[m].published THEN [obj EXCEPT ![m].needsUnpublish = TRUE] ELSE obj
    /\ stop' = IF obj[m].published THEN stop \cup {m} ELSE stop

(* io_moduleStop(): _kern_stop() refuses while there is an object.         *)
StopRefused(m) ==
    /\ glued.at = "stop" /\ m = GluedModule
    /\ kmod[m].module
    /\ RequestUnpublish(m)
    /\ kmod' = [kmod EXCEPT ![m].references = @ + 1]
    /\ bumped' = bumped \cup {m}
    /\ glued' = Done(glued)
    /\ UNCHANGED <<queue, store, lib, tree, dict, thread, client, raced, failed>>

StopAgreed(m) ==
    /\ glued.at = "stop" /\ m = GluedModule
    /\ ~kmod[m].module
    /\ glued' = [glued EXCEPT !.at = "remove"]
    /\ UNCHANGED <<queue, store, lib, tree, kmod, dict, obj, stop, thread, client, bumped,
                   raced, failed>>

RemoveModule(m) ==
    /\ glued.at = "remove" /\ m = GluedModule
    /\ tree' = tree \ {m}
    /\ glued' = [glued EXCEPT !.at = "free"]
    /\ UNCHANGED <<queue, store, lib, kmod, dict, obj, stop, thread, client, bumped,
                   raced, failed>>

FreeModule(m) ==
    /\ glued.at = "free" /\ m = GluedModule
    /\ lib' = ReleaseLibrary(lib, m).refs
    /\ store' = store \ ReleaseLibrary(lib, m).gone
    /\ kmod' = [kmod EXCEPT ![m].state = "freed"]
    /\ glued' = Done(glued)
    /\ UNCHANGED <<queue, tree, dict, obj, stop, thread, client, bumped, raced, failed>>

Glued ==
    \/ LoadMissing \/ TakeQueue
    \/ \E m \in Module :
         \/ LoadPanics(m) \/ LoadWithoutEntry(m) \/ LoadModule(m) \/ StartFails(m) \/ Start(m)
         \/ Attach(m) \/ Started(m) \/ CheckModule(m) \/ StopRefused(m) \/ StopAgreed(m)
         \/ RemoveModule(m) \/ FreeModule(m)

-----------------------------------------------------------------------------
(* IOObject::release()                                                     *)
ReleaseObject(o, m) ==
    [o EXCEPT ![m].retainCount = @ - 1,
              ![m].state = IF o[m].retainCount = 1 THEN "freed" ELSE @]

(* The entry of the object is removed; the dictionary releases it.         *)
Unlist(m) ==
    /\ dict' = dict \ {m}
    /\ obj' = IF m \in dict THEN ReleaseObject(obj, m) ELSE obj

Step(m, from, to) == thread[m] = from /\ thread' = [thread EXCEPT ![m] = to]

(* IOModule::finalizePublish(), the thread of a module.                    *)
PublishFails(m) ==
    /\ Step(m, "publish", "failed")
    /\ Unlist(m)
    /\ UNCHANGED <<glued, queue, store, lib, tree, kmod, stop, client, bumped, raced, failed>>

Publish(m) ==
    /\ Step(m, "publish", "probe")
    /\ obj' = [obj EXCEPT ![m].published = TRUE]
    /\ UNCHANGED <<glued, queue, store, lib, tree, kmod, dict, stop, client, bumped, raced,
                   failed>>

(* A mutant: the lock is kept after publish(). *)
PublishedLocked(m) ==
    /\ Step(m, "probe", "loop")
    /\ UNCHANGED <<glued, queue, store, lib, tree, kmod, dict, obj, stop, client, bumped,
                   raced, failed>>

(* requestProbe(), then _publishLock is opened.                            *)
Published(m) ==
    /\ Step(m, "probe", "loop")
    /\ obj' = [obj EXCEPT ![m].open = TRUE]
    /\ UNCHANGED <<glued, queue, store, lib, tree, kmod, dict, stop, client, bumped, raced,
                   failed>>

(* The loop that calls run(), which forgets a stop() that came before it.  *)
Loop(m) ==
    /\ Step(m, "loop", IF obj[m].needsUnpublish THEN "unpublish" ELSE "run")
    /\ UNCHANGED <<glued, queue, store, lib, tree, kmod, dict, obj, stop, client, bumped,
                   raced, failed>>

RunLoopRun(m) ==
    /\ Step(m, "run", "running")
    /\ stop' = stop \ {m}
    /\ UNCHANGED <<glued, queue, store, lib, tree, kmod, dict, obj, client, bumped, raced,
                   failed>>

RunLoopReturns(m) ==
    /\ m \in stop
    /\ Step(m, "running", "loop")
    /\ UNCHANGED <<glued, queue, store, lib, tree, kmod, dict, obj, stop, client, bumped,
                   raced, failed>>

(* IOModule::unpublish(), which holds no lock.                             *)
Unpublish(m) ==
    /\ Step(m, "unpublish", "unlisting")
    /\ UNCHANGED <<glued, queue, store, lib, tree, kmod, dict, obj, stop, client, bumped,
                   raced, failed>>

Unlisted(m) ==
    /\ Step(m, "unlisting", "unlisted")
    /\ Unlist(m)
    /\ UNCHANGED <<glued, queue, store, lib, tree, kmod, stop, client, bumped, raced, failed>>

Unmark(m) ==
    /\ Step(m, "unlisted", "unmarked")
    /\ obj' = [obj EXCEPT ![m].published = FALSE]
    /\ UNCHANGED <<glued, queue, store, lib, tree, kmod, dict, stop, client, bumped, raced,
                   failed>>

Unpublished(m) ==
    /\ Step(m, "unmarked", "unpublished")
    /\ kmod' = [kmod EXCEPT ![m].module = FALSE]
    /\ UNCHANGED <<glued, queue, store, lib, tree, dict, obj, stop, client, bumped, raced,
                   failed>>

(* module->release(), io_moduleRelease() and the end of the thread, which  *)
(* held a reference as well.                                               *)
ModuleRelease(m) ==
    /\ kmod' = [kmod EXCEPT ![m].references = @ - 1]
    /\ queue' = IF kmod[m].references = 1 THEN Append(queue, m) ELSE queue

ReleaseModule(m) ==
    /\ thread[m] \in {"failed", "unpublished"}
    /\ thread' = [thread EXCEPT ![m] = "exit"]
    /\ obj' = ReleaseObject(ReleaseObject(obj, m), m)
    /\ ModuleRelease(m)
    /\ UNCHANGED <<glued, store, lib, tree, dict, stop, client, bumped, raced, failed>>

ModuleThread(m) ==
    \/ PublishFails(m) \/ Publish(m) \/ Published(m) \/ Loop(m) \/ RunLoopRun(m)
    \/ RunLoopReturns(m) \/ Unpublish(m) \/ Unlisted(m) \/ Unmark(m) \/ Unpublished(m)
    \/ ReleaseModule(m)

-----------------------------------------------------------------------------
(* IOModule::withName() of a driver: the dictionary, which does not retain *)
(* the object for it, then the tree.  A name without a path is not a file. *)
FindObject(c, m) ==
    /\ client[c].at = "idle"
    /\ m \in dict
    /\ client' = [client EXCEPT ![c] = [at |-> "wait", m |-> m, took |-> FALSE]]
    /\ UNCHANGED <<glued, queue, store, lib, tree, kmod, dict, obj, stop, thread, bumped,
                   raced, failed>>

(* The tree also has the modules that were freed because they did not      *)
(* start; a lookup in the midst of a removal may miss the entry.           *)
FindModule(c, m) ==
    /\ client[c].at = "idle"
    /\ m \notin dict \/ m \in Unlisting
    /\ m \in tree
    /\ client' = [client EXCEPT ![c] = [at |-> "retain", m |-> m, took |-> FALSE]]
    /\ UNCHANGED <<glued, queue, store, lib, tree, kmod, dict, obj, stop, thread, bumped,
                   raced, failed>>

(* io_moduleRetain(), after the lock of the tree is gone, of a module that *)
(* may be freed or on its way there.                                       *)
RetainModule(c) ==
    LET m == client[c].m IN
    /\ client[c].at = "retain"
    /\ raced' = IF kmod[m].references = 0 \/ kmod[m].state = "freed"
                THEN raced \cup {m} ELSE raced
    /\ kmod' = [kmod EXCEPT ![m].references = @ + 1]
    /\ client' = [client EXCEPT ![c].at = IF kmod[m].module THEN "wait" ELSE "has",
                                   ![c].took = TRUE]
    /\ UNCHANGED <<glued, queue, store, lib, tree, dict, obj, stop, thread, bumped, failed>>

(* waitForPublish()                                                        *)
WaitForPublish(c) ==
    LET m == client[c].m IN
    /\ client[c].at = "wait"
    /\ obj[m].state = "live" /\ obj[m].open
    /\ client' = [client EXCEPT ![c].at = "published"]
    /\ UNCHANGED <<glued, queue, store, lib, tree, kmod, dict, obj, stop, thread, bumped,
                   raced, failed>>

ClientUnpublishes(c) ==
    LET m == client[c].m IN
    /\ client[c].at = "published"
    /\ obj[m].state = "live"
    /\ RequestUnpublish(m)
    /\ client' = [client EXCEPT ![c].at = "has"]
    /\ UNCHANGED <<glued, queue, store, lib, tree, kmod, dict, thread, bumped, raced, failed>>

ClientStep(c) ==
    \/ \E m \in Module : FindObject(c, m) \/ FindModule(c, m)
    \/ RetainModule(c) \/ WaitForPublish(c) \/ ClientUnpublishes(c)

Next ==
    /\ glued.at # "panic"
    /\ Glued \/ (\E m \in Module : ModuleThread(m)) \/ (\E c \in Client : ClientStep(c))

Spec == Init /\ [][Next]_vars

(* Kernel threads are scheduled in turn.                                   *)
Fairness ==
    /\ WF_vars(Next /\ Glued)
    /\ \A m \in Module : WF_vars(Next /\ ModuleThread(m))
    /\ \A c \in Client : WF_vars(Next /\ WaitForPublish(c))

FairSpec == Spec /\ Fairness

-----------------------------------------------------------------------------
(* Libraries and modules are counted right: a library has a reference for  *)
(* its module, or for the load that found no entry point, and one for each *)
(* library that needs it, so that it goes when the last of them goes and   *)
(* not before; a module has one for its thread, for each driver that asked *)
(* for it and for each stop that was refused; and a module that was freed  *)
(* is neither in the tree nor queued.  Two kinds of modules are excepted,  *)
(* which the code itself miscounts: those a driver took when they had no   *)
(* reference or were freed, and, in the tree, those that did not start.    *)
ModulesCounted ==
    /\ \A m \in Module : lib[m] > 0 =>
         lib[m] = (IF kmod[m].state = "freed" THEN 0 ELSE 1)
                  + Cardinality({n \in Module : lib[n] > 0 /\ m \in Needs[n]})
    /\ \A m \in Module : kmod[m].state = "live" => lib[m] > 0 /\ \A n \in Needs[m] : lib[n] > 0
    /\ \A m \in Module \ raced : kmod[m].state = "live" =>
         kmod[m].references =
            (IF thread[m] = "exit" THEN 0 ELSE 1)
            + (IF m \in bumped THEN 1 ELSE 0)
            + Cardinality({c \in Client : client[c].m = m /\ client[c].took})
    /\ \A m \in Module \ (raced \cup failed) :
         kmod[m].state = "freed" => m \notin tree /\ ~Contains(queue, m)

(* A driver that waits for a module to be published gets on, unless the    *)
(* module was not published, and nobody opens _publishLock, or the kernel  *)
(* panicked.                                                               *)
WaitersReturn ==
    \A c \in Client : \A m \in Module :
       (client[c].at = "wait" /\ client[c].m = m)
         ~> (client[c].at # "wait" \/ thread[m] \in {"failed", "exit"}
              \/ glued.at = "panic")

=============================================================================
