------------------------------- MODULE Linkd -------------------------------
(***************************************************************************)
(* The dynamic linker of programs, bin/linkd: library.c, reloc.c, dlfcn.c, *)
(* patch.c and main.c.                                                     *)
(*                                                                         *)
(* A library is loaded depth first: library_withName() maps its file,      *)
(* loads what it needs, relocates it, and only then enters it into the     *)
(* list that library_withName() searches.  Threads of the program may call *)
(* dlopen() at the same time: nothing takes __library_lock.                *)
(***************************************************************************)
EXTENDS Integers, Sequences, FiniteSets, SequencesExt

CONSTANTS
    Thread,
    Name,           \* of libraries
    World,          \* the files there may be: sets of functions on Name
    Symbol,
    MaxInstances,   \* bound: libraries mapped
    MaxCalls        \* bound: calls of the program

LinkdAssumption ==
    /\ MaxInstances \in Nat /\ MaxCalls \in Nat
    /\ "main" \in Name

Instance == 1..MaxInstances
None == 0
Main == 1

VARIABLES
    files,      \* per name: needs, defines, plt, data, and relative when it
                \*   has relocations without a symbol; or no file
    lib,        \* per instance: library_t, or freed
    first,      \* __library_first and its next links
    stack,      \* per thread: the calls of library_withName(), innermost last
    returned,   \* per thread: what the innermost call has just returned
    handles,    \* what dlopen() has returned to the program
    hasError,   \* __dlerror_hasError
    entered,    \* the program runs
    calls,
    raced,      \* two threads have been loading at the same time
    crashed     \* a NULL pointer was followed, or the process has aborted

vars == <<files, lib, first, stack, returned, handles, hasError, entered,
          calls, raced, crashed>>

Freed == [name |-> "", deps |-> <<>>, references |-> 0, bound |-> <<>>, up |-> FALSE]

(* library_digestDynamic(): no dependency is resolved, no symbol bound.    *)
DigestDynamic(name, w) ==
    [deps |-> [d \in DOMAIN w[name].needs |-> None],
     bound |-> [s \in w[name].plt \cup w[name].data |-> None]]

(* library_map_library(), and map_program() for the program.               *)
Map(name, w) ==
    LET dynamic == DigestDynamic(name, w) IN
    [name |-> name, deps |-> dynamic.deps, references |-> 1,
     bound |-> dynamic.bound, up |-> FALSE]

Frame(i, flags) == [lib |-> i, flags |-> flags, dep |-> 1]
Pending == -1

Init ==
    /\ files \in World
    /\ lib = [i \in Instance |-> IF i = Main THEN Map("main", files) ELSE Freed]
    /\ first = <<>>
    /\ \E t \in Thread : stack = [u \in Thread |-> IF u = t THEN <<Frame(Main, {"NOW"})>>
                                                            ELSE <<>>]
    /\ returned = [t \in Thread |-> Pending]
    /\ handles = {}
    /\ hasError = FALSE
    /\ entered = FALSE
    /\ calls = 0
    /\ raced = FALSE
    /\ crashed = FALSE

-----------------------------------------------------------------------------
Needs(i) == files[lib[i].name].needs
Defines(i) == files[lib[i].name].defines

(* library_lookupSymbol(): the main program, then the dependencies in      *)
(* order, then the library.  Pending if a dependency is NULL before.       *)
Order(i) == <<Main>> \o lib[i].deps \o <<i>>

LookupSymbol(i, s) ==
    LET hits == {k \in DOMAIN Order(i) :
                   Order(i)[k] = None \/ s \in Defines(Order(i)[k])}
    IN  IF hits = {} THEN None
        ELSE LET k == CHOOSE k \in hits : \A l \in hits : k <= l
             IN  IF Order(i)[k] = None THEN Pending ELSE Order(i)[k]

(* library_relocatePLT() or library_relocatePLTLazy(), and                 *)
(* library_relocateNonPLT(): the symbols that are looked up.               *)
ToBind(i, flags) ==
    files[lib[i].name].data \cup
    (IF "NOW" \in flags THEN files[lib[i].name].plt ELSE {})

(* A mutant: a symbol that is not found is left alone. *)
MissingIgnored(i, flags) == FALSE

Missing(i, flags) == \E s \in ToBind(i, flags) : LookupSymbol(i, s) = None
Faults(i, flags) == \E s \in ToBind(i, flags) : LookupSymbol(i, s) = Pending

Bound(i, flags) ==
    [s \in DOMAIN lib[i].bound |->
       IF s \in ToBind(i, flags) THEN LookupSymbol(i, s) ELSE lib[i].bound[s]]

(* library_fileForName()                                                   *)
FileForName(name) == files[name].file

(* library_withName(): the list is searched, then the file is mapped.      *)
Listed(name) ==
    LET hits == {k \in DOMAIN first : lib[first[k]].name = name}
    IN  IF hits = {} THEN None ELSE first[CHOOSE k \in hits : \A l \in hits : k <= l]

Loading(t, name) == \E k \in DOMAIN stack[t] : lib[stack[t][k].lib].name = name

(* library_reportError()                                                   *)
ReportError == hasError' = TRUE

Crash ==
    /\ crashed' = TRUE
    /\ UNCHANGED <<files, lib, first, stack, returned, handles, hasError, entered,
                   calls, raced>>

(* What calls library_withName() gets and does first: the step ends where  *)
(* the innermost call has returned, or begins to load.  A name that is     *)
(* being loaded by the same thread is loaded again, without end.           *)
WithName(t, name, flags) ==
    \/ /\ Listed(name) # None
       /\ lib' = [lib EXCEPT ![Listed(name)].references = @ + 1]
       /\ returned' = [returned EXCEPT ![t] = Listed(name)]
       /\ UNCHANGED <<stack, hasError, raced, crashed>>
    \/ /\ Listed(name) = None
       /\ FileForName(name)
       /\ ~Loading(t, name)
       /\ \E i \in Instance : lib[i] = Freed
       /\ LET i == CHOOSE i \in Instance :
                     lib[i] = Freed /\ \A j \in Instance : lib[j] = Freed => i <= j
          IN
          /\ lib' = [lib EXCEPT ![i] = Map(name, files)]
          /\ stack' = [stack EXCEPT ![t] = Append(@, Frame(i, flags))]
       /\ raced' = (raced \/ \E u \in Thread \ {t} : stack[u] # <<>>)
       /\ UNCHANGED <<returned, hasError, crashed>>
    \/ /\ Listed(name) = None
       /\ FileForName(name)
       /\ Loading(t, name)
       /\ crashed' = TRUE
       /\ UNCHANGED <<lib, stack, returned, hasError, raced>>
    \/ /\ Listed(name) = None
       /\ ~FileForName(name)
       /\ ReportError
       /\ returned' = [returned EXCEPT ![t] = None]
       /\ UNCHANGED <<lib, stack, raced, crashed>>

-----------------------------------------------------------------------------
(* The loop of library_resolveDependencies() in the innermost call.        *)
Top(t) == stack[t][Len(stack[t])]
Resolving(t) == stack[t] # <<>> /\ Top(t).dep <= Len(Needs(Top(t).lib))

ResolveDependency(t) ==
    /\ Resolving(t)
    /\ returned[t] = Pending
    /\ LET name == Needs(Top(t).lib)[Top(t).dep] IN
       WithName(t, name, {"GLOBAL"} \cup IF name = "libdl" THEN {"NOW"} ELSE {})
    /\ UNCHANGED <<files, first, handles, entered, calls>>

Resolved(t) ==
    /\ Resolving(t)
    /\ returned[t] \notin {Pending, None}
    /\ lib' = [lib EXCEPT ![Top(t).lib].deps[Top(t).dep] = returned[t],
                          ![returned[t]].references = @ + 1]
    /\ stack' = [stack EXCEPT ![t][Len(stack[t])].dep = @ + 1]
    /\ returned' = [returned EXCEPT ![t] = Pending]
    /\ UNCHANGED <<files, first, handles, hasError, entered, calls, raced, crashed>>

(* A missing dependency ends the load of what needs it; _start() does not  *)
(* look at the result, and the check of libdl.so's is missing.             *)
Unresolved(t) ==
    /\ Resolving(t)
    /\ returned[t] = None
    /\ LET i == Top(t).lib IN
       IF Needs(i)[Top(t).dep] = "libdl" THEN Crash
       ELSE IF i = Main
       THEN /\ stack' = [stack EXCEPT ![t][Len(stack[t])].dep = Len(Needs(i)) + 1]
            /\ returned' = [returned EXCEPT ![t] = Pending]
            /\ ReportError
            /\ UNCHANGED <<files, lib, first, handles, entered, calls, raced, crashed>>
       ELSE /\ stack' = [stack EXCEPT ![t] = Front(@)]
            /\ lib' = [lib EXCEPT ![i] = Freed]
            /\ ReportError
            /\ UNCHANGED <<files, first, returned, handles, entered, calls, raced, crashed>>

(* The rest of library_withName(), and of _start(), where the first symbol *)
(* that is missing in a table, whose order is not modelled, ends its loop. *)
Complete(t) == stack[t] # <<>> /\ ~Resolving(t)

(* R_386_RELATIVE reads the base of a container that may not be set: the   *)
(* process may fault.  The words it changes refer to no symbol.            *)
LoadFaults(t) ==
    /\ Complete(t)
    /\ Faults(Top(t).lib, Top(t).flags) \/ files[lib[Top(t).lib].name].relative
    /\ Crash

LoadFails(t) ==
    LET i == Top(t).lib IN
    /\ Complete(t)
    /\ i # Main
    /\ ~Faults(i, Top(t).flags)
    /\ Missing(i, Top(t).flags)
    /\ stack' = [stack EXCEPT ![t] = Front(@)]
    /\ lib' = [lib EXCEPT ![i] = Freed]
    /\ returned' = [returned EXCEPT ![t] = None]
    /\ ReportError
    /\ UNCHANGED <<files, first, handles, entered, calls, raced, crashed>>

Enlist(i, flags) == IF "GLOBAL" \in flags THEN <<i>> \o first ELSE first

Loaded(t) ==
    LET i == Top(t).lib IN
    /\ Complete(t)
    /\ i # Main
    /\ ~Faults(i, Top(t).flags)
    /\ ~Missing(i, Top(t).flags)
    /\ lib' = [lib EXCEPT ![i].bound = Bound(i, Top(t).flags), ![i].up = TRUE]
    /\ first' = Enlist(i, Top(t).flags)
    /\ stack' = [stack EXCEPT ![t] = Front(@)]
    /\ returned' = [returned EXCEPT ![t] = i]
    /\ UNCHANGED <<files, handles, hasError, entered, calls, raced, crashed>>

Enter(t) ==
    /\ Complete(t)
    /\ Top(t).lib = Main
    /\ ~Faults(Main, Top(t).flags)
    /\ \E done \in IF Missing(Main, Top(t).flags) THEN SUBSET ToBind(Main, Top(t).flags)
                  ELSE {ToBind(Main, Top(t).flags)} :
         lib' = [lib EXCEPT ![Main].up = TRUE,
                            ![Main].bound = [s \in DOMAIN @ |-> IF s \in done
                                               THEN Bound(Main, Top(t).flags)[s] ELSE @[s]]]
    /\ entered' = TRUE
    /\ stack' = [stack EXCEPT ![t] = <<>>]
    /\ hasError' = (hasError \/ Missing(Main, Top(t).flags))
    /\ UNCHANGED <<files, first, returned, handles, calls, raced, crashed>>

-----------------------------------------------------------------------------
(* The program: dlopen(), dlsym(), dlerror(), and a call through the PLT,  *)
(* which library_bind() binds the first time; the program's own table has  *)
(* no entry for it.  dlclose() does nothing.                               *)
Calls(t) ==
    /\ entered
    /\ stack[t] = <<>>
    /\ returned[t] = Pending
    /\ calls < MaxCalls
    /\ calls' = calls + 1

Dlopen(t) ==
    /\ Calls(t)
    /\ \E name \in Name \ {"main"}, flags \in SUBSET {"NOW", "GLOBAL"} :
         WithName(t, name, flags)
    /\ UNCHANGED <<files, first, handles, entered>>

Opened(t) ==
    /\ entered
    /\ stack[t] = <<>>
    /\ returned[t] # Pending
    /\ handles' = handles \cup ({returned[t]} \ {None})
    /\ returned' = [returned EXCEPT ![t] = Pending]
    /\ UNCHANGED <<files, lib, first, stack, hasError, entered, calls, raced, crashed>>

ResolveSymbolWithName(h, s) ==
    IF h # None THEN s \in Defines(h)
    ELSE \E k \in DOMAIN first : s \in Defines(first[k])

Dlsym(t) ==
    /\ Calls(t)
    /\ \E h \in handles \cup {None}, s \in Symbol :
         /\ ~ResolveSymbolWithName(h, s)
         /\ ReportError
    /\ UNCHANGED <<files, lib, first, stack, returned, handles, entered, raced, crashed>>

Dlerror(t) ==
    /\ Calls(t)
    /\ hasError
    /\ hasError' = FALSE
    /\ UNCHANGED <<files, lib, first, stack, returned, handles, entered, raced, crashed>>

Bind(t) ==
    /\ Calls(t)
    /\ \E i \in Instance :
         /\ lib[i].up
         /\ \E s \in DOMAIN lib[i].bound :
              /\ lib[i].bound[s] = None
              /\ IF i = Main \/ LookupSymbol(i, s) \in {None, Pending}
                 THEN crashed' = TRUE /\ UNCHANGED lib
                 ELSE /\ lib' = [lib EXCEPT ![i].bound[s] = LookupSymbol(i, s)]
                      /\ UNCHANGED crashed
    /\ UNCHANGED <<files, first, stack, returned, handles, hasError, entered, raced>>

Next ==
    /\ ~crashed
    /\ \E t \in Thread :
         \/ ResolveDependency(t) \/ Resolved(t) \/ Unresolved(t)
         \/ LoadFaults(t) \/ LoadFails(t) \/ Loaded(t) \/ Enter(t)
         \/ Dlopen(t) \/ Opened(t) \/ Dlsym(t) \/ Dlerror(t) \/ Bind(t)

Spec == Init /\ [][Next]_vars

-----------------------------------------------------------------------------
Deps(i) == Range(lib[i].deps)
Mapped == {i \in Instance : lib[i] # Freed}
References(i) == Cardinality({<<j, d>> \in Mapped \X (1..MaxInstances) :
                                d \in DOMAIN lib[j].deps /\ lib[j].deps[d] = i})

(* What library_withName() finds, what the program holds, what a library   *)
(* needs and what its symbols are bound to has been loaded to the end and  *)
(* is not freed, though loads fail at any depth and threads race; and a    *)
(* listed library has its dependencies and data symbols.                   *)
LinkedToLoaded ==
    /\ \A i \in Range(first) \cup handles : lib[i].up
    /\ \A i \in Mapped :
         /\ Deps(i) \subseteq Mapped \cup {None}
         /\ \A j \in Deps(i) \ {None} : lib[j].up
         /\ \A s \in DOMAIN lib[i].bound : lib[i].bound[s] \in Mapped \cup {None}
         /\ lib[i].up /\ i # Main =>
              /\ None \notin Deps(i)
              /\ \A s \in files[lib[i].name].data : lib[i].bound[s] # None

(* A name is listed once unless two threads have loaded at the same time;  *)
(* no library has fewer references than libraries that need it, twice.     *)
ListedOnce ==
    /\ raced \/ \A j, k \in DOMAIN first : lib[first[j]].name = lib[first[k]].name => j = k
    /\ \A i \in Mapped : lib[i].references >= 2 * References(i)

=============================================================================
