------------------------------ MODULE MCKernel ------------------------------
(***************************************************************************)
(* The services that the kernel, its drivers and linkd offer programs:     *)
(* names, files, linking, interrupts, devices, 64 bit division and time.   *)
(* They share no state, so that a behaviour belongs to one of them, which  *)
(* Init chooses, and the states add up instead of multiplying.             *)
(***************************************************************************)
EXTENDS Namespace, FileData, Interrupts, TLC

CONSTANT
    LinkCalls  \* bound: calls of linkd

VARIABLES
    used,                            \* the part of this behaviour
    libs, lib, first, stack, returned, handles, hasError, entered, linkCalls, raced,
    crashed,
    needed, defines, local, rels, words, relNext, container, failed, stored,
    uq, vq, divAt, uspace, skip, divisor, shift, digit, qspace, quotient, remainder,
    rtc, seconds, clockAt, components, temp, time_unixBoot, time_gotBootTime, time_current,
    before, during,
    present, services, slotNext, probes, devices, published, provider, controller, pool,
    live, matched, closed,
    region, held, bar, resources, pciPanic

(* The paths that the threads use.                                         *)
Paths == {<<"a">>, <<"b">>, <<"a", "b">>}

(* A program and two libraries, which need each other in several ways or   *)
(* are not there.                                                          *)
LibFile(n, d, p, s) ==
    [file |-> TRUE, needs |-> n, defines |-> d, plt |-> p, data |-> s, relative |-> p # {}]
NoFile == [file |-> FALSE, needs |-> <<>>, defines |-> {}, plt |-> {}, data |-> {},
           relative |-> FALSE]
Libraries ==
    {("main" :> m) @@ ("a" :> x) @@ ("b" :> y) @@ ("libdl" :> z) :
       m \in {LibFile(<<"a", "b">>, {}, {"f"}, {"g"}), LibFile(<<"libdl">>, {"f"}, {}, {})},
       x \in {LibFile(<<"b">>, {"f"}, {"g"}, {}), LibFile(<<"b">>, {"f"}, {}, {"g"}), NoFile},
       y \in {LibFile(<<>>, {"g"}, {}, {"f"}), LibFile(<<>>, {"g"}, {"f"}, {}),
              LibFile(<<"a">>, {}, {}, {})},
       z \in {LibFile(<<>>, {}, {}, {}), NoFile}}

Programs == INSTANCE Linkd WITH
    Thread <- {"t1", "t2"}, Name <- {"main", "a", "b", "libdl"}, World <- Libraries,
    Symbol <- {"f", "g"}, MaxInstances <- 6, MaxCalls <- LinkCalls, calls <- linkCalls,
    files <- libs

Modules == INSTANCE IOLinker WITH
    Libraries <- 3, Symbol <- {1}, Base <- 10, MaxNeeded <- 2, MaxRels <- 2, Addend <- 1,
    next <- relNext

Quad == INSTANCE Division WITH
    HALF_BITS <- 2, at <- divAt, v <- divisor, d <- shift, j <- digit

(* Two seconds before a year, a month, a leap day or an hour ends.         *)
Eve(y, mo, d, h) ==
    [year |-> y, month |-> mo, day |-> d, hour |-> h, minute |-> 59, second |-> 58]
Evenings == {Eve(2015, 12, 31, 23), Eve(2016, 2, 28, 23), Eve(2016, 2, 29, 23),
             Eve(2014, 1, 31, 23), Eve(2017, 6, 15, 11)}

Time == INSTANCE Clock WITH
    Dates <- Evenings, Frequency <- 2, MaxSeconds <- 4, MaxTicks <- 2, at <- clockAt

Bus == INSTANCE Services WITH
    Slots <- 2, Driver <- {"r1", "r2"}, MaxServices <- 2, MaxProbes <- 2,
    DeviceProperties <- {[vendor |-> 1, class |-> 2], [vendor |-> 1]},
    DriverProperties <- {[vendor |-> 1], [vendor |-> 2], [vendor |-> 1, class |-> 2],
                         [class |-> 1]},
    next <- slotNext, _devices <- devices

(* The regions of the given sizes at every multiple of their size.         *)
Regions(t, decoded, sizes) ==
    UNION {{[type |-> t, size |-> s, base |-> b, decoded |-> decoded] :
              b \in {x \in 0..decoded - s : x % s = 0}} : s \in sizes}
Empty == [type |-> "memory", size |-> 0, base |-> 0, decoded |-> 64]

Bars == INSTANCE PCIResources WITH
    Word <- 64, Bars <- 2,
    Region <- {Empty} \cup Regions("port", 64, {4, 8, 16, 32}) \cup Regions("port", 32, {8, 16})
                \cup Regions("memory", 64, {16, 32}) \cup Regions("prefetchable", 64, {32})
                \cup Regions("memory20", 64, {32}) \cup Regions("memory64", 64, {32}),
    panicked <- pciPanic

ASSUME KernelAssumption ==
    /\ NamespaceAssumption
    /\ FileDataAssumption
    /\ Programs!LinkdAssumption
    /\ Modules!IOLinkerAssumption
    /\ InterruptsAssumption
    /\ Quad!DivisionAssumption
    /\ Bars!PCIAssumption

linkVars == <<libs, lib, first, stack, returned, handles, hasError, entered, linkCalls,
              raced, crashed>>
relVars == <<needed, defines, local, rels, words, relNext, container, failed, stored>>
quadVars == <<uq, vq, divAt, uspace, skip, divisor, shift, digit, qspace, quotient, remainder>>
timeVars == <<rtc, seconds, clockAt, components, temp, time_unixBoot, time_gotBootTime,
              time_current, before, during>>
busVars == <<present, services, slotNext, probes, devices, published, provider, controller,
             pool, live, matched, closed>>
barVars == <<region, held, bar, resources, pciPanic>>
kernelVars == <<used, namesVars, vars, linkVars, relVars, irqVars, quadVars, timeVars,
                busVars, barVars>>

(* A part that is not used has one initial state.                          *)
KernelInit ==
    /\ used \in {"names", "contents", "programs", "modules", "irqs", "quad", "time", "bus",
                 "bars"}
    /\ \/ used = "names" /\ of \in {("t1" :> "p1") @@ ("t2" :> p) : p \in {"p1", "p2"}}
       \/ used # "names" /\ of = ("t1" :> "p1") @@ ("t2" :> "p2")
    /\ used = "programs" \/ (used # "programs" /\ libs = CHOOSE w \in Libraries : TRUE)
    /\ \/ used = "modules"
       \/ /\ used # "modules"
          /\ needed = <<<<>>, <<>>, <<>>>>
          /\ defines = [l \in 0..3 |-> {}]
          /\ rels = <<[type |-> "RELATIVE", symbol |-> 1]>>
    /\ used = "quad" \/ (used # "quad" /\ uq = 0 /\ vq = 0)
    /\ used = "time" \/ (used # "time" /\ rtc = Eve(2017, 6, 15, 11))
    /\ used = "bus" \/ (used # "bus" /\ present = <<NULL, NULL>>)
    /\ used = "bars" \/ (used # "bars" /\ region = [i \in 0..1 |-> Empty])
    /\ NamesInit
    /\ Init
    /\ Programs!Init
    /\ stack["t1"] # <<>>  \* the threads are alike
    /\ Modules!Init
    /\ IrqInit
    /\ Quad!Init
    /\ Time!Init
    /\ Bus!Init
    /\ Bars!Init

UseNames ==
    /\ used = "names"
    /\ NamesNext
    /\ UNCHANGED <<used, vars, linkVars, relVars, irqVars, quadVars, timeVars, busVars,
                   barVars>>

UseContents ==
    /\ used = "contents"
    /\ Next
    /\ UNCHANGED <<used, namesVars, linkVars, relVars, irqVars, quadVars, timeVars, busVars,
                   barVars>>

UsePrograms ==
    /\ used = "programs"
    /\ Programs!Next
    /\ UNCHANGED <<used, namesVars, vars, relVars, irqVars, quadVars, timeVars, busVars,
                   barVars>>

UseModules ==
    /\ used = "modules"
    /\ Modules!Next
    /\ UNCHANGED <<used, namesVars, vars, linkVars, irqVars, quadVars, timeVars, busVars,
                   barVars>>

UseIrqs ==
    /\ used = "irqs"
    /\ IrqNext
    /\ UNCHANGED <<used, namesVars, vars, linkVars, relVars, quadVars, timeVars, busVars,
                   barVars>>

UseQuad ==
    /\ used = "quad"
    /\ Quad!Next
    /\ UNCHANGED <<used, namesVars, vars, linkVars, relVars, irqVars, timeVars, busVars,
                   barVars>>

UseTime ==
    /\ used = "time"
    /\ Time!Next
    /\ UNCHANGED <<used, namesVars, vars, linkVars, relVars, irqVars, quadVars, busVars,
                   barVars>>

UseBus ==
    /\ used = "bus"
    /\ Bus!Next
    /\ UNCHANGED <<used, namesVars, vars, linkVars, relVars, irqVars, quadVars, timeVars,
                   barVars>>

UseBars ==
    /\ used = "bars"
    /\ Bars!Next
    /\ UNCHANGED <<used, namesVars, vars, linkVars, relVars, irqVars, quadVars, timeVars,
                   busVars>>

KernelNext ==
    \/ UseNames \/ UseContents \/ UsePrograms \/ UseModules \/ UseIrqs \/ UseQuad
    \/ UseTime \/ UseBus \/ UseBars

KernelSpec == KernelInit /\ [][KernelNext]_kernelVars

-----------------------------------------------------------------------------
(* The properties of a part are about the behaviours in which it is used.  *)

(* Programs and modules are linked to libraries that are loaded, each      *)
(* symbol to the library that the search promises, and each word that      *)
(* refers to it holds its address.                                         *)
LinkedRight ==
    /\ used = "programs" => Programs!LinkedToLoaded /\ Programs!ListedOnce
    /\ used = "modules" => Modules!SymbolIsNearest /\ Modules!RelocationRight

(* The quotient and remainder of 64 bit numbers are right.                 *)
DivisionExact == used = "quad" => Quad!DivisionExact

(* The boot time is one that the CMOS clock showed.                        *)
BootTimeWasShown == used = "time" => Time!BootTimeWasShown

(* A device of the bus has the best driver there is, and the ports and     *)
(* memory that its registers describe.                                     *)
DevicesDriven ==
    /\ used = "bus" => Bus!DevicesHaveBestDriver
    /\ used = "bars" => Bars!ResourcesFound
=============================================================================
