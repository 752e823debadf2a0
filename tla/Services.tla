------------------------------ MODULE Services ------------------------------
(***************************************************************************)
(* How a device finds its driver: the services that drivers register in    *)
(* the database (libio/IODatabase.cpp, IOService.cpp), the devices that    *)
(* the PCI provider finds when it probes the bus (libPCI/PCIProvider.cpp), *)
(* the controller that a device asks the database for when it is started   *)
(* (PCIDevice.cpp) and the tree of providers and services that results     *)
(* (IOProvider.cpp).                                                       *)
(*                                                                         *)
(* Drivers register from threads of their own at any time; the bus is      *)
(* probed and devices are started on the run loop of the PCI module.  Both *)
(* hold the database's lock while they use it, so that a registration      *)
(* falls between two devices of a probe.                                   *)
(***************************************************************************)
EXTENDS Integers, Sequences, FiniteSets, FiniteSetsExt

CONSTANTS
    Slots,       \* number of slots on the bus
    DeviceProperties, \* what a device may say of itself: functions of properties
    Driver,      \* symbols of the drivers
    DriverProperties, \* what a driver may ask for: functions of properties
    MaxServices, \* bound: services registered
    MaxProbes,   \* bound: probes of the bus
    NULL

Slot == 1..Slots

VARIABLES
    present,   \* per slot: the properties of the device there, or NULL
    services,  \* the IOArray of the family in IODatabase::_services
    next,      \* slot that the probe looks at next, 0 outside of a probe
    probes,    \* probes begun
    _devices,  \* slots in PCIProvider::_devices
    published, \* slots whose device is in the provider's _services
    provider,  \* slots whose device has a _provider
    controller,\* per slot: driver of the device's controller, or NULL
    pool,      \* slots whose controller waits in the autorelease pool
    live,      \* slots whose controller was not freed
    matched,   \* history: per slot, the services there were to choose from
    closed     \* how the module was unpublished

vars == <<present, services, next, probes, _devices, published, provider,
          controller, pool, live, matched, closed>>

Init ==
    /\ present \in [Slot -> DeviceProperties \cup {NULL}]
    /\ services = <<>>
    /\ next = 0
    /\ probes = 0
    /\ _devices = {} /\ published = {} /\ provider = {}
    /\ controller = [s \in Slot |-> NULL]
    /\ pool = {} /\ live = {}
    /\ matched = [s \in Slot |-> 0]
    /\ closed = "no"

-----------------------------------------------------------------------------
(* IODatabase::registerService(): appended to the services of its family,  *)
(* the same driver any number of times; unregisterService() does nothing.  *)
RegisterService(d, properties) ==
    /\ Len(services) < MaxServices
    /\ services' = Append(services, [symbol |-> d, properties |-> properties])
    /\ UNCHANGED <<present, next, probes, _devices, published, provider, controller,
                   pool, live, matched, closed>>

(* A property that both have and that differs.                             *)
Conflict(properties, other) ==
    \E k \in DOMAIN properties \cap DOMAIN other : properties[k] # other[k]

(* A mutant: properties that differ are not looked at. *)
ScoreIgnoringConflicts(entry, attributes) == 1 + Cardinality(DOMAIN entry.properties)

(* IODatabaseEntry::scoreForAttributes(): a property that the device does  *)
(* not have counts like one that it shares.                                *)
ScoreForAttributes(entry, attributes) ==
    IF Conflict(entry.properties, attributes) THEN 0
    ELSE 1 + Cardinality(DOMAIN entry.properties)

(* IODatabase::serviceMatchingAttributes()                                 *)
ServiceMatchingAttributes(attributes) ==
    LET best[i \in 0..Len(services)] ==
          IF i = 0 THEN [symbol |-> NULL, score |-> 0]
          ELSE LET score == ScoreForAttributes(services[i], attributes)
               IN  IF score > best[i - 1].score
                   THEN [symbol |-> services[i].symbol, score |-> score]
                   ELSE best[i - 1]
    IN  best[Len(services)].symbol

-----------------------------------------------------------------------------
(* PCIProvider::requestProbe(), on the run loop of the module.             *)
RequestProbe ==
    /\ next = 0 /\ closed = "no"
    /\ probes < MaxProbes
    /\ next' = 1
    /\ probes' = probes + 1
    /\ UNCHANGED <<present, services, _devices, published, provider, controller, pool,
                   live, matched, closed>>

Advance == next' = IF next = Slots THEN 0 ELSE next + 1

(* PCIProvider::checkDevice() of an empty slot, or of a known device.      *)
CheckNothing ==
    /\ next # 0
    /\ present[next] = NULL \/ next \in _devices
    /\ Advance
    /\ UNCHANGED <<present, services, probes, _devices, published, provider, controller,
                   pool, live, matched, closed>>

(* ... of a new device whose start() fails: no driver wants it, or the     *)
(* controller does not start.  The provider forgets the device and the     *)
(* next probe meets it again.                                              *)
CheckFails ==
    /\ next # 0
    /\ present[next] # NULL /\ next \notin _devices
    /\ provider' = provider \ {next}
    /\ Advance
    /\ UNCHANGED <<present, services, probes, _devices, published, controller, pool,
                   live, matched, closed>>

(* IOProvider::publishService() of a device that starts: it has a          *)
(* provider and is one of its services.                                    *)
PublishedDevice(s) ==
    /\ provider' = provider \cup {s}
    /\ published' = published \cup {s}
    /\ _devices' = _devices \cup {s}

(* ... of a new device that gets a controller.  The controller comes       *)
(* autoreleased from the database.                                         *)
CheckPublishes ==
    /\ next # 0
    /\ present[next] # NULL /\ next \notin _devices
    /\ LET c == ServiceMatchingAttributes(present[next])
       IN  /\ c # NULL
           /\ controller' = [controller EXCEPT ![next] = c]
           /\ matched' = [matched EXCEPT ![next] = Len(services)]
    /\ PublishedDevice(next)
    /\ pool' = pool \cup {next}
    /\ live' = live \cup {next}
    /\ Advance
    /\ UNCHANGED <<present, services, probes, closed>>

(* The autorelease pool around the probe.  The IOSet of a device's         *)
(* services holds no reference to a controller, so that it is freed.       *)
PoolDrains ==
    /\ next = 0 /\ pool # {}
    /\ pool' = {}
    /\ live' = live \ pool
    /\ UNCHANGED <<present, services, next, probes, _devices, published, provider,
                   controller, matched, closed>>

(* PCIProvider::unpublish() and free(): PCIDevice::stop() unpublishes the  *)
(* controller and IOProvider::unpublishAllServices() the devices.          *)
Unpublish ==
    /\ next = 0 /\ pool = {} /\ closed = "no"
    /\ published \subseteq live
    /\ closed' = "closed"
    /\ _devices' = {} /\ published' = {} /\ provider' = {}
    /\ UNCHANGED <<present, services, next, probes, controller, pool, live, matched>>

(* ... of a module one of whose controllers was freed: stop() is called on *)
(* what is left of it.                                                     *)
UnpublishFaults ==
    /\ next = 0 /\ pool = {} /\ closed = "no"
    /\ ~(published \subseteq live)
    /\ closed' = "fault"
    /\ UNCHANGED <<present, services, next, probes, _devices, published, provider,
                   controller, pool, live, matched>>

Next ==
    \/ \E d \in Driver, p \in DriverProperties : RegisterService(d, p)
    \/ RequestProbe
    \/ CheckNothing
    \/ CheckFails
    \/ CheckPublishes
    \/ PoolDrains
    \/ Unpublish
    \/ UnpublishFaults

Spec == Init /\ [][Next]_vars

-----------------------------------------------------------------------------
Fits(entry, s) == ~Conflict(entry.properties, present[s])

Asks(entry) == Cardinality(DOMAIN entry.properties)

(* A published device has the controller that fits it best: of the         *)
(* services registered when it was probed one that contradicts no property *)
(* of the device, asks for most, and was registered first; and it keeps    *)
(* this controller whatever is registered and probed later.                *)
DevicesHaveBestDriver ==
    \A s \in published :
      \E i \in 1..matched[s] :
         /\ services[i].symbol = controller[s]
         /\ Fits(services[i], s)
         /\ \A j \in 1..matched[s] :
              Fits(services[j], s) =>
                 \/ Asks(services[j]) < Asks(services[i])
                 \/ Asks(services[j]) = Asks(services[i]) /\ i <= j
=============================================================================
