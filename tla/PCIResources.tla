---------------------------- MODULE PCIResources ----------------------------
(***************************************************************************)
(* The ports and memory of a PCI device (libPCI/PCIDevice.cpp,             *)
(* PCIDeviceResource.cpp).  A base address register keeps the bits of an   *)
(* address above the size of the region that the device decodes; the scan  *)
(* writes ones to it, reads back which of them stayed, and restores it.    *)
(***************************************************************************)
EXTENDS Integers, Sequences

CONSTANTS
    Word,     \* range of a register, 2^32
    Bars,     \* barCount of the device
    Region    \* what a register may decode: [type, size, base, decoded]

(* The memory and port regions that a register can describe: a power of    *)
(* two long and at a multiple of their size.  A device may leave the upper *)
(* bits of a port register zero: decoded is what it keeps.                 *)
PCIAssumption ==
    \A r \in Region :
        r.size # 0 => /\ r.base % r.size = 0 /\ r.decoded % r.size = 0
                      /\ r.base + r.size <= r.decoded
                      /\ r.size >= IF r.type = "port" THEN 4 ELSE 16

VARIABLES
    region,    \* per register: what the device decodes
    held,      \* per register: the address it holds
    bar,       \* register that scanForResources() comes to next
    resources, \* PCIDevice::_resources
    panicked

vars == <<region, held, bar, resources, panicked>>

Init ==
    /\ region \in [0..Bars - 1 -> Region]
    /\ held = [i \in 0..Bars - 1 |-> region[i].base]
    /\ bar = 0
    /\ resources = <<>>
    /\ panicked = FALSE

(* The low bits of a register say what it is for.                          *)
TypeBits(r) ==
    CASE r.type = "port" -> 1
      [] r.type = "memory" -> 0
      [] r.type = "prefetchable" -> 8
      [] r.type = "memory20" -> 2
      [] r.type = "memory64" -> 4

(* PCIDevice::readConfig(): a register that the device lacks reads zero.   *)
ReadConfig(r, value) == IF r.size = 0 THEN 0 ELSE value + TypeBits(r)

(* PCIDevice::writeConfig(): the address bits that the device decodes.     *)
WriteConfig(r, value) ==
    IF r.size = 0 THEN 0 ELSE ((value % r.decoded) \div r.size) * r.size

(* x & ~(n - 1), where n is a power of two.                                *)
Aligned(x, n) == (x \div n) * n

(* A mutant: the low bits are not filled. *)
SizeNotAligned(value) == (Word - value) % Word

(* (~value | 0xF) + 1 *)
SizeOf(value) == (Aligned(Word - 1 - value, 16) + 16) % Word

-----------------------------------------------------------------------------
Scanning == bar < Bars /\ ~panicked

IsPort(config) == config % 2 = 1

MemoryType(config) == (config \div 2) % 4

LowBits(config) == IF IsPort(config) THEN 4 ELSE 16

WriteBack(r, config) == WriteConfig(r, config)

(* PCIDeviceResource::initWithData(): nothing is left of a register in     *)
(* which no address bit stays.                                             *)
InitWithData ==
    LET r == region[bar]
        config == ReadConfig(r, held[bar])
        ones == WriteConfig(r, Word - LowBits(config))
        value == Aligned(ReadConfig(r, ones), LowBits(config))
    IN
    /\ Scanning
    /\ IsPort(config) \/ MemoryType(config) = 0
    /\ held' = [held EXCEPT ![bar] = WriteBack(r, config)]
    /\ resources' = IF value = 0 THEN resources
                    ELSE Append(resources, [bar |-> bar, address |-> Aligned(config, 16),
                                            size |-> SizeOf(value)])
    /\ bar' = bar + 1
    /\ UNCHANGED <<region, panicked>>

(* ... of memory with 20 or 64 bit addresses.                              *)
Unsupported ==
    /\ Scanning
    /\ LET config == ReadConfig(region[bar], held[bar])
       IN  ~IsPort(config) /\ MemoryType(config) \in {1, 2}
    /\ panicked' = TRUE
    /\ UNCHANGED <<region, held, bar, resources>>

Next == InitWithData \/ Unsupported

Spec == Init /\ [][Next]_vars

-----------------------------------------------------------------------------
(* The scan leaves every register as the firmware set it up, and finds     *)
(* every region of the device once, in order: the resource covers the      *)
(* region, and is the region itself unless that is less than 16 ports long *)
(* or the register leaves the upper bits of its address zero.              *)
ResourcesFound ==
    /\ held = [i \in 0..Bars - 1 |-> region[i].base]
    /\ \A i \in 0..bar - 1 :
         region[i].size # 0 => \E k \in DOMAIN resources : resources[k].bar = i
    /\ \A k \in DOMAIN resources :
         LET r == region[resources[k].bar]
             s == resources[k]
         IN  /\ k > 1 => resources[k - 1].bar < s.bar
             /\ s.address <= r.base /\ r.base + r.size <= s.address + s.size
             /\ r.size >= 16 /\ r.decoded = Word => s.address = r.base /\ s.size = r.size
=============================================================================
