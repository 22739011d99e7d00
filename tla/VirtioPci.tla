----------------------------- MODULE VirtioPci -----------------------------
(***************************************************************************)
(* How the driver finds the device's registers: CPciResources::Init notes    *)
(* the BARs, vio_modern_initialize walks the list of PCI capabilities and    *)
(* maps the structures they describe, vio_modern_setup_vq finds the address   *)
(* that kicks a queue, and virtio_cread_many reads configuration fields the   *)
(* device may change meanwhile.  DeviceLife takes all this as a step that    *)
(* succeeds or fails.  A read of configuration space may fail, which the     *)
(* callers do not always notice.                                           *)
(***************************************************************************)
EXTENDS Integers, Sequences, FiniteSetsExt

CONSTANTS
    Devices,        (* the devices, see DevicesAssumption                   *)
    Slots,          (* offsets of capabilities in configuration space        *)
    Bars,           (* 0 .. PCI_TYPE0_ADDRESSES - 1                         *)
    Iterations,     (* 48, of find_next_pci_vendor_capability: room for that *)
                    (* many capabilities is between 0x40 and 0x100           *)
    Word,           (* 2^32                                                 *)
    Garbage,        (* what a local variable may hold when a read fails      *)
    MaxStarts,      (* bound on initialisations of one device object         *)
    MaxObjects,     (* bound on device objects                              *)
    MaxChanges      (* bound on changes of the configuration                 *)

PageSize == 4096
CommonSize == 56
Queues == 1 .. 2
COMMON == 1
NOTIFY == 2
ISR == 3
DEVICE == 4
PCI == 5            (* VIRTIO_PCI_CAP_PCI_CFG, the size of capabilities      *)
VENDOR == 9
NoCapability == 255
NoBar == -1
Null == [bar |-> NoBar, offset |-> 0, len |-> 0]

Contents == [type : Nat, bar : Nat, offset : 0 .. Word - 1, length : 0 .. Word - 1]

Pointers == 0 .. 63 \cup UNION {t .. t + 3 : t \in Slots}
Kinds == {"port", "mappedport", "memory", "interrupt"}

ASSUME SlotsAssumption == \A s \in Slots : s \in 64 .. 255 /\ s % 4 = 0
ASSUME BarsAssumption == 0 \in Bars /\ Bars \subseteq Nat
ASSUME IterationsAssumption ==
    Iterations \in Nat \ {0} /\ Cardinality(Slots) <= Iterations
ASSUME WordAssumption == Word \in Nat \ {0}
ASSUME GarbageAssumption == \A g \in Garbage : g \in Contents
ASSUME BoundsAssumption == MaxStarts \in Nat /\ MaxObjects \in Nat /\ MaxChanges \in Nat
ASSUME DevicesAssumption ==
    \A d \in Devices :
        /\ d.caps \in [Slots -> [id : 0 .. 255, what : Contents, next : Pointers]]
        /\ d.resources \in Seq([kind : Kinds, bar : Bars \cup {NoBar}, len : Nat])
        /\ d.first \in Pointers
        /\ d.multiplier \in 0 .. Word - 1
        /\ d.notifyOff \in [Queues -> Nat]

VARIABLES
    device,         (* the device that is there                             *)
    pc,             (* the next step of initialisation                       *)
    objects, starts,
    bars,           (* m_Bars: size, kind of resource, whether m_BaseVA is set *)
    mappings,       (* per BAR: calls of DxgkCbMapMemory less DxgkCbUnmapMemory *)
    offset,         (* offset of find_next and of find_pci_vendor_capabilities *)
    iterations,     (* what is left of them                                 *)
    capabilities,   (* Offsets: where a structure's capability is, or 0      *)
    at,             (* vdev->common, isr, notify_base, config with its length *)
    notifyMapCap,   (* vdev->notify_map_cap                                 *)
    priv,           (* vq->priv: what is written to kick a queue             *)
    misread,        (* history: a read of configuration space failed         *)
    version,        (* number of changes of the configuration                *)
    cread           (* virtio_cread_many                                    *)

barVars == <<bars, mappings>>
walkVars == <<offset, iterations, capabilities>>
mapVars == <<at, notifyMapCap, priv>>
configVars == <<version, cread>>
lifeVars == <<device, objects, starts>>
vars == <<lifeVars, pc, barVars, walkVars, mapVars, misread, configVars>>

Structures == {COMMON, NOTIFY, ISR, DEVICE}
NoPointers == [s \in Structures |-> Null]
NoCapabilities == [t \in 0 .. PCI - 1 |-> 0]
NoBars == [b \in Bars |-> [size |-> 0, kind |-> "none", va |-> FALSE]]
IdleRead == [step |-> "idle", i |-> 0, gen |-> 0, buf |-> <<0, 0>>, since |-> 0]

Init ==
    /\ device \in Devices
    /\ pc = "resources" /\ objects = 1 /\ starts = 0
    /\ bars = NoBars /\ mappings = [b \in Bars |-> 0]
    /\ offset = 0 /\ iterations = 0 /\ capabilities = NoCapabilities
    /\ at = NoPointers /\ notifyMapCap = 0 /\ priv = [q \in Queues |-> Null]
    /\ misread = FALSE
    /\ version = 0 /\ cread = IdleRead

-----------------------------------------------------------------------------
(* CPciResources::Init.  The index of the last port or memory resource       *)
(* decides whether any was found.                                           *)
LastBar ==
    LET found == {i \in DOMAIN device.resources : device.resources[i].kind # "interrupt"}
    IN  IF found = {} THEN NoBar ELSE device.resources[Max(found)].bar

ResourcesInit(read) ==
    /\ pc = "resources"
    /\ IF read
       THEN /\ bars' = [b \in Bars |->
                  LET mine == {i \in DOMAIN device.resources : device.resources[i].bar = b}
                  IN  IF mine = {} THEN NoBars[b]
                      ELSE LET r == device.resources[Max(mine)]
                           IN  [size |-> r.len, kind |-> r.kind, va |-> FALSE]]
            /\ pc' = IF /\ LastBar # NoBar
                        /\ \E i \in DOMAIN device.resources : device.resources[i].kind = "interrupt"
                     THEN "initialize" ELSE "failed"
       ELSE pc' = "failed" /\ UNCHANGED bars
    /\ UNCHANGED <<lifeVars, mappings, walkVars, mapVars, misread, configVars>>

(* CPciBar::GetVA: all but ports that are addressed as they are need a       *)
(* mapping, which is kept for the life of the object.                       *)
NeedsMapping(b) == bars[b].kind # "port"

(* Deviation: every use maps.                                              *)
GetVAEachTime(b, mapped) ==
    /\ bars' = [bars EXCEPT ![b].va = TRUE]
    /\ mappings' = [mappings EXCEPT ![b] = @ + (IF NeedsMapping(b) THEN 1 ELSE 0)]
    /\ mapped

GetVA(b, mapped) ==
    IF bars[b].va \/ (NeedsMapping(b) /\ ~ mapped) THEN UNCHANGED barVars
    ELSE /\ bars' = [bars EXCEPT ![b].va = TRUE]
         /\ mappings' = [mappings EXCEPT ![b] = @ + (IF NeedsMapping(b) THEN 1 ELSE 0)]

(* CPciBar::Unmap, of the destructor.  Memory BARs are created with          *)
(* m_bIoMapped, and what is mapped for I/O is not unmapped.                  *)
Unmap ==
    /\ bars' = NoBars
    /\ mappings' = [b \in Bars |->
          mappings[b] - (IF bars[b].va /\ bars[b].kind = "port" THEN 1 ELSE 0)]

-----------------------------------------------------------------------------
(* find_first_pci_vendor_capability and find_next_pci_vendor_capability.      *)

(* A read that fails (bound: one in a behaviour).                            *)
Fails == ~ misread /\ misread' = TRUE
Read == UNCHANGED misread
WalkEnds == pc' = "map" /\ UNCHANGED <<offset, iterations>>

VirtioDeviceInitialize ==
    /\ pc = "initialize"
    /\ starts' = starts + 1
    /\ capabilities' = NoCapabilities
    /\ at' = NoPointers /\ notifyMapCap' = 0 /\ priv' = [q \in Queues |-> Null]
    /\ \/ Fails /\ WalkEnds
       \/ Read /\ pc' = "loop" /\ offset' = device.first /\ iterations' = Iterations
    /\ UNCHANGED <<device, objects, barVars, configVars>>

Aligned(o) == o - (o % 4)
Here == device.caps[Aligned(offset)]

(* Deviation: the last iteration does not count.                            *)
MayLookOneLess == iterations > 1 /\ offset >= 64

MayLook == iterations > 0 /\ offset >= 64

LookEnds ==
    /\ pc = "loop"
    /\ \/ ~ MayLook /\ Read
       \/ MayLook /\ Fails
       \/ MayLook /\ Here.id = NoCapability /\ Read
    /\ WalkEnds
    /\ UNCHANGED <<lifeVars, barVars, capabilities, mapVars, configVars>>

(* Deviation: capabilities that are passed over are not counted.             *)
LookOnUncounted ==
    /\ pc = "loop" /\ MayLook /\ Here.id \notin {NoCapability, VENDOR}
    /\ Read
    /\ offset' = Here.next
    /\ UNCHANGED <<lifeVars, pc, barVars, iterations, capabilities, mapVars, configVars>>

LookOn ==
    /\ pc = "loop" /\ MayLook /\ Here.id \notin {NoCapability, VENDOR}
    /\ Read
    /\ offset' = Here.next
    /\ iterations' = iterations - 1
    /\ UNCHANGED <<lifeVars, pc, barVars, capabilities, mapVars, configVars>>

LookFinds ==
    /\ pc = "loop" /\ MayLook /\ Here.id = VENDOR
    /\ Read
    /\ offset' = Aligned(offset)
    /\ pc' = "vendor"
    /\ UNCHANGED <<lifeVars, barVars, iterations, capabilities, mapVars, configVars>>

(* find_pci_vendor_capabilities.                                           *)
Usable(c) == c.bar \in Bars /\ c.type < PCI /\ bars[c.bar].size > 0

Noted(c) == IF Usable(c) THEN [capabilities EXCEPT ![c.type] = offset] ELSE capabilities

VendorCapability ==
    /\ pc = "vendor"
    /\ \/ Read /\ capabilities' = Noted(Here.what)
       \/ Fails /\ \E g \in Garbage : capabilities' = Noted(g)
    /\ pc' = "next"
    /\ UNCHANGED <<lifeVars, barVars, offset, iterations, mapVars, configVars>>

NextVendorCapability ==
    /\ pc = "next"
    /\ \/ Fails /\ WalkEnds
       \/ Read /\ pc' = "loop" /\ offset' = Here.next /\ iterations' = Iterations
    /\ UNCHANGED <<lifeVars, barVars, capabilities, mapVars, configVars>>

-----------------------------------------------------------------------------
(* vio_modern_map_capability and CPciResources::GetMappedAddress.             *)

(* Deviation: the end of the BAR is not looked at.                           *)
MapCapabilityUnchecked(c, minlen, alignment, start, size) ==
    LET o == (c.offset + start) % Word
    IN  IF \/ start + minlen > c.length
           \/ o % alignment # 0
           \/ o >= bars[c.bar].size
        THEN Null ELSE [bar |-> c.bar, offset |-> o, len |-> Min({c.length - start, size})]

(* Deviation: where to start in the capability is forgotten.                 *)
MapCapabilityAtStart(c, minlen, alignment, start, size) ==
    LET o == c.offset
    IN  IF \/ start + minlen > c.length
           \/ o % alignment # 0
           \/ o + minlen > bars[c.bar].size
           \/ o >= bars[c.bar].size
        THEN Null ELSE [bar |-> c.bar, offset |-> o, len |-> Min({c.length - start, size})]

MapCapability(c, minlen, alignment, start, size) ==
    LET o == (c.offset + start) % Word
    IN  IF \/ start + minlen > c.length
           \/ o % alignment # 0
           \/ o + minlen > bars[c.bar].size
           \/ o >= bars[c.bar].size
        THEN Null ELSE [bar |-> c.bar, offset |-> o, len |-> Min({c.length - start, size})]

(* What the driver gets when it reads a capability.                         *)
ReadsOf(cap) == {device.caps[cap].what} \cup IF misread THEN {} ELSE Garbage
Notice(cap, reads) == misread' = (misread \/ reads # {device.caps[cap].what})

(* Maps the region of a capability, which is stored where that succeeds.  A   *)
(* bar that was not read may lie outside m_Bars, and anything may follow.     *)
MapFrom(c, region, mapped, stored) ==
    IF c.bar \notin Bars THEN pc' \in {"wild", "failed"} /\ UNCHANGED <<barVars, mapVars>>
    ELSE /\ IF region = Null THEN UNCHANGED barVars ELSE GetVA(c.bar, mapped)
         /\ IF region # Null /\ bars'[c.bar].va THEN stored
            ELSE pc' = "failed" /\ UNCHANGED mapVars

Store(s, next, region) ==
    at' = [at EXCEPT ![s] = region] /\ pc' = next /\ UNCHANGED <<notifyMapCap, priv>>
StorePriv(q, next, region) ==
    priv' = [priv EXCEPT ![q] = region] /\ pc' = next /\ UNCHANGED <<at, notifyMapCap>>
Mapping(step) == pc = step /\ UNCHANGED <<lifeVars, walkVars, configVars>>

(* Without a common structure the device is taken for a legacy one, which    *)
(* has its registers in BAR 0.                                              *)
LegacyInitialize(mapped) ==
    /\ Mapping("map") /\ capabilities[COMMON] = 0
    /\ IF bars[0].size > 0 THEN GetVA(0, mapped) ELSE UNCHANGED barVars
    /\ pc' = IF bars'[0].va THEN "legacy" ELSE "failed"
    /\ UNCHANGED <<mapVars, misread>>

MapCommon(mapped) ==
    /\ Mapping("map") /\ capabilities[COMMON] # 0
    /\ IF 0 \in {capabilities[ISR], capabilities[NOTIFY]}
       THEN pc' = "failed" /\ UNCHANGED <<barVars, mapVars, misread>>
       ELSE \E c \in ReadsOf(capabilities[COMMON]) :
              /\ Notice(capabilities[COMMON], {c})
              /\ LET r == MapCapability(c, CommonSize, 4, 0, CommonSize)
                 IN  MapFrom(c, r, mapped, Store(COMMON, "isr", r))

MapIsr(mapped) ==
    /\ Mapping("isr")
    /\ \E c \in ReadsOf(capabilities[ISR]) :
         /\ Notice(capabilities[ISR], {c})
         /\ LET r == MapCapability(c, 1, 1, 0, 1)
            IN  MapFrom(c, r, mapped, Store(ISR, "notify", r))

(* The notify structure is mapped as a whole if it is in one page, or else   *)
(* for each queue.  Its length is read twice.                               *)
MapNotify(mapped) ==
    /\ Mapping("notify")
    /\ \E first, c \in ReadsOf(capabilities[NOTIFY]) :
         IF (first.length + (first.offset % PageSize)) % Word <= PageSize
         THEN /\ Notice(capabilities[NOTIFY], {first, c})
              /\ LET r == MapCapability(c, 2, 2, 0, first.length)
                 IN  MapFrom(c, r, mapped, Store(NOTIFY, "config", r))
         ELSE /\ Notice(capabilities[NOTIFY], {first})
              /\ notifyMapCap' = capabilities[NOTIFY]
              /\ pc' = "config"
              /\ UNCHANGED <<barVars, at, priv>>

MapConfig(mapped) ==
    /\ Mapping("config")
    /\ IF capabilities[DEVICE] = 0
       THEN pc' = "queues" /\ UNCHANGED <<barVars, mapVars, misread>>
       ELSE \E c \in ReadsOf(capabilities[DEVICE]) :
              /\ Notice(capabilities[DEVICE], {c})
              /\ LET r == MapCapability(c, 0, 4, 0, PageSize)
                 IN  MapFrom(c, r, mapped, Store(DEVICE, "queues", r))

-----------------------------------------------------------------------------
(* vio_modern_setup_vq, as far as the address for kicks goes.                *)
NotifyOffset(q) == device.notifyOff[q] * device.multiplier
QueuesDone(q) == IF q = Max(Queues) THEN "ready" ELSE "queues"

KickFits(o) == o + 2 <= at[NOTIFY].len

SetupQueue(q, mapped) ==
    /\ Mapping("queues")
    /\ q = Min({p \in Queues : priv[p] = Null})
    /\ IF at[NOTIFY] # Null
       THEN /\ IF KickFits(NotifyOffset(q))
               THEN StorePriv(q, QueuesDone(q),
                              [bar |-> at[NOTIFY].bar,
                               offset |-> at[NOTIFY].offset + NotifyOffset(q), len |-> 2])
               ELSE pc' = "failed" /\ UNCHANGED mapVars
            /\ UNCHANGED <<barVars, misread>>
       ELSE \E c \in ReadsOf(notifyMapCap) :
              /\ Notice(notifyMapCap, {c})
              /\ LET r == MapCapability(c, 2, 2, NotifyOffset(q) % Word, 2)
                 IN  MapFrom(c, r, mapped, StorePriv(q, QueuesDone(q), r))

-----------------------------------------------------------------------------
(* Power cycles (GpuDeviceClose and GpuDeviceInit: the BARs stay) and a      *)
(* StopDevice or RemoveDevice that deletes the device object.                *)

PowerCycle ==
    /\ pc = "ready" /\ cread.step = "idle" /\ starts < MaxStarts
    /\ pc' = "initialize"
    /\ UNCHANGED <<lifeVars, barVars, walkVars, mapVars, misread, configVars>>

DeleteDevice ==
    /\ pc \in {"ready", "failed", "legacy"} /\ cread.step = "idle"
    /\ Unmap
    /\ at' = NoPointers /\ notifyMapCap' = 0 /\ priv' = [q \in Queues |-> Null]
    /\ pc' = "none"
    /\ UNCHANGED <<lifeVars, walkVars, misread, configVars>>

StartDevice ==
    /\ pc = "none" /\ objects < MaxObjects
    /\ objects' = objects + 1 /\ starts' = 0
    /\ pc' = "resources"
    /\ UNCHANGED <<device, barVars, walkVars, mapVars, misread, configVars>>

-----------------------------------------------------------------------------
(* virtio_cread_many for a field of eight bytes.  Each change of the device  *)
(* gives both halves a new value and increments config_generation.           *)

ConfigChanges ==
    /\ pc = "ready" /\ version < MaxChanges
    /\ version' = version + 1
    /\ UNCHANGED <<lifeVars, pc, barVars, walkVars, mapVars, misread, cread>>

Reading(step) ==
    /\ pc = "ready" /\ cread.step = step
    /\ UNCHANGED <<lifeVars, pc, barVars, walkVars, mapVars, misread, version>>

CreadBegins ==
    /\ Reading("idle")
    /\ cread' = [cread EXCEPT !.step = "fields", !.i = 1, !.gen = version,
                              !.buf = <<0, 0>>, !.since = version]

(* vio_modern_get_config leaves the buffer alone where there is no such field. *)
CreadField ==
    /\ Reading("fields") /\ cread.i <= 2
    /\ cread' = [cread EXCEPT !.i = @ + 1,
                              !.buf[cread.i] = IF 4 * cread.i <= at[DEVICE].len THEN version ELSE @]

(* Deviation: the generation is not read again.                             *)
CreadEndsAtOnce ==
    /\ Reading("fields") /\ cread.i > 2
    /\ cread' = [cread EXCEPT !.step = "done"]

CreadEnds ==
    /\ Reading("fields") /\ cread.i > 2
    /\ cread' = IF version = cread.gen THEN [cread EXCEPT !.step = "done"]
                ELSE [cread EXCEPT !.i = 1, !.gen = version]

CreadReturns == Reading("done") /\ cread' = IdleRead

-----------------------------------------------------------------------------
Walks ==
    \/ VirtioDeviceInitialize
    \/ LookEnds \/ LookOn \/ LookFinds
    \/ VendorCapability \/ NextVendorCapability

Initializes ==
    \/ \E read \in BOOLEAN : ResourcesInit(read)
    \/ Walks
    \/ \E mapped \in BOOLEAN :
         \/ LegacyInitialize(mapped)
         \/ MapCommon(mapped) \/ MapIsr(mapped) \/ MapNotify(mapped) \/ MapConfig(mapped)
         \/ \E q \in Queues : SetupQueue(q, mapped)

Next ==
    \/ Initializes
    \/ PowerCycle \/ DeleteDevice \/ StartDevice
    \/ ConfigChanges \/ CreadBegins \/ CreadField \/ CreadEnds \/ CreadReturns

Spec == Init /\ [][Next]_vars /\ WF_vars(Initializes)

-----------------------------------------------------------------------------
(* The capability list as a device means it: ListOf(d)[n] is its n-th         *)
(* capability, 0 after its end.                                             *)
ListOf(d) ==
    LET list[n \in 0 .. 2 * Cardinality(Slots)] ==
            LET pointer == IF n = 0 THEN d.first
                           ELSE IF list[n - 1] = 0 THEN 0 ELSE d.caps[list[n - 1]].next
                o == Aligned(pointer)
            IN  IF pointer < 64 \/ d.caps[o].id = NoCapability THEN 0 ELSE o
    IN  list
ListAt == ListOf(device)
Listed == {n \in 0 .. Cardinality(Slots) - 1 : ListAt[n] # 0}
ListEnds == ListAt[Cardinality(Slots)] = 0

(* Of each type of structure the last usable capability of the list is taken, *)
(* however far the list goes, whatever lies between, and whether its pointers *)
(* are aligned or not, unless a read failed.                                 *)
Meant(t) ==
    LET of == {n \in Listed : /\ device.caps[ListAt[n]].id = VENDOR
                              /\ device.caps[ListAt[n]].what.type = t
                              /\ Usable(device.caps[ListAt[n]].what)}
    IN  IF of = {} THEN 0 ELSE ListAt[Max(of)]

LastUsableTaken ==
    pc = "map" /\ ListEnds /\ ~ misread => \A t \in Structures : capabilities[t] = Meant(t)

(* The walk ends, with failing reads and for lists that never end as well,   *)
(* unless such a list comes by a vendor capability again and again: nothing   *)
(* counts those.                                                           *)
VendorLoop ==
    \E n \in Cardinality(Slots) .. 2 * Cardinality(Slots) :
        ListAt[n] # 0 /\ device.caps[ListAt[n]].id = VENDOR
WalkEndsUnlessLooped ==
    pc = "initialize" /\ ~ VendorLoop ~> pc \notin {"initialize", "loop", "vendor", "next"}

(* What the driver reads and writes is inside a BAR that is mapped: the       *)
(* common and the interrupt structure, the field that kicks a queue, and the  *)
(* configuration, where the latter two are inside their BAR by the device's   *)
(* own account, which is not checked again (viogpu_pci.cpp:202 drops the     *)
(* length).  A failed read voids all of it.                                 *)
Within(r) == r.offset + r.len <= bars[r.bar].size
Fits(cap) == device.caps[cap].what.offset + device.caps[cap].what.length
                 <= bars[device.caps[cap].what.bar].size
AccessesInside ==
    pc = "ready" /\ ~ misread =>
        /\ \A s \in Structures : at[s] # Null => bars[at[s].bar].va
        /\ Within(at[COMMON]) /\ Within(at[ISR])
        /\ \A q \in Queues :
              at[NOTIFY] = Null \/ Fits(capabilities[NOTIFY]) => Within(priv[q])
        /\ at[DEVICE] # Null /\ Fits(capabilities[DEVICE]) => Within(at[DEVICE])

(* A kick of a queue is written where the device expects that queue's kicks,  *)
(* unless that address wraps where each queue is mapped by itself.            *)
KicksArrive ==
    pc = "ready" /\ ~ misread =>
        \A q \in Queues :
            LET c == device.caps[capabilities[NOTIFY]].what
            IN  c.offset + NotifyOffset(q) < Word =>
                    priv[q] = [bar |-> c.bar, offset |-> c.offset + NotifyOffset(q), len |-> 2]

(* Over power cycles and several structures in one BAR each device object maps *)
(* a BAR once; memory and mapped ports stay mapped when the object is gone,   *)
(* ports that need no mapping are unmapped all the same (viogpu_pci.cpp:316). *)
MappingsKnown ==
    \A b \in Bars :
        /\ mappings[b] <= objects
        /\ bars[b].va /\ bars[b].kind # "port" => mappings[b] >= 1
        /\ mappings[b] < 0 => \E i \in DOMAIN device.resources :
                device.resources[i].bar = b /\ device.resources[i].kind = "port"

(* Both halves of a field of eight bytes are of one moment of the call, or    *)
(* neither is read.                                                        *)
FieldsOfOneMoment ==
    cread.step = "done" /\ at[DEVICE].len >= 8 =>
        cread.buf[1] = cread.buf[2] /\ cread.buf[1] \in cread.since .. version
=============================================================================
