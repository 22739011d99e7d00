-------------------------- MODULE VirtioPci_proofs --------------------------
(***************************************************************************)
(* Proofs about VirtioPci, for every capability list, every set of BARs and  *)
(* structures, and every read that fails.                                  *)
(***************************************************************************)
EXTENDS VirtioPci, WellFoundedInduction, FiniteSetTheorems, TLAPS

-----------------------------------------------------------------------------
(* Induction over the natural numbers, stated for sets.                     *)
(* A set of natural numbers has a least element.                            *)
LEMMA LeastOf ==
    ASSUME NEW T, T \subseteq Nat, T # {}
    PROVE  \E n \in T : \A m \in T : n <= m
<1> DEFINE Less == OpToRel(<, Nat)
<1>1. PICK n \in T : \A m \in T : ~ (<<m, n>> \in Less)
    BY WFMin, NatLessThanWellFounded
<1>2. \A m \in Nat : m < n => <<m, n>> \in Less
    BY <1>1 DEF OpToRel
<1> HIDE DEF Less
<1>3. \A m \in T : ~ (m < n)
    BY <1>1, <1>2
<1> QED
    BY <1>1, <1>3

(* Induction up to a bound.                                                *)
LEMMA UpTo ==
    ASSUME NEW T, NEW n \in Nat, 0 \in T, \A k \in 0 .. n - 1 : k \in T => k + 1 \in T
    PROVE  0 .. n \subseteq T
<1> SUFFICES ASSUME NEW U, U = (0 .. n) \ T, U # {}
             PROVE  FALSE
    OBVIOUS
<1>1. U \subseteq Nat
    OBVIOUS
<1>2. PICK m \in U : \A k \in U : m <= k
    BY <1>1, LeastOf
<1>3. m \in 0 .. n /\ m \notin T /\ m - 1 \notin U
    BY <1>1, <1>2
<1> QED
    BY <1>3

(* Induction over all natural numbers.                                     *)
LEMMA ForAllNat ==
    ASSUME NEW T, 0 \in T, \A k \in Nat : k \in T => k + 1 \in T
    PROVE  Nat \subseteq T
    BY UpTo


-----------------------------------------------------------------------------
(* Numbers.                                                                *)

LEMMA MinOfTwo ==
    ASSUME NEW a \in Int, NEW b \in Int
    PROVE  Min({a, b}) = IF a <= b THEN a ELSE b
<1>1. \E x \in {a, b} : \A y \in {a, b} : x <= y
    OBVIOUS
<1>2. Min({a, b}) \in {a, b} /\ \A y \in {a, b} : Min({a, b}) <= y
    BY <1>1 DEF Min
<1> QED
    BY <1>2

(* A finite set of numbers that is not empty has a greatest one.            *)
LEMMA MaxOfSome ==
    ASSUME NEW n \in Nat, NEW T, T \subseteq 0 .. n, T # {}
    PROVE  Max(T) \in T /\ \A y \in T : Max(T) >= y
<1> DEFINE U == {n - y : y \in T}
<1>1. U \subseteq Nat /\ U # {}
    OBVIOUS
<1> HIDE DEF U
<1>2. PICK u \in U : \A v \in U : u <= v
    BY <1>1, LeastOf
<1>3. PICK x \in T : u = n - x
    BY <1>2 DEF U
<1>4. ASSUME NEW y \in T
      PROVE  x >= y
  <2>1. u <= n - y
      BY <1>2 DEF U
  <2> QED
      BY <2>1, <1>3
<1>5. \E z \in T : \A y \in T : z >= y
    BY <1>4
<1> QED
    BY <1>5 DEF Max

LEMMA QueueNumbers ==
    /\ Queues = {1, 2}
    /\ Max(Queues) = 2
    /\ Min({1, 2}) = 1 /\ Min({1}) = 1 /\ Min({2}) = 2
<1>1. Queues = {1, 2}
    BY DEF Queues
<1>2. Max({1, 2}) = 2
  <2>1. \E x \in {1, 2} : \A y \in {1, 2} : x >= y
      OBVIOUS
  <2> QED
      BY <2>1 DEF Max
<1>3. Min({1, 2}) = 1
    BY MinOfTwo
<1>4. Min({1}) = 1
    BY DEF Min
<1>5. Min({2}) = 2
    BY DEF Min
<1> QED
    BY <1>1, <1>2, <1>3, <1>4, <1>5

(* A pointer into the list is rounded down to the slot it points into.       *)
LEMMA AlignedSlot ==
    ASSUME NEW o \in Pointers, o >= 64
    PROVE  Aligned(o) \in Slots /\ o \in Nat
<1>1. PICK t \in Slots : o \in t .. t + 3
    BY DEF Pointers
<1>2. t \in 64 .. 255 /\ t % 4 = 0
    BY SlotsAssumption
<1>3. o \in Nat /\ o - (o % 4) = t
    BY <1>1, <1>2
<1> QED
    BY <1>3 DEF Aligned

LEMMA SlotPointer ==
    ASSUME NEW s \in Slots
    PROVE  s \in Pointers /\ s \in Nat /\ s >= 64 /\ s # 0 /\ Aligned(s) = s
<1>1. s \in 64 .. 255 /\ s % 4 = 0
    BY SlotsAssumption
<1>2. s \in s .. s + 3
    BY <1>1
<1>3. s \in Pointers
    BY <1>2 DEF Pointers
<1> QED
    BY <1>1, <1>3 DEF Aligned

-----------------------------------------------------------------------------
(* Types.                                                                  *)
Steps ==
    {"resources", "initialize", "loop", "vendor", "next", "map", "isr", "notify", "config",
     "queues", "ready", "legacy", "failed", "wild", "none"}
Region == [bar : Bars \cup {NoBar}, offset : Nat, len : Int]
Bar == [size : Nat, kind : Kinds \cup {"none"}, va : BOOLEAN]

TypeInv ==
    /\ device \in Devices
    /\ pc \in Steps
    /\ objects \in Nat /\ starts \in Nat
    /\ bars \in [Bars -> Bar]
    /\ mappings \in [Bars -> Int]
    /\ pc = "loop" => offset \in Pointers /\ iterations \in Nat
    /\ pc \in {"vendor", "next"} => offset \in Slots
    /\ capabilities \in [0 .. PCI - 1 -> {0} \cup Slots]
    /\ at \in [Structures -> Region]
    /\ notifyMapCap \in {0} \cup Slots
    /\ pc \in {"isr", "notify", "config", "queues", "ready"} =>
          capabilities[COMMON] # 0 /\ capabilities[ISR] # 0 /\ capabilities[NOTIFY] # 0
    /\ pc \in {"config", "queues", "ready"} /\ at[NOTIFY] = Null =>
          notifyMapCap = capabilities[NOTIFY]
    /\ priv \in [Queues -> Region]
    /\ misread \in BOOLEAN

LEMMA SequenceTypes ==
    ASSUME NEW S, NEW q \in Seq(S)
    PROVE  Len(q) \in Nat /\ DOMAIN q = 1 .. Len(q) /\ \A i \in 1 .. Len(q) : q[i] \in S
    OBVIOUS

LEMMA DeviceTypes ==
    ASSUME NEW d \in Devices
    PROVE  /\ \A s \in Slots : /\ d.caps[s].id \in 0 .. 255
                               /\ d.caps[s].what \in Contents
                               /\ d.caps[s].next \in Pointers
           /\ d.first \in Pointers
           /\ Len(d.resources) \in Nat /\ DOMAIN d.resources = 1 .. Len(d.resources)
           /\ \A i \in DOMAIN d.resources : /\ d.resources[i].kind \in Kinds
                                            /\ d.resources[i].bar \in Bars \cup {NoBar}
                                            /\ d.resources[i].len \in Nat
           /\ d.multiplier \in Nat
           /\ \A q \in Queues : d.notifyOff[q] \in Nat
<1>1. /\ d.caps \in [Slots -> [id : 0 .. 255, what : Contents, next : Pointers]]
      /\ d.resources \in Seq([kind : Kinds, bar : Bars \cup {NoBar}, len : Nat])
      /\ d.first \in Pointers
      /\ d.multiplier \in 0 .. Word - 1
      /\ d.notifyOff \in [Queues -> Nat]
    BY DevicesAssumption
<1>2. \A s \in Slots : d.caps[s] \in [id : 0 .. 255, what : Contents, next : Pointers]
    BY <1>1
<1>3. /\ Len(d.resources) \in Nat /\ DOMAIN d.resources = 1 .. Len(d.resources)
      /\ \A i \in 1 .. Len(d.resources) :
            d.resources[i] \in [kind : Kinds, bar : Bars \cup {NoBar}, len : Nat]
    BY <1>1, SequenceTypes
<1>4. \A i \in 1 .. Len(d.resources) : /\ d.resources[i].kind \in Kinds
                                       /\ d.resources[i].bar \in Bars \cup {NoBar}
                                       /\ d.resources[i].len \in Nat
    BY <1>3
<1> QED
    BY <1>1, <1>2, <1>3, <1>4, WordAssumption

LEMMA ContentTypes ==
    ASSUME NEW c \in Contents
    PROVE  /\ c.type \in Nat /\ c.bar \in Nat
           /\ c.offset \in Nat /\ c.offset < Word /\ c.length \in Nat /\ c.length < Word
           /\ c.offset % Word = c.offset /\ (c.offset + 0) % Word = c.offset
    BY WordAssumption DEF Contents

(* What reading a capability gives, and when it failed.                     *)
LEMMA ReadTypes ==
    ASSUME device \in Devices, NEW cap \in Slots, NEW c \in ReadsOf(cap)
    PROVE  c \in Contents
<1>1. device.caps[cap].what \in Contents
    BY DeviceTypes
<1> QED
    BY <1>1, GarbageAssumption DEF ReadsOf

LEMMA ReadNoticed ==
    ASSUME misread \in BOOLEAN, NEW cap, NEW reads, Notice(cap, reads)
    PROVE  /\ misread' \in BOOLEAN
           /\ ~ misread' => ~ misread /\ reads = {device.caps[cap].what}
    BY DEF Notice

LEMMA NotifyOffsetType ==
    ASSUME device \in Devices, NEW q \in Queues
    PROVE  NotifyOffset(q) \in Nat
<1>1. device.multiplier \in Nat /\ device.notifyOff[q] \in Nat
    BY DeviceTypes
<1>2. \A a, b \in Nat : a * b \in Nat
    OBVIOUS
<1> QED
    BY <1>1, <1>2 DEF NotifyOffset

(* What vio_modern_map_capability answers.                                  *)
LEMMA MapResult ==
    ASSUME bars \in [Bars -> Bar], NEW c \in Contents, c.bar \in Bars, NEW minlen \in Nat,
           NEW alignment, NEW start \in Nat, NEW size \in Nat,
           NEW r, r = MapCapability(c, minlen, alignment, start, size), r # Null
    PROVE  /\ r \in Region /\ r.bar = c.bar
           /\ r.offset = (c.offset + start) % Word
           /\ r.len = (IF c.length - start <= size THEN c.length - start ELSE size)
           /\ start + minlen <= c.length
           /\ r.offset + minlen <= bars[c.bar].size
           /\ bars[c.bar].size > 0
<1> DEFINE o == (c.offset + start) % Word
           l == Min({c.length - start, size})
<1>1. /\ c.offset \in Nat /\ c.length \in Nat /\ o \in Nat
      /\ bars[c.bar].size \in Nat
  <2>1. c.offset \in Nat /\ c.length \in Nat
      BY ContentTypes
  <2>2. o \in Nat
      BY <2>1, WordAssumption
  <2>3. bars[c.bar] \in Bar
      OBVIOUS
  <2> QED
      BY <2>1, <2>2, <2>3 DEF Bar
<1>2. l = (IF c.length - start <= size THEN c.length - start ELSE size) /\ l \in Int
    BY <1>1, MinOfTwo
<1> HIDE DEF l
<1>3. r = [bar |-> c.bar, offset |-> o, len |-> l]
      /\ ~ (start + minlen > c.length) /\ ~ (o + minlen > bars[c.bar].size)
      /\ ~ (o >= bars[c.bar].size)
    BY DEF MapCapability, l
<1> HIDE DEF o
<1>4. r \in Region
    BY <1>1, <1>2, <1>3 DEF Region
<1> QED
    BY <1>1, <1>2, <1>3, <1>4 DEF o

(* Mapping a BAR changes neither its size nor its kind.                      *)
BarsKept ==
    /\ bars' \in [Bars -> Bar]
    /\ mappings' \in [Bars -> Int]
    /\ \A b \in Bars : /\ bars'[b].size = bars[b].size
                       /\ bars'[b].kind = bars[b].kind
                       /\ bars[b].va => bars'[b].va

LEMMA GetVAKeepsBars ==
    ASSUME bars \in [Bars -> Bar], mappings \in [Bars -> Int], NEW b \in Bars, NEW mapped,
           GetVA(b, mapped)
    PROVE  BarsKept
<1>1. bars[b] \in Bar /\ mappings[b] \in Int
    OBVIOUS
<1>2. CASE UNCHANGED barVars
    BY <1>2 DEF barVars, BarsKept
<1>3. CASE /\ bars' = [bars EXCEPT ![b].va = TRUE]
           /\ mappings' = [mappings EXCEPT ![b] = @ + (IF NeedsMapping(b) THEN 1 ELSE 0)]
  <2>1. [bars[b] EXCEPT !.va = TRUE] \in Bar
      BY <1>1 DEF Bar
  <2>2. bars' \in [Bars -> Bar]
      BY <1>3, <2>1
  <2>3. mappings' \in [Bars -> Int]
      BY <1>3, <1>1
  <2>4. ASSUME NEW x \in Bars
        PROVE  /\ bars'[x].size = bars[x].size
               /\ bars'[x].kind = bars[x].kind
               /\ bars[x].va => bars'[x].va
    <3>1. bars[x] \in Bar
        OBVIOUS
    <3> QED
        BY <1>3, <3>1 DEF Bar
  <2> QED
      BY <2>2, <2>3, <2>4 DEF BarsKept
<1> QED
    BY <1>2, <1>3 DEF GetVA

LEMMA SameBarsKept ==
    ASSUME bars \in [Bars -> Bar], mappings \in [Bars -> Int], UNCHANGED barVars
    PROVE  BarsKept
    BY DEF barVars, BarsKept

(* The outcomes of mapping a structure, and of mapping a queue's word.       *)
MapEnds(c, region, stored) ==
    /\ BarsKept
    /\ \/ pc' \in {"wild", "failed"} /\ UNCHANGED mapVars
       \/ c.bar \in Bars /\ region # Null /\ bars'[c.bar].va /\ stored

LEMMA MapFromEnds ==
    ASSUME bars \in [Bars -> Bar], mappings \in [Bars -> Int],
           NEW c, NEW region, NEW mapped, NEW ACTION stored,
           MapFrom(c, region, mapped, stored)
    PROVE  MapEnds(c, region, stored)
<1>1. CASE c.bar \notin Bars
    BY <1>1, SameBarsKept DEF MapFrom, MapEnds
<1>2. CASE c.bar \in Bars
  <2>1. BarsKept
    <3>1. CASE region = Null
        BY <1>2, <3>1, SameBarsKept DEF MapFrom
    <3>2. CASE region # Null
        BY <1>2, <3>2, GetVAKeepsBars DEF MapFrom
    <3> QED
        BY <3>1, <3>2
  <2> QED
      BY <1>2, <2>1 DEF MapFrom, MapEnds
<1> QED
    BY <1>1, <1>2

-----------------------------------------------------------------------------
(* How far the set-up has come, and what it has found by then.               *)
NoPriv == [q \in Queues |-> Null]
What(s) == device.caps[capabilities[s]].what

Fresh == pc \in {"loop", "vendor", "next", "map"} => at = NoPointers /\ priv = NoPriv

NotYet ==
    /\ pc \in {"isr", "notify"} => at[NOTIFY] = Null
    /\ pc \in {"isr", "notify", "config"} => at[DEVICE] = Null /\ priv = NoPriv
    /\ pc = "queues" => priv[2] = Null
    /\ pc = "ready" => priv[1] # Null /\ priv[2] # Null

InMappedBars ==
    pc \in {"isr", "notify", "config", "queues", "ready"} =>
        \A s \in Structures : at[s] # Null => at[s].bar \in Bars /\ bars[at[s].bar].va

CommonFound ==
    ~ misread /\ pc \in {"isr", "notify", "config", "queues", "ready"} =>
        at[COMMON] # Null /\ Within(at[COMMON])

IsrFound ==
    ~ misread /\ pc \in {"notify", "config", "queues", "ready"} =>
        at[ISR] # Null /\ Within(at[ISR])

NotifyFound ==
    ~ misread /\ pc \in {"config", "queues", "ready"} /\ at[NOTIFY] # Null =>
        /\ at[NOTIFY].bar = What(NOTIFY).bar
        /\ at[NOTIFY].offset = What(NOTIFY).offset
        /\ at[NOTIFY].len = What(NOTIFY).length

DeviceFound ==
    ~ misread /\ pc \in {"queues", "ready"} /\ at[DEVICE] # Null =>
        /\ capabilities[DEVICE] # 0
        /\ at[DEVICE].bar = What(DEVICE).bar
        /\ at[DEVICE].offset = What(DEVICE).offset
        /\ at[DEVICE].len <= What(DEVICE).length

KickRight(q) ==
    /\ What(NOTIFY).bar \in Bars /\ priv[q].bar = What(NOTIFY).bar
    /\ What(NOTIFY).offset + NotifyOffset(q) < Word =>
          priv[q] = [bar |-> What(NOTIFY).bar, offset |-> What(NOTIFY).offset + NotifyOffset(q),
                     len |-> 2]
    /\ at[NOTIFY] = Null \/ Fits(capabilities[NOTIFY]) => Within(priv[q])

KicksFound ==
    ~ misread /\ pc \in {"queues", "ready"} => \A q \in Queues : priv[q] # Null => KickRight(q)

SetUpInv ==
    /\ TypeInv
    /\ Fresh /\ NotYet
    /\ InMappedBars
    /\ CommonFound /\ IsrFound /\ NotifyFound /\ DeviceFound
    /\ KicksFound

(* Where the set-up has not come to the structures yet, or has given up.      *)
LEMMA Elsewhere ==
    ASSUME TypeInv', pc' \notin {"isr", "notify", "config", "queues", "ready"}, Fresh'
    PROVE  SetUpInv'
    BY DEF SetUpInv, NotYet, InMappedBars, CommonFound, IsrFound, NotifyFound, DeviceFound,
       KicksFound

LEMMA StandsStill ==
    ASSUME SetUpInv, UNCHANGED <<lifeVars, pc, barVars, walkVars, mapVars, misread>>
    PROVE  SetUpInv'
<1> USE DEF lifeVars, barVars, walkVars, mapVars
<1>1. TypeInv'
    BY DEF SetUpInv, TypeInv
<1>2. Fresh' /\ NotYet'
    BY DEF SetUpInv, Fresh, NotYet
<1>3. InMappedBars'
    BY DEF SetUpInv, InMappedBars
<1>4. CommonFound' /\ IsrFound'
    BY DEF SetUpInv, CommonFound, IsrFound, Within
<1>5. NotifyFound' /\ DeviceFound'
    BY DEF SetUpInv, NotifyFound, DeviceFound, What
<1>6. KicksFound'
    BY DEF SetUpInv, KicksFound, KickRight, What, NotifyOffset, Fits, Within
<1> QED
    BY <1>1, <1>2, <1>3, <1>4, <1>5, <1>6 DEF SetUpInv

NothingFound ==
    NoPointers \in [Structures -> Region] /\ NoPriv \in [Queues -> Region]

LEMMA NothingFoundTypes == NothingFound
    BY DEF NothingFound, NoPointers, NoPriv, Null, Region

LEMMA SetUpStart == Init => SetUpInv
<1> SUFFICES ASSUME Init
             PROVE  SetUpInv
    OBVIOUS
<1>1. TypeInv
  <2>1. NoBars \in [Bars -> Bar]
      BY DEF NoBars, Bar
  <2>2. NoCapabilities \in [0 .. PCI - 1 -> {0} \cup Slots]
      BY DEF NoCapabilities
  <2>3. [q \in Queues |-> Null] \in [Queues -> Region]
      BY NothingFoundTypes DEF NothingFound, NoPriv
  <2>4. [b \in Bars |-> 0] \in [Bars -> Int]
      OBVIOUS
  <2> QED
      BY <2>1, <2>2, <2>3, <2>4, NothingFoundTypes DEF Init, TypeInv, NothingFound, Steps
<1> QED
    BY <1>1 DEF Init, SetUpInv, Fresh, NotYet, InMappedBars, CommonFound, IsrFound, NotifyFound,
       DeviceFound, KicksFound

LEMMA ResourcesKeepSetUp ==
    ASSUME SetUpInv, NEW read \in BOOLEAN, ResourcesInit(read)
    PROVE  SetUpInv'
<1> USE DEF lifeVars, walkVars, mapVars, configVars
<1>1. pc = "resources" /\ pc' \in {"initialize", "failed"}
    BY DEF ResourcesInit
<1>2. bars' \in [Bars -> Bar]
  <2>1. CASE read
    <3> DEFINE mine(b) == {i \in DOMAIN device.resources : device.resources[i].bar = b}
               new(b) == IF mine(b) = {} THEN NoBars[b]
                         ELSE [size |-> device.resources[Max(mine(b))].len,
                               kind |-> device.resources[Max(mine(b))].kind, va |-> FALSE]
    <3>1. bars' = [b \in Bars |-> new(b)]
        BY <2>1 DEF ResourcesInit
    <3>2. ASSUME NEW b \in Bars
          PROVE  new(b) \in Bar
      <4>1. CASE mine(b) = {}
          BY <4>1 DEF NoBars, Bar
      <4>2. CASE mine(b) # {}
        <5>1. device \in Devices
            BY DEF SetUpInv, TypeInv
        <5>2. Len(device.resources) \in Nat /\ mine(b) \subseteq 0 .. Len(device.resources)
            BY <5>1, DeviceTypes
        <5>3. Max(mine(b)) \in mine(b)
            BY <5>2, <4>2, MaxOfSome
        <5>4. Max(mine(b)) \in DOMAIN device.resources
            BY <5>3
        <5>5. /\ device.resources[Max(mine(b))].len \in Nat
              /\ device.resources[Max(mine(b))].kind \in Kinds
            BY <5>1, <5>4, DeviceTypes
        <5> HIDE DEF mine
        <5> QED
            BY <4>2, <5>5 DEF Bar
      <4> QED
          BY <4>1, <4>2
    <3> HIDE DEF new
    <3> QED
        BY <3>1, <3>2
  <2>2. CASE ~ read
      BY <2>2 DEF ResourcesInit, SetUpInv, TypeInv
  <2> QED
      BY <2>1, <2>2
<1>3. TypeInv'
    BY <1>1, <1>2 DEF ResourcesInit, SetUpInv, TypeInv, Steps
<1>4. Fresh'
    BY <1>1 DEF Fresh
<1> QED
    BY <1>1, <1>3, <1>4, Elsewhere

(* The walk leaves everything alone but pc, offset, iterations, capabilities. *)
LEMMA WalkKeepsSetUp ==
    ASSUME SetUpInv, pc \in {"loop", "vendor", "next"}, pc' \in {"loop", "vendor", "next", "map"},
           pc' = "loop" => offset' \in Pointers /\ iterations' \in Nat,
           pc' \in {"vendor", "next"} => offset' \in Slots,
           capabilities' \in [0 .. PCI - 1 -> {0} \cup Slots], misread' \in BOOLEAN,
           UNCHANGED <<lifeVars, barVars, mapVars>>
    PROVE  SetUpInv'
<1> USE DEF lifeVars, barVars, mapVars
<1>1. TypeInv'
    BY DEF SetUpInv, TypeInv, Steps
<1>2. Fresh'
    BY DEF SetUpInv, Fresh
<1> QED
    BY <1>1, <1>2, Elsewhere

LEMMA ReadOrFail ==
    ASSUME misread \in BOOLEAN, Read \/ Fails
    PROVE  misread' \in BOOLEAN /\ (~ misread' => ~ misread)
    BY DEF Read, Fails

LEMMA NotedTypes ==
    ASSUME capabilities \in [0 .. PCI - 1 -> {0} \cup Slots], offset \in Slots, NEW c \in Contents
    PROVE  Noted(c) \in [0 .. PCI - 1 -> {0} \cup Slots]
<1>1. c.type \in Nat
    BY ContentTypes
<1>2. Usable(c) => c.type \in 0 .. PCI - 1
    BY <1>1 DEF Usable, PCI
<1> QED
    BY <1>2 DEF Noted

LEMMA WalksKeepSetUp ==
    ASSUME SetUpInv, Walks
    PROVE  SetUpInv'
<1> USE DEF configVars
<1>1. device \in Devices /\ misread \in BOOLEAN
      /\ capabilities \in [0 .. PCI - 1 -> {0} \cup Slots]
    BY DEF SetUpInv, TypeInv
<1>2. CASE VirtioDeviceInitialize
  <2>1. misread' \in BOOLEAN
      BY <1>1, <1>2, ReadOrFail DEF VirtioDeviceInitialize
  <2>2. device.first \in Pointers
      BY <1>1, DeviceTypes
  <2>3. pc' = "map" \/ (pc' = "loop" /\ offset' \in Pointers /\ iterations' \in Nat)
      BY <1>2, <2>2, IterationsAssumption DEF VirtioDeviceInitialize, WalkEnds
  <2>4. /\ capabilities' = NoCapabilities /\ at' = NoPointers /\ notifyMapCap' = 0
        /\ priv' = NoPriv /\ UNCHANGED <<device, objects, barVars>>
        /\ pc = "initialize" /\ starts' = starts + 1
      BY <1>2 DEF VirtioDeviceInitialize, NoPriv
  <2>5. capabilities' \in [0 .. PCI - 1 -> {0} \cup Slots]
      BY <2>4 DEF NoCapabilities
  <2>6. TypeInv'
      BY <2>1, <2>3, <2>4, <2>5, NothingFoundTypes
         DEF SetUpInv, TypeInv, NothingFound, Steps, barVars
  <2>7. Fresh'
      BY <2>4 DEF Fresh
  <2> QED
      BY <2>3, <2>4, <2>6, <2>7, Elsewhere
<1>3. CASE LookEnds
  <2>1. misread' \in BOOLEAN
      BY <1>1, <1>3, ReadOrFail DEF LookEnds
  <2> QED
      BY <1>1, <1>3, <2>1, WalkKeepsSetUp DEF LookEnds, WalkEnds
<1>4. ASSUME LookOn \/ LookFinds
      PROVE  SetUpInv'
  <2>1. pc = "loop" /\ iterations > 0 /\ offset >= 64
      BY <1>4 DEF LookOn, LookFinds, MayLook
  <2>2. offset \in Pointers /\ iterations \in Nat
      BY <2>1 DEF SetUpInv, TypeInv
  <2>3. Aligned(offset) \in Slots
      BY <2>1, <2>2, AlignedSlot
  <2>4. Here.next \in Pointers
      BY <1>1, <2>3, DeviceTypes DEF Here
  <2>5. misread' \in BOOLEAN
      BY <1>1, <1>4 DEF LookOn, LookFinds, Read
  <2>6. CASE LookOn
      BY <1>1, <2>1, <2>2, <2>4, <2>5, <2>6, WalkKeepsSetUp DEF LookOn
  <2>7. CASE LookFinds
      BY <1>1, <2>1, <2>3, <2>5, <2>7, WalkKeepsSetUp DEF LookFinds
  <2> QED
      BY <1>4, <2>6, <2>7
<1>5. CASE VendorCapability
  <2>1. pc = "vendor" /\ offset \in Slots
      BY <1>5 DEF VendorCapability, SetUpInv, TypeInv
  <2>2. Aligned(offset) = offset
      BY <2>1, SlotPointer
  <2>3. Here.what \in Contents
      BY <1>1, <2>1, <2>2, DeviceTypes DEF Here
  <2>4. capabilities' \in [0 .. PCI - 1 -> {0} \cup Slots]
      BY <1>1, <1>5, <2>1, <2>3, NotedTypes, GarbageAssumption DEF VendorCapability
  <2>5. misread' \in BOOLEAN
      BY <1>1, <1>5, ReadOrFail DEF VendorCapability
  <2> QED
      BY <1>5, <2>1, <2>4, <2>5, WalkKeepsSetUp DEF VendorCapability
<1>6. CASE NextVendorCapability
  <2>1. pc = "next" /\ offset \in Slots
      BY <1>6 DEF NextVendorCapability, SetUpInv, TypeInv
  <2>2. Aligned(offset) = offset
      BY <2>1, SlotPointer
  <2>3. Here.next \in Pointers
      BY <1>1, <2>1, <2>2, DeviceTypes DEF Here
  <2>4. misread' \in BOOLEAN
      BY <1>1, <1>6, ReadOrFail DEF NextVendorCapability
  <2>5. pc' = "map" \/ (pc' = "loop" /\ offset' \in Pointers /\ iterations' \in Nat)
      BY <1>6, <2>3, IterationsAssumption DEF NextVendorCapability, WalkEnds
  <2> QED
      BY <1>1, <1>6, <2>1, <2>4, <2>5, WalkKeepsSetUp DEF NextVendorCapability
<1> QED
    BY <1>2, <1>3, <1>4, <1>5, <1>6 DEF Walks

(* A structure that cannot be mapped.                                       *)
LEMMA GivesUpKeepsSetUp ==
    ASSUME SetUpInv, pc' \in {"wild", "failed", "legacy"}, BarsKept, misread' \in BOOLEAN,
           UNCHANGED <<lifeVars, walkVars, mapVars>>
    PROVE  SetUpInv'
<1> USE DEF lifeVars, walkVars, mapVars
<1>1. TypeInv'
    BY DEF SetUpInv, TypeInv, Steps, BarsKept
<1>2. Fresh'
    BY DEF Fresh
<1> QED
    BY <1>1, <1>2, Elsewhere

(* One that is mapped, after the first of them.                              *)
LEMMA MappedStays ==
    ASSUME SetUpInv, BarsKept, NEW s \in Structures, NEW r \in Region,
           r.bar \in Bars, bars'[r.bar].va, at' = [at EXCEPT ![s] = r],
           \A t \in Structures : at[t] # Null => at[t].bar \in Bars /\ bars[at[t].bar].va
    PROVE  InMappedBars'
<1>1. at \in [Structures -> Region]
    BY DEF SetUpInv, TypeInv
<1>2. ASSUME NEW t \in Structures, at'[t] # Null
      PROVE  at'[t].bar \in Bars /\ bars'[at'[t].bar].va
  <2>1. CASE t = s
      BY <1>1, <2>1
  <2>2. CASE t # s
      BY <1>1, <1>2, <2>2 DEF BarsKept
  <2> QED
      BY <2>1, <2>2
<1> QED
    BY <1>2 DEF InMappedBars

LEMMA WithinStays ==
    ASSUME BarsKept, NEW r, r.bar \in Bars, r.offset + r.len <= bars[r.bar].size
    PROVE  r.offset + r.len <= bars'[r.bar].size
    BY DEF BarsKept

LEMMA CommonKeepsSetUp ==
    ASSUME SetUpInv, NEW mapped \in BOOLEAN, MapCommon(mapped)
    PROVE  SetUpInv'
<1> USE DEF lifeVars, walkVars, configVars
<1>1. /\ pc = "map" /\ capabilities[COMMON] # 0
      /\ UNCHANGED <<lifeVars, walkVars, configVars>>
    BY DEF MapCommon, Mapping
<1>2. /\ device \in Devices /\ misread \in BOOLEAN
      /\ bars \in [Bars -> Bar] /\ mappings \in [Bars -> Int]
      /\ capabilities \in [0 .. PCI - 1 -> {0} \cup Slots]
      /\ at = NoPointers /\ priv = NoPriv
    BY <1>1 DEF SetUpInv, TypeInv, Fresh
<1>3. CASE 0 \in {capabilities[ISR], capabilities[NOTIFY]}
  <2>1. pc' = "failed" /\ UNCHANGED <<barVars, mapVars, misread>>
      BY <1>3 DEF MapCommon
  <2> QED
      BY <1>1, <1>2, <2>1, SameBarsKept, GivesUpKeepsSetUp
<1>4. CASE 0 \notin {capabilities[ISR], capabilities[NOTIFY]}
  <2>1. PICK c \in ReadsOf(capabilities[COMMON]) :
           /\ Notice(capabilities[COMMON], {c})
           /\ MapFrom(c, MapCapability(c, CommonSize, 4, 0, CommonSize), mapped,
                      Store(COMMON, "isr", MapCapability(c, CommonSize, 4, 0, CommonSize)))
      BY <1>4 DEF MapCommon
  <2>2. PICK r : r = MapCapability(c, CommonSize, 4, 0, CommonSize)
      OBVIOUS
  <2>3. capabilities[COMMON] \in Slots /\ c \in Contents
    <3>1. capabilities[COMMON] \in Slots
        BY <1>1, <1>2 DEF COMMON, PCI
    <3> QED
        BY <1>2, <2>1, <3>1, ReadTypes
  <2>4. misread' \in BOOLEAN
      BY <1>2, <2>1, ReadNoticed
  <2>5. MapEnds(c, r, Store(COMMON, "isr", r))
      BY <1>2, <2>1, <2>2, MapFromEnds
  <2>6. CASE pc' \in {"wild", "failed"} /\ UNCHANGED mapVars
      BY <1>1, <2>4, <2>5, <2>6, GivesUpKeepsSetUp DEF MapEnds
  <2>7. CASE c.bar \in Bars /\ r # Null /\ bars'[c.bar].va /\ Store(COMMON, "isr", r)
    <3>1. /\ r \in Region /\ r.bar = c.bar /\ r.len = 56
          /\ r.offset + 56 <= bars[c.bar].size
      <4>1. c.length \in Nat /\ CommonSize = 56
          BY <2>3, ContentTypes DEF CommonSize
      <4>2. /\ r \in Region /\ r.bar = c.bar
            /\ r.len = (IF c.length - 0 <= CommonSize THEN c.length - 0 ELSE CommonSize)
            /\ 0 + CommonSize <= c.length
            /\ r.offset + CommonSize <= bars[c.bar].size
          BY <1>2, <2>2, <2>3, <2>7, <4>1, MapResult
      <4> QED
          BY <4>1, <4>2
    <3>2. pc' = "isr" /\ at' = [at EXCEPT ![COMMON] = r] /\ UNCHANGED <<notifyMapCap, priv>>
        BY <2>7 DEF Store
    <3>3. BarsKept
        BY <2>5 DEF MapEnds
    <3>4. at \in [Structures -> Region] /\ COMMON \in Structures
        BY DEF SetUpInv, TypeInv, Structures
    <3>5. at'[COMMON] = r /\ at'[NOTIFY] = Null /\ at'[DEVICE] = Null
        BY <1>2, <3>2, <3>4 DEF NoPointers, Structures, COMMON, NOTIFY, DEVICE
    <3>6. at' \in [Structures -> Region]
        BY <3>1, <3>2, <3>4
    <3>7. TypeInv'
        BY <1>1, <1>2, <1>4, <2>4, <3>2, <3>3, <3>6 DEF SetUpInv, TypeInv, Steps, BarsKept
    <3>8. InMappedBars'
      <4>1. \A t \in Structures : at[t] # Null => at[t].bar \in Bars /\ bars[at[t].bar].va
          BY <1>2 DEF NoPointers
      <4> QED
          BY <2>7, <3>1, <3>2, <3>3, <3>4, <4>1, MappedStays
    <3>9. CommonFound'
      <4>1. r # Null /\ r.bar \in Bars /\ r.offset + r.len <= bars[r.bar].size
          BY <2>7, <3>1
      <4>2. r.offset + r.len <= bars'[r.bar].size
          BY <3>3, <4>1, WithinStays
      <4> QED
          BY <3>5, <4>1, <4>2 DEF CommonFound, Within
    <3>10. Fresh' /\ IsrFound' /\ NotifyFound' /\ DeviceFound' /\ KicksFound'
        BY <3>2 DEF Fresh, IsrFound, NotifyFound, DeviceFound, KicksFound
    <3>11. NotYet'
        BY <1>2, <3>2, <3>5 DEF NotYet
    <3> QED
        BY <3>7, <3>8, <3>9, <3>10, <3>11 DEF SetUpInv
  <2> QED
      BY <2>5, <2>6, <2>7 DEF MapEnds
<1> QED
    BY <1>3, <1>4

(* What was found stays what it is, for the later steps.                     *)
LEMMA CommonStays ==
    ASSUME SetUpInv, BarsKept, at'[COMMON] = at[COMMON], misread' \in BOOLEAN,
           ~ misread' => ~ misread, pc \in {"isr", "notify", "config", "queues", "ready"}
    PROVE  CommonFound'
<1> SUFFICES ASSUME ~ misread'
             PROVE  at'[COMMON] # Null /\ Within(at[COMMON])'
    BY DEF CommonFound
<1>1. at[COMMON] # Null /\ Within(at[COMMON])
    BY DEF SetUpInv, CommonFound
<1>2. at[COMMON].bar \in Bars
    BY <1>1 DEF SetUpInv, InMappedBars, Structures
<1> QED
    BY <1>1, <1>2, WithinStays DEF Within

LEMMA IsrStays ==
    ASSUME SetUpInv, BarsKept, at'[ISR] = at[ISR], misread' \in BOOLEAN,
           ~ misread' => ~ misread, pc \in {"notify", "config", "queues", "ready"}
    PROVE  IsrFound'
<1> SUFFICES ASSUME ~ misread'
             PROVE  at'[ISR] # Null /\ Within(at[ISR])'
    BY DEF IsrFound
<1>1. at[ISR] # Null /\ Within(at[ISR])
    BY DEF SetUpInv, IsrFound
<1>2. at[ISR].bar \in Bars
    BY <1>1 DEF SetUpInv, InMappedBars, Structures
<1> QED
    BY <1>1, <1>2, WithinStays DEF Within

LEMMA NotifyStays ==
    ASSUME SetUpInv, at'[NOTIFY] = at[NOTIFY], UNCHANGED <<device, capabilities>>,
           ~ misread' => ~ misread, pc \in {"config", "queues", "ready"}
    PROVE  NotifyFound'
    BY DEF SetUpInv, NotifyFound, What

LEMMA DeviceStays ==
    ASSUME SetUpInv, at'[DEVICE] = at[DEVICE], UNCHANGED <<device, capabilities>>,
           ~ misread' => ~ misread, pc \in {"queues", "ready"}
    PROVE  DeviceFound'
    BY DEF SetUpInv, DeviceFound, What

LEMMA IsrKeepsSetUp ==
    ASSUME SetUpInv, NEW mapped \in BOOLEAN, MapIsr(mapped)
    PROVE  SetUpInv'
<1> USE DEF lifeVars, walkVars, configVars
<1>1. pc = "isr" /\ UNCHANGED <<lifeVars, walkVars, configVars>>
    BY DEF MapIsr, Mapping
<1>2. /\ device \in Devices /\ misread \in BOOLEAN
      /\ bars \in [Bars -> Bar] /\ mappings \in [Bars -> Int]
      /\ capabilities \in [0 .. PCI - 1 -> {0} \cup Slots]
      /\ capabilities[ISR] # 0
      /\ at[NOTIFY] = Null /\ at[DEVICE] = Null /\ priv = NoPriv
    BY <1>1 DEF SetUpInv, TypeInv, NotYet
<1>3. PICK c \in ReadsOf(capabilities[ISR]) :
         /\ Notice(capabilities[ISR], {c})
         /\ MapFrom(c, MapCapability(c, 1, 1, 0, 1), mapped,
                    Store(ISR, "notify", MapCapability(c, 1, 1, 0, 1)))
    BY DEF MapIsr
<1>4. PICK r : r = MapCapability(c, 1, 1, 0, 1)
    OBVIOUS
<1>5. c \in Contents
  <2>1. capabilities[ISR] \in Slots
      BY <1>2 DEF ISR, PCI
  <2> QED
      BY <1>2, <1>3, <2>1, ReadTypes
<1>6. misread' \in BOOLEAN /\ (~ misread' => ~ misread)
    BY <1>2, <1>3, ReadNoticed
<1>7. MapEnds(c, r, Store(ISR, "notify", r))
    BY <1>2, <1>3, <1>4, MapFromEnds
<1>8. CASE pc' \in {"wild", "failed"} /\ UNCHANGED mapVars
    BY <1>1, <1>6, <1>7, <1>8, GivesUpKeepsSetUp DEF MapEnds
<1>9. CASE c.bar \in Bars /\ r # Null /\ bars'[c.bar].va /\ Store(ISR, "notify", r)
  <2>1. /\ r \in Region /\ r.bar = c.bar /\ r.len = 1
        /\ r.offset + 1 <= bars[c.bar].size
    <3>1. c.length \in Nat
        BY <1>5, ContentTypes
    <3>2. /\ r \in Region /\ r.bar = c.bar
          /\ r.len = (IF c.length - 0 <= 1 THEN c.length - 0 ELSE 1)
          /\ 0 + 1 <= c.length
          /\ r.offset + 1 <= bars[c.bar].size
        BY <1>2, <1>4, <1>5, <1>9, MapResult
    <3> QED
        BY <3>1, <3>2
  <2>2. pc' = "notify" /\ at' = [at EXCEPT ![ISR] = r] /\ UNCHANGED <<notifyMapCap, priv>>
      BY <1>9 DEF Store
  <2>3. BarsKept
      BY <1>7 DEF MapEnds
  <2>4. at \in [Structures -> Region] /\ ISR \in Structures
      BY DEF SetUpInv, TypeInv, Structures
  <2>5. /\ at'[ISR] = r /\ at'[COMMON] = at[COMMON]
        /\ at'[NOTIFY] = Null /\ at'[DEVICE] = Null
      BY <1>2, <2>2, <2>4 DEF Structures, COMMON, NOTIFY, DEVICE, ISR
  <2>6. at' \in [Structures -> Region]
      BY <2>1, <2>2, <2>4
  <2>7. TypeInv'
      BY <1>1, <1>2, <1>6, <2>2, <2>3, <2>6 DEF SetUpInv, TypeInv, Steps, BarsKept
  <2>8. InMappedBars'
    <3>1. \A t \in Structures : at[t] # Null => at[t].bar \in Bars /\ bars[at[t].bar].va
        BY <1>1 DEF SetUpInv, InMappedBars
    <3> QED
        BY <1>9, <2>1, <2>2, <2>3, <2>4, <3>1, MappedStays
  <2>9. CommonFound'
      BY <1>1, <1>6, <2>3, <2>5, CommonStays
  <2>10. IsrFound'
    <3>1. r # Null /\ r.bar \in Bars /\ r.offset + r.len <= bars[r.bar].size
        BY <1>9, <2>1
    <3>2. r.offset + r.len <= bars'[r.bar].size
        BY <2>3, <3>1, WithinStays
    <3> QED
        BY <2>5, <3>1, <3>2 DEF IsrFound, Within
  <2>11. Fresh' /\ NotifyFound' /\ DeviceFound' /\ KicksFound'
      BY <2>2 DEF Fresh, NotifyFound, DeviceFound, KicksFound
  <2>12. NotYet'
      BY <1>2, <2>2, <2>5 DEF NotYet
  <2> QED
      BY <2>7, <2>8, <2>9, <2>10, <2>11, <2>12 DEF SetUpInv
<1> QED
    BY <1>7, <1>8, <1>9 DEF MapEnds

LEMMA NotifyKeepsSetUp ==
    ASSUME SetUpInv, NEW mapped \in BOOLEAN, MapNotify(mapped)
    PROVE  SetUpInv'
<1> USE DEF lifeVars, walkVars, configVars
<1>1. pc = "notify" /\ UNCHANGED <<lifeVars, walkVars, configVars>>
    BY DEF MapNotify, Mapping
<1>2. /\ device \in Devices /\ misread \in BOOLEAN
      /\ bars \in [Bars -> Bar] /\ mappings \in [Bars -> Int]
      /\ capabilities \in [0 .. PCI - 1 -> {0} \cup Slots]
      /\ capabilities[NOTIFY] # 0
      /\ at[NOTIFY] = Null /\ at[DEVICE] = Null /\ priv = NoPriv
    BY <1>1 DEF SetUpInv, TypeInv, NotYet
<1>3. PICK first \in ReadsOf(capabilities[NOTIFY]), c \in ReadsOf(capabilities[NOTIFY]) :
         IF (first.length + (first.offset % PageSize)) % Word <= PageSize
         THEN /\ Notice(capabilities[NOTIFY], {first, c})
              /\ MapFrom(c, MapCapability(c, 2, 2, 0, first.length), mapped,
                         Store(NOTIFY, "config", MapCapability(c, 2, 2, 0, first.length)))
         ELSE /\ Notice(capabilities[NOTIFY], {first})
              /\ notifyMapCap' = capabilities[NOTIFY]
              /\ pc' = "config"
              /\ UNCHANGED <<barVars, at, priv>>
    BY DEF MapNotify
<1>4. capabilities[NOTIFY] \in Slots
    BY <1>2 DEF NOTIFY, PCI
<1>5. first \in Contents /\ c \in Contents
    BY <1>2, <1>3, <1>4, ReadTypes
<1>6. misread' \in BOOLEAN /\ (~ misread' => ~ misread)
    BY <1>2, <1>3, ReadNoticed
<1>7. CASE (first.length + (first.offset % PageSize)) % Word <= PageSize
  <2>1. PICK r : r = MapCapability(c, 2, 2, 0, first.length)
      OBVIOUS
  <2>2. MapEnds(c, r, Store(NOTIFY, "config", r))
      BY <1>2, <1>3, <1>7, <2>1, MapFromEnds
  <2>3. CASE pc' \in {"wild", "failed"} /\ UNCHANGED mapVars
      BY <1>1, <1>6, <2>2, <2>3, GivesUpKeepsSetUp DEF MapEnds
  <2>4. CASE c.bar \in Bars /\ r # Null /\ bars'[c.bar].va /\ Store(NOTIFY, "config", r)
    <3>1. /\ r \in Region /\ r.bar = c.bar /\ r.offset = c.offset
          /\ first = c => r.len = c.length
      <4>1. c.length \in Nat /\ first.length \in Nat /\ (c.offset + 0) % Word = c.offset
          BY <1>5, ContentTypes
      <4>2. /\ r \in Region /\ r.bar = c.bar /\ r.offset = (c.offset + 0) % Word
            /\ r.len = (IF c.length - 0 <= first.length THEN c.length - 0 ELSE first.length)
          BY <1>2, <1>5, <2>1, <2>4, <4>1, MapResult
      <4> QED
          BY <4>1, <4>2
    <3>2. pc' = "config" /\ at' = [at EXCEPT ![NOTIFY] = r] /\ UNCHANGED <<notifyMapCap, priv>>
        BY <2>4 DEF Store
    <3>3. BarsKept
        BY <2>2 DEF MapEnds
    <3>4. at \in [Structures -> Region] /\ NOTIFY \in Structures
        BY DEF SetUpInv, TypeInv, Structures
    <3>5. /\ at'[NOTIFY] = r /\ at'[COMMON] = at[COMMON] /\ at'[ISR] = at[ISR]
          /\ at'[DEVICE] = Null
        BY <1>2, <3>2, <3>4 DEF Structures, COMMON, NOTIFY, DEVICE, ISR
    <3>6. at' \in [Structures -> Region]
        BY <3>1, <3>2, <3>4
    <3>7. TypeInv'
        BY <1>1, <1>2, <1>6, <2>4, <3>2, <3>3, <3>5, <3>6
           DEF SetUpInv, TypeInv, Steps, BarsKept
    <3>8. InMappedBars'
      <4>1. \A t \in Structures : at[t] # Null => at[t].bar \in Bars /\ bars[at[t].bar].va
          BY <1>1 DEF SetUpInv, InMappedBars
      <4> QED
          BY <2>4, <3>1, <3>2, <3>3, <3>4, <4>1, MappedStays
    <3>9. CommonFound' /\ IsrFound'
        BY <1>1, <1>6, <3>3, <3>5, CommonStays, IsrStays
    <3>10. NotifyFound'
      <4>1. ~ misread' => first = device.caps[capabilities[NOTIFY]].what
                         /\ c = device.caps[capabilities[NOTIFY]].what
        <5>1. ~ misread' => {first, c} = {device.caps[capabilities[NOTIFY]].what}
            BY <1>2, <1>3, <1>7, ReadNoticed
        <5> QED
            BY <5>1
      <4>2. UNCHANGED <<device, capabilities>>
          BY <1>1
      <4> QED
          BY <3>1, <3>5, <4>1, <4>2 DEF NotifyFound, What
    <3>11. Fresh' /\ DeviceFound' /\ KicksFound'
        BY <3>2 DEF Fresh, DeviceFound, KicksFound
    <3>12. NotYet'
        BY <1>2, <3>2, <3>5 DEF NotYet
    <3> QED
        BY <3>7, <3>8, <3>9, <3>10, <3>11, <3>12 DEF SetUpInv
  <2> QED
      BY <2>2, <2>3, <2>4 DEF MapEnds
<1>8. CASE ~ ((first.length + (first.offset % PageSize)) % Word <= PageSize)
  <2>1. /\ notifyMapCap' = capabilities[NOTIFY] /\ pc' = "config"
        /\ UNCHANGED <<barVars, at, priv>>
      BY <1>3, <1>8
  <2>2. BarsKept
      BY <1>2, <2>1, SameBarsKept
  <2>3. TypeInv'
      BY <1>1, <1>2, <1>4, <1>6, <2>1, <2>2 DEF SetUpInv, TypeInv, Steps, BarsKept
  <2>4. InMappedBars'
      BY <1>1, <2>1, <2>2 DEF SetUpInv, InMappedBars, BarsKept
  <2>5. CommonFound' /\ IsrFound'
      BY <1>1, <1>6, <2>1, <2>2, CommonStays, IsrStays
  <2>6. Fresh' /\ NotifyFound' /\ DeviceFound' /\ KicksFound' /\ NotYet'
      BY <1>2, <2>1 DEF Fresh, NotifyFound, DeviceFound, KicksFound, NotYet
  <2> QED
      BY <2>3, <2>4, <2>5, <2>6 DEF SetUpInv
<1> QED
    BY <1>7, <1>8

LEMMA ConfigKeepsSetUp ==
    ASSUME SetUpInv, NEW mapped \in BOOLEAN, MapConfig(mapped)
    PROVE  SetUpInv'
<1> USE DEF lifeVars, walkVars, configVars
<1>1. pc = "config" /\ UNCHANGED <<lifeVars, walkVars, configVars>>
    BY DEF MapConfig, Mapping
<1>2. /\ device \in Devices /\ misread \in BOOLEAN
      /\ bars \in [Bars -> Bar] /\ mappings \in [Bars -> Int]
      /\ capabilities \in [0 .. PCI - 1 -> {0} \cup Slots]
      /\ at[DEVICE] = Null /\ priv = NoPriv
    BY <1>1 DEF SetUpInv, TypeInv, NotYet
<1>3. priv[1] = Null /\ priv[2] = Null
    BY <1>2 DEF NoPriv, Queues
<1>4. CASE capabilities[DEVICE] = 0
  <2>1. pc' = "queues" /\ UNCHANGED <<barVars, mapVars, misread>>
      BY <1>4 DEF MapConfig
  <2>2. UNCHANGED <<at, notifyMapCap, priv>> /\ BarsKept
      BY <1>2, <2>1, SameBarsKept DEF mapVars
  <2>3. TypeInv'
      BY <1>1, <2>1, <2>2 DEF SetUpInv, TypeInv, Steps, BarsKept
  <2>4. InMappedBars'
      BY <1>1, <2>1, <2>2 DEF SetUpInv, InMappedBars, BarsKept
  <2>5. CommonFound' /\ IsrFound' /\ NotifyFound'
      BY <1>1, <1>2, <2>1, <2>2, CommonStays, IsrStays, NotifyStays
  <2>6. Fresh' /\ DeviceFound' /\ KicksFound' /\ NotYet'
      BY <1>2, <1>3, <2>1, <2>2, QueueNumbers
         DEF Fresh, DeviceFound, KicksFound, NotYet, NoPriv
  <2> QED
      BY <2>3, <2>4, <2>5, <2>6 DEF SetUpInv
<1>5. CASE capabilities[DEVICE] # 0
  <2>1. PICK c \in ReadsOf(capabilities[DEVICE]) :
           /\ Notice(capabilities[DEVICE], {c})
           /\ MapFrom(c, MapCapability(c, 0, 4, 0, PageSize), mapped,
                      Store(DEVICE, "queues", MapCapability(c, 0, 4, 0, PageSize)))
      BY <1>5 DEF MapConfig
  <2>2. PICK r : r = MapCapability(c, 0, 4, 0, PageSize)
      OBVIOUS
  <2>3. c \in Contents
    <3>1. capabilities[DEVICE] \in Slots
        BY <1>2, <1>5 DEF DEVICE, PCI
    <3> QED
        BY <1>2, <2>1, <3>1, ReadTypes
  <2>4. misread' \in BOOLEAN
        /\ (~ misread' => ~ misread /\ c = device.caps[capabilities[DEVICE]].what)
    <3>1. misread' \in BOOLEAN
          /\ (~ misread' => ~ misread /\ {c} = {device.caps[capabilities[DEVICE]].what})
        BY <1>2, <2>1, ReadNoticed
    <3> QED
        BY <3>1
  <2>5. MapEnds(c, r, Store(DEVICE, "queues", r))
      BY <1>2, <2>1, <2>2, MapFromEnds
  <2>6. CASE pc' \in {"wild", "failed"} /\ UNCHANGED mapVars
      BY <1>1, <2>4, <2>5, <2>6, GivesUpKeepsSetUp DEF MapEnds
  <2>7. CASE c.bar \in Bars /\ r # Null /\ bars'[c.bar].va /\ Store(DEVICE, "queues", r)
    <3>1. r \in Region /\ r.bar = c.bar /\ r.offset = c.offset /\ r.len <= c.length
      <4>1. c.length \in Nat /\ PageSize \in Nat /\ (c.offset + 0) % Word = c.offset
          BY <2>3, ContentTypes DEF PageSize
      <4>2. /\ r \in Region /\ r.bar = c.bar /\ r.offset = (c.offset + 0) % Word
            /\ r.len = (IF c.length - 0 <= PageSize THEN c.length - 0 ELSE PageSize)
          BY <1>2, <2>2, <2>3, <2>7, <4>1, MapResult
      <4> QED
          BY <4>1, <4>2
    <3>2. pc' = "queues" /\ at' = [at EXCEPT ![DEVICE] = r] /\ UNCHANGED <<notifyMapCap, priv>>
        BY <2>7 DEF Store
    <3>3. BarsKept
        BY <2>5 DEF MapEnds
    <3>4. at \in [Structures -> Region] /\ DEVICE \in Structures
        BY DEF SetUpInv, TypeInv, Structures
    <3>5. /\ at'[DEVICE] = r /\ at'[COMMON] = at[COMMON] /\ at'[ISR] = at[ISR]
          /\ at'[NOTIFY] = at[NOTIFY]
        BY <3>2, <3>4 DEF Structures, COMMON, NOTIFY, DEVICE, ISR
    <3>6. at' \in [Structures -> Region]
        BY <3>1, <3>2, <3>4
    <3>7. TypeInv'
        BY <1>1, <1>2, <2>4, <3>2, <3>3, <3>5, <3>6 DEF SetUpInv, TypeInv, Steps, BarsKept
    <3>8. InMappedBars'
      <4>1. \A t \in Structures : at[t] # Null => at[t].bar \in Bars /\ bars[at[t].bar].va
          BY <1>1 DEF SetUpInv, InMappedBars
      <4> QED
          BY <2>7, <3>1, <3>2, <3>3, <3>4, <4>1, MappedStays
    <3>9. CommonFound' /\ IsrFound' /\ NotifyFound'
        BY <1>1, <2>4, <3>3, <3>5, CommonStays, IsrStays, NotifyStays
    <3>10. DeviceFound'
      <4>1. UNCHANGED <<device, capabilities>>
          BY <1>1
      <4> QED
          BY <1>5, <2>4, <3>1, <3>5, <4>1 DEF DeviceFound, What
    <3>11. Fresh' /\ KicksFound' /\ NotYet'
        BY <1>2, <1>3, <3>2, QueueNumbers DEF Fresh, KicksFound, NotYet, NoPriv
    <3> QED
        BY <3>7, <3>8, <3>9, <3>10, <3>11 DEF SetUpInv
  <2> QED
      BY <2>5, <2>6, <2>7 DEF MapEnds
<1> QED
    BY <1>4, <1>5

(* The queues are set up one after the other.                                *)
LEMMA QueueTurn ==
    ASSUME SetUpInv, pc = "queues", NEW q \in Queues,
           q = Min({p \in Queues : priv[p] = Null})
    PROVE  priv[q] = Null /\ (q = 1 \/ (q = 2 /\ priv[1] # Null))
           /\ QueuesDone(q) = IF q = 2 THEN "ready" ELSE "queues"
<1>1. priv[2] = Null
    BY DEF SetUpInv, NotYet
<1>2. QueuesDone(q) = IF q = 2 THEN "ready" ELSE "queues"
    BY QueueNumbers DEF QueuesDone
<1>3. CASE priv[1] = Null
  <2>1. {p \in Queues : priv[p] = Null} = {1, 2}
      BY <1>1, <1>3, QueueNumbers
  <2> QED
      BY <1>2, <1>3, <2>1, QueueNumbers
<1>4. CASE priv[1] # Null
  <2>1. {p \in Queues : priv[p] = Null} = {2}
      BY <1>1, <1>4, QueueNumbers
  <2> QED
      BY <1>1, <1>2, <1>4, <2>1, QueueNumbers
<1> QED
    BY <1>3, <1>4

(* A queue whose word was found, while the other one's stays.                *)
LEMMA PrivStored ==
    ASSUME SetUpInv, pc = "queues", BarsKept, UNCHANGED <<lifeVars, walkVars, at, notifyMapCap>>,
           misread' \in BOOLEAN, ~ misread' => ~ misread,
           NEW q \in Queues, q = Min({p \in Queues : priv[p] = Null}),
           NEW r \in Region, r # Null, priv' = [priv EXCEPT ![q] = r], pc' = QueuesDone(q),
           ~ misread' => KickRight(q)'
    PROVE  SetUpInv'
<1> USE DEF lifeVars, walkVars
<1>1. /\ priv[q] = Null /\ (q = 1 \/ (q = 2 /\ priv[1] # Null))
      /\ QueuesDone(q) = IF q = 2 THEN "ready" ELSE "queues"
    BY QueueTurn
<1>2. pc' \in {"queues", "ready"}
    BY <1>1
<1>3. priv \in [Queues -> Region]
    BY DEF SetUpInv, TypeInv
<1>4. priv' \in [Queues -> Region] /\ priv'[q] = r /\ \A p \in Queues \ {q} : priv'[p] = priv[p]
    BY <1>3
<1>5. TypeInv'
    BY <1>2, <1>4 DEF SetUpInv, TypeInv, Steps, BarsKept
<1>6. InMappedBars'
    BY <1>2 DEF SetUpInv, InMappedBars, BarsKept
<1>7. CommonFound' /\ IsrFound' /\ NotifyFound' /\ DeviceFound'
  <2>1. NotifyFound'
      BY <1>2 DEF SetUpInv, NotifyFound, What
  <2>2. DeviceFound'
    <3>1. CASE ~ misread' /\ at[DEVICE] # Null
        BY <1>2, <3>1 DEF SetUpInv, DeviceFound, What
    <3>2. CASE misread' \/ at[DEVICE] = Null
        BY <3>2 DEF DeviceFound
    <3> QED
        BY <3>1, <3>2
  <2> QED
      BY <2>1, <2>2, CommonStays, IsrStays
<1>8. Fresh'
    BY <1>2 DEF Fresh
<1>9. NotYet'
  <2>1. priv[2] = Null
      BY DEF SetUpInv, NotYet
  <2>2. CASE q = 1
      BY <1>1, <1>4, <2>1, <2>2, QueueNumbers DEF NotYet
  <2>3. CASE q = 2
      BY <1>1, <1>4, <2>3, QueueNumbers DEF NotYet
  <2> QED
      BY <1>1, <2>2, <2>3
<1>10. KicksFound'
  <2> SUFFICES ASSUME ~ misread', NEW p \in Queues, priv'[p] # Null
               PROVE  KickRight(p)'
      BY DEF KicksFound
  <2>1. CASE p = q
      BY <2>1
  <2>2. CASE p # q
    <3>1. priv'[p] = priv[p] /\ KickRight(p)
        BY <1>4, <2>2 DEF SetUpInv, KicksFound
    <3>2. What(NOTIFY)' = What(NOTIFY) /\ NotifyOffset(p)' = NotifyOffset(p)
          /\ at'[NOTIFY] = at[NOTIFY] /\ capabilities'[NOTIFY] = capabilities[NOTIFY]
        BY DEF What, NotifyOffset
    <3>3. What(NOTIFY).bar \in Bars /\ priv[p].bar \in Bars
        BY <3>1 DEF KickRight
    <3>4. bars'[What(NOTIFY).bar].size = bars[What(NOTIFY).bar].size
          /\ bars'[priv[p].bar].size = bars[priv[p].bar].size
        BY <3>3 DEF BarsKept
    <3>5. Fits(capabilities[NOTIFY])' = Fits(capabilities[NOTIFY])
        BY <3>2, <3>4 DEF Fits, What
    <3>6. Within(priv[p])' = Within(priv[p])
        BY <3>1, <3>4 DEF Within
    <3> QED
        BY <3>1, <3>2, <3>5, <3>6 DEF KickRight
  <2> QED
      BY <2>1, <2>2
<1> QED
    BY <1>5, <1>6, <1>7, <1>8, <1>9, <1>10 DEF SetUpInv

(* The two addresses of a queue's word.                                      *)
LEMMA RemainderOfSum ==
    ASSUME NEW a \in Nat, NEW b \in Nat, NEW w \in Nat \ {0}, a + b < w
    PROVE  (a + (b % w)) % w = a + b
<1>1. b % w = b
    OBVIOUS
<1>2. (a + b) % w = a + b
    OBVIOUS
<1> QED
    BY <1>1, <1>2

LEMMA SetupKeepsSetUp ==
    ASSUME SetUpInv, NEW q \in Queues, NEW mapped \in BOOLEAN, SetupQueue(q, mapped)
    PROVE  SetUpInv'
<1> USE DEF lifeVars, walkVars, configVars
<1>1. /\ pc = "queues" /\ UNCHANGED <<lifeVars, walkVars, configVars>>
      /\ q = Min({p \in Queues : priv[p] = Null})
    BY DEF SetupQueue, Mapping
<1>2. /\ device \in Devices /\ misread \in BOOLEAN
      /\ bars \in [Bars -> Bar] /\ mappings \in [Bars -> Int]
      /\ capabilities \in [0 .. PCI - 1 -> {0} \cup Slots]
      /\ capabilities[NOTIFY] # 0 /\ at \in [Structures -> Region]
      /\ at[NOTIFY] = Null => notifyMapCap = capabilities[NOTIFY]
      /\ priv \in [Queues -> Region]
    BY <1>1 DEF SetUpInv, TypeInv
<1>3. NotifyOffset(q) \in Nat
    BY <1>2, NotifyOffsetType
<1>4. /\ capabilities[NOTIFY] \in Slots /\ What(NOTIFY) \in Contents
      /\ What(NOTIFY).offset \in Nat /\ What(NOTIFY).length \in Nat
  <2>1. capabilities[NOTIFY] \in Slots
      BY <1>2 DEF NOTIFY, PCI
  <2>2. What(NOTIFY) \in Contents
      BY <1>2, <2>1, DeviceTypes DEF What
  <2> QED
      BY <2>1, <2>2, ContentTypes
<1>5. What(NOTIFY)' = What(NOTIFY) /\ NotifyOffset(q)' = NotifyOffset(q)
      /\ capabilities'[NOTIFY] = capabilities[NOTIFY]
    BY <1>1 DEF What, NotifyOffset
<1>6. CASE at[NOTIFY] # Null
  <2>1. PICK r : r = [bar |-> at[NOTIFY].bar,
                     offset |-> at[NOTIFY].offset + NotifyOffset(q), len |-> 2]
      OBVIOUS
  <2>2. /\ at[NOTIFY] \in Region /\ at[NOTIFY].bar \in Bars
    <3>1. NOTIFY \in Structures
        BY DEF Structures
    <3> QED
        BY <1>1, <1>2, <1>6, <3>1 DEF SetUpInv, InMappedBars
  <2>3. /\ r \in Region /\ r.bar = at[NOTIFY].bar
        /\ r.offset = at[NOTIFY].offset + NotifyOffset(q) /\ r.len = 2
      BY <1>3, <2>1, <2>2 DEF Region
  <2>4. UNCHANGED <<barVars, misread>>
      BY <1>6 DEF SetupQueue
  <2>5. BarsKept
      BY <1>2, <2>4, SameBarsKept
  <2>6. CASE KickFits(NotifyOffset(q))
    <3>1. priv' = [priv EXCEPT ![q] = r] /\ pc' = QueuesDone(q) /\ UNCHANGED <<at, notifyMapCap>>
        BY <1>6, <2>1, <2>6 DEF SetupQueue, StorePriv
    <3>2. r # Null
        BY <2>2, <2>3, BarsAssumption DEF Null, NoBar
    <3>3. ASSUME ~ misread'
          PROVE  KickRight(q)'
      <4>1. ~ misread
          BY <2>4, <3>3
      <4>2. /\ at[NOTIFY].bar = What(NOTIFY).bar
            /\ at[NOTIFY].offset = What(NOTIFY).offset
            /\ at[NOTIFY].len = What(NOTIFY).length
          BY <1>1, <1>6, <4>1 DEF SetUpInv, NotifyFound
      <4>3. priv'[q] = r
          BY <1>2, <3>1
      <4>4. NotifyOffset(q) + 2 <= What(NOTIFY).length
          BY <2>6, <4>2 DEF KickFits
      <4>5. at'[NOTIFY] # Null
          BY <1>6, <3>1
      <4>6. Fits(capabilities[NOTIFY])' => Within(priv[q])'
        <5>1. bars' = bars
            BY <2>4 DEF barVars
        <5>2. bars[What(NOTIFY).bar].size \in Nat
          <6>1. bars[What(NOTIFY).bar] \in Bar
              BY <1>2, <2>2, <4>2
          <6> QED
              BY <6>1 DEF Bar
        <5>3. Fits(capabilities[NOTIFY])' =>
                  What(NOTIFY).offset + What(NOTIFY).length <= bars[What(NOTIFY).bar].size
            BY <1>5, <5>1 DEF Fits, What
        <5>4. Within(priv[q])' <=>
                  What(NOTIFY).offset + NotifyOffset(q) + 2 <= bars[What(NOTIFY).bar].size
            BY <2>3, <4>2, <4>3, <5>1 DEF Within
        <5> QED
            BY <1>3, <1>4, <4>4, <5>2, <5>3, <5>4
      <4> QED
          BY <1>5, <2>1, <2>2, <2>3, <4>2, <4>3, <4>5, <4>6 DEF KickRight
    <3> QED
        BY <1>1, <1>2, <2>3, <2>4, <2>5, <3>1, <3>2, <3>3, PrivStored
  <2>7. CASE ~ KickFits(NotifyOffset(q))
    <3>1. pc' = "failed" /\ UNCHANGED mapVars
        BY <1>6, <2>7 DEF SetupQueue
    <3> QED
        BY <1>1, <1>2, <2>4, <2>5, <3>1, GivesUpKeepsSetUp
  <2> QED
      BY <2>6, <2>7
<1>7. CASE at[NOTIFY] = Null
  <2>1. PICK c \in ReadsOf(capabilities[NOTIFY]) :
           /\ Notice(capabilities[NOTIFY], {c})
           /\ MapFrom(c, MapCapability(c, 2, 2, NotifyOffset(q) % Word, 2), mapped,
                      StorePriv(q, QueuesDone(q),
                                MapCapability(c, 2, 2, NotifyOffset(q) % Word, 2)))
      BY <1>2, <1>7 DEF SetupQueue
  <2>2. PICK r : r = MapCapability(c, 2, 2, NotifyOffset(q) % Word, 2)
      OBVIOUS
  <2>3. c \in Contents
      BY <1>2, <1>4, <2>1, ReadTypes
  <2>4. misread' \in BOOLEAN /\ (~ misread' => ~ misread /\ c = What(NOTIFY))
    <3>1. misread' \in BOOLEAN
          /\ (~ misread' => ~ misread /\ {c} = {device.caps[capabilities[NOTIFY]].what})
        BY <1>2, <2>1, ReadNoticed
    <3> QED
        BY <3>1 DEF What
  <2>5. MapEnds(c, r, StorePriv(q, QueuesDone(q), r))
      BY <1>2, <2>1, <2>2, MapFromEnds
  <2>6. CASE pc' \in {"wild", "failed"} /\ UNCHANGED mapVars
      BY <1>1, <2>4, <2>5, <2>6, GivesUpKeepsSetUp DEF MapEnds
  <2>7. CASE /\ c.bar \in Bars /\ r # Null /\ bars'[c.bar].va
             /\ StorePriv(q, QueuesDone(q), r)
    <3>1. NotifyOffset(q) % Word \in Nat
        BY <1>3, WordAssumption
    <3>2. /\ c.offset \in Nat /\ c.length \in Nat
        BY <2>3, ContentTypes
    <3>3. /\ r \in Region /\ r.bar = c.bar
          /\ r.offset = (c.offset + (NotifyOffset(q) % Word)) % Word
          /\ r.len = 2
          /\ r.offset + 2 <= bars[c.bar].size
      <4>1. PICK k \in Nat : k = NotifyOffset(q) % Word
          BY <3>1
      <4>2. r = MapCapability(c, 2, 2, k, 2)
          BY <2>2, <4>1
      <4>3. /\ r \in Region /\ r.bar = c.bar
            /\ r.offset = (c.offset + k) % Word
            /\ r.len = (IF c.length - k <= 2 THEN c.length - k ELSE 2)
            /\ k + 2 <= c.length
            /\ r.offset + 2 <= bars[c.bar].size
          BY <1>2, <2>3, <2>7, <4>2, MapResult
      <4>4. r.len = 2
          BY <3>2, <4>3
      <4> QED
          BY <4>1, <4>3, <4>4
    <3>4. priv' = [priv EXCEPT ![q] = r] /\ pc' = QueuesDone(q) /\ UNCHANGED <<at, notifyMapCap>>
        BY <2>7 DEF StorePriv
    <3>5. BarsKept
        BY <2>5 DEF MapEnds
    <3>6. ASSUME ~ misread'
          PROVE  KickRight(q)'
      <4>1. c = What(NOTIFY)
          BY <2>4, <3>6
      <4>2. priv'[q] = r
          BY <1>2, <3>4
      <4>3. Within(priv[q])'
        <5>1. r.offset + r.len <= bars'[r.bar].size
            BY <2>7, <3>3, <3>5, WithinStays
        <5> QED
            BY <4>2, <5>1 DEF Within
      <4>4. ASSUME What(NOTIFY).offset + NotifyOffset(q) < Word
            PROVE  r = [bar |-> What(NOTIFY).bar,
                        offset |-> What(NOTIFY).offset + NotifyOffset(q), len |-> 2]
        <5>1. r.offset = What(NOTIFY).offset + NotifyOffset(q)
            BY <1>3, <1>4, <3>3, <4>1, <4>4, RemainderOfSum, WordAssumption
        <5>2. r = [bar |-> r.bar, offset |-> r.offset, len |-> r.len]
            BY <3>3 DEF Region
        <5> QED
            BY <3>3, <4>1, <5>1, <5>2
      <4>5. What(NOTIFY).offset' + NotifyOffset(q)' = What(NOTIFY).offset + NotifyOffset(q)
          BY <1>5
      <4> QED
          BY <1>5, <2>7, <3>3, <4>1, <4>2, <4>3, <4>4 DEF KickRight
    <3> QED
        BY <1>1, <2>4, <2>7, <3>3, <3>4, <3>5, <3>6, PrivStored
  <2> QED
      BY <2>5, <2>6, <2>7 DEF MapEnds
<1> QED
    BY <1>6, <1>7

LEMMA LegacyKeepsSetUp ==
    ASSUME SetUpInv, NEW mapped \in BOOLEAN, LegacyInitialize(mapped)
    PROVE  SetUpInv'
<1>1. /\ UNCHANGED <<lifeVars, walkVars, mapVars, misread>>
      /\ pc' \in {"legacy", "failed"}
    BY DEF LegacyInitialize, Mapping
<1>2. /\ bars \in [Bars -> Bar] /\ mappings \in [Bars -> Int] /\ misread \in BOOLEAN
    BY DEF SetUpInv, TypeInv
<1>3. BarsKept
    BY <1>2, BarsAssumption, GetVAKeepsBars, SameBarsKept DEF LegacyInitialize
<1> QED
    BY <1>1, <1>2, <1>3, GivesUpKeepsSetUp

LEMMA LifeKeepsSetUp ==
    ASSUME SetUpInv, PowerCycle \/ DeleteDevice \/ StartDevice
    PROVE  SetUpInv'
<1> USE DEF lifeVars, barVars, walkVars, mapVars
<1>1. pc' \in {"initialize", "none", "resources"}
    BY DEF PowerCycle, DeleteDevice, StartDevice
<1>2. TypeInv'
  <2>1. CASE PowerCycle \/ StartDevice
      BY <2>1 DEF PowerCycle, StartDevice, SetUpInv, TypeInv, Steps
  <2>2. CASE DeleteDevice
    <3>1. bars' \in [Bars -> Bar]
        BY <2>2 DEF DeleteDevice, Unmap, NoBars, Bar
    <3>2. mappings' \in [Bars -> Int]
        BY <2>2 DEF DeleteDevice, Unmap, SetUpInv, TypeInv
    <3>3. at' \in [Structures -> Region] /\ priv' \in [Queues -> Region]
        BY <2>2, NothingFoundTypes DEF DeleteDevice, NothingFound, NoPriv
    <3>4. /\ UNCHANGED <<device, objects, starts, capabilities, misread>>
          /\ notifyMapCap' = 0 /\ pc' = "none"
        BY <2>2 DEF DeleteDevice
    <3> QED
        BY <3>1, <3>2, <3>3, <3>4 DEF SetUpInv, TypeInv, Steps
  <2> QED
      BY <2>1, <2>2
<1>3. Fresh'
    BY <1>1 DEF Fresh
<1> QED
    BY <1>1, <1>2, <1>3, Elsewhere

LEMMA SetUpNext ==
    ASSUME SetUpInv, [Next]_vars
    PROVE  SetUpInv'
<1>1. CASE \E read \in BOOLEAN : ResourcesInit(read)
    BY <1>1, ResourcesKeepSetUp
<1>2. CASE Walks
    BY <1>2, WalksKeepSetUp
<1>3. ASSUME NEW mapped \in BOOLEAN,
             \/ LegacyInitialize(mapped)
             \/ MapCommon(mapped) \/ MapIsr(mapped) \/ MapNotify(mapped) \/ MapConfig(mapped)
             \/ \E q \in Queues : SetupQueue(q, mapped)
      PROVE  SetUpInv'
    BY <1>3, LegacyKeepsSetUp, CommonKeepsSetUp, IsrKeepsSetUp, NotifyKeepsSetUp,
       ConfigKeepsSetUp, SetupKeepsSetUp
<1>4. CASE PowerCycle \/ DeleteDevice \/ StartDevice
    BY <1>4, LifeKeepsSetUp
<1>5. CASE ConfigChanges \/ CreadBegins \/ CreadField \/ CreadEnds \/ CreadReturns
  <2>1. UNCHANGED <<lifeVars, pc, barVars, walkVars, mapVars, misread>>
      BY <1>5 DEF ConfigChanges, CreadBegins, CreadField, CreadEnds, CreadReturns, Reading
  <2> QED
      BY <2>1, StandsStill
<1>6. CASE UNCHANGED vars
    BY <1>6, StandsStill DEF vars
<1> QED
    BY <1>1, <1>2, <1>3, <1>4, <1>5, <1>6 DEF Next, Initializes

LEMMA SetUpKept == Spec => []SetUpInv
    BY SetUpStart, SetUpNext, PTL DEF Spec

(* What the driver reads and writes is inside a BAR that is mapped, as far as *)
(* the driver looks or the device says so, unless a read failed.             *)
THEOREM AccessesCorrect == Spec => []AccessesInside
<1>1. SetUpInv => AccessesInside
  <2> SUFFICES ASSUME SetUpInv, pc = "ready", ~ misread
               PROVE  /\ \A s \in Structures : at[s] # Null => bars[at[s].bar].va
                      /\ Within(at[COMMON]) /\ Within(at[ISR])
                      /\ \A q \in Queues :
                            at[NOTIFY] = Null \/ Fits(capabilities[NOTIFY]) => Within(priv[q])
                      /\ at[DEVICE] # Null /\ Fits(capabilities[DEVICE]) => Within(at[DEVICE])
      BY DEF AccessesInside
  <2>1. \A s \in Structures : at[s] # Null => bars[at[s].bar].va
      BY DEF SetUpInv, InMappedBars
  <2>2. Within(at[COMMON]) /\ Within(at[ISR])
      BY DEF SetUpInv, CommonFound, IsrFound
  <2>3. \A q \in Queues : priv[q] # Null
      BY QueueNumbers DEF SetUpInv, NotYet
  <2>4. \A q \in Queues : KickRight(q)
      BY <2>3 DEF SetUpInv, KicksFound
  <2>5. ASSUME at[DEVICE] # Null, Fits(capabilities[DEVICE])
        PROVE  Within(at[DEVICE])
    <3>1. /\ capabilities[DEVICE] # 0
          /\ at[DEVICE].bar = What(DEVICE).bar
          /\ at[DEVICE].offset = What(DEVICE).offset
          /\ at[DEVICE].len <= What(DEVICE).length
        BY <2>5 DEF SetUpInv, DeviceFound
    <3>2. at[DEVICE] \in Region /\ at[DEVICE].bar \in Bars
        BY <2>5 DEF SetUpInv, TypeInv, InMappedBars, Structures
    <3>3. What(DEVICE) \in Contents
      <4>1. capabilities[DEVICE] \in Slots /\ device \in Devices
          BY <3>1 DEF SetUpInv, TypeInv, DEVICE, PCI
      <4> QED
          BY <4>1, DeviceTypes DEF What
    <3>4. bars[at[DEVICE].bar].size \in Nat
      <4>1. bars[at[DEVICE].bar] \in Bar
          BY <3>2 DEF SetUpInv, TypeInv
      <4> QED
          BY <4>1 DEF Bar
    <3>5. What(DEVICE).offset + What(DEVICE).length <= bars[at[DEVICE].bar].size
        BY <2>5, <3>1 DEF Fits, What
    <3>6. /\ at[DEVICE].len \in Int /\ What(DEVICE).offset \in Nat /\ What(DEVICE).length \in Nat
        BY <3>2, <3>3, ContentTypes DEF Region
    <3>7. at[DEVICE].offset + at[DEVICE].len <= bars[at[DEVICE].bar].size
        BY <3>1, <3>4, <3>5, <3>6
    <3> QED
        BY <3>7 DEF Within
  <2> QED
      BY <2>1, <2>2, <2>4, <2>5 DEF KickRight
<1> QED
    BY <1>1, SetUpKept, PTL

(* A kick is written where the device expects it, unless that address wraps.  *)
THEOREM KickAddressesCorrect == Spec => []KicksArrive
<1>1. SetUpInv => KicksArrive
  <2> SUFFICES ASSUME SetUpInv, pc = "ready", ~ misread, NEW q \in Queues
               PROVE  LET c == device.caps[capabilities[NOTIFY]].what
                      IN  c.offset + NotifyOffset(q) < Word =>
                             priv[q] = [bar |-> c.bar, offset |-> c.offset + NotifyOffset(q),
                                        len |-> 2]
      BY DEF KicksArrive
  <2>1. priv[q] # Null
      BY QueueNumbers DEF SetUpInv, NotYet
  <2>2. KickRight(q)
      BY <2>1 DEF SetUpInv, KicksFound
  <2> QED
      BY <2>2 DEF KickRight, What
<1> QED
    BY <1>1, SetUpKept, PTL

-----------------------------------------------------------------------------
(* virtio_cread_many.  Every half that was read is of a moment between the    *)
(* reading of the generation and now.                                       *)
CreadTypes ==
    /\ version \in Nat
    /\ cread \in [step : {"idle", "fields", "done"}, i : Nat, gen : Nat,
                  buf : [1 .. 2 -> Nat], since : Nat]

CreadInv ==
    /\ CreadTypes
    /\ cread.step # "idle" => pc = "ready"
    /\ cread.step = "fields" =>
          /\ cread.i \in 1 .. 3
          /\ cread.since <= cread.gen /\ cread.gen <= version
          /\ at[DEVICE].len >= 8 =>
                \A j \in 1 .. 2 : j < cread.i => cread.buf[j] \in cread.gen .. version
    /\ cread.step = "done" /\ at[DEVICE].len >= 8 =>
          cread.buf[1] = cread.buf[2] /\ cread.buf[1] \in cread.since .. version

LEMMA CreadStart == Init => CreadInv
<1>1. <<0, 0>> \in [1 .. 2 -> Nat]
    OBVIOUS
<1> QED
    BY <1>1 DEF Init, CreadInv, CreadTypes, IdleRead

LEMMA CreadBeginsKeeps ==
    ASSUME CreadInv, CreadBegins
    PROVE  CreadInv'
<1>1. /\ pc = "ready" /\ pc' = pc /\ version' = version
      /\ cread' = [cread EXCEPT !.step = "fields", !.i = 1, !.gen = version,
                                !.buf = <<0, 0>>, !.since = version]
    BY DEF CreadBegins, Reading
<1>2. version \in Nat /\ cread \in [step : {"idle", "fields", "done"}, i : Nat, gen : Nat,
                                    buf : [1 .. 2 -> Nat], since : Nat]
    BY DEF CreadInv, CreadTypes
<1>3. cread' = [step |-> "fields", i |-> 1, gen |-> version, buf |-> <<0, 0>>,
                since |-> version]
    BY <1>1, <1>2
<1>4. <<0, 0>> \in [1 .. 2 -> Nat]
    OBVIOUS
<1>5. CreadTypes'
    BY <1>1, <1>2, <1>3, <1>4 DEF CreadTypes
<1> QED
    BY <1>1, <1>2, <1>3, <1>5 DEF CreadInv

LEMMA CreadFieldKeeps ==
    ASSUME CreadInv, SetUpInv, CreadField
    PROVE  CreadInv'
<1> DEFINE n == IF 4 * cread.i <= at[DEVICE].len THEN version ELSE cread.buf[cread.i]
<1>1. /\ pc = "ready" /\ pc' = pc /\ version' = version /\ cread.step = "fields" /\ cread.i <= 2
      /\ cread' = [cread EXCEPT !.i = @ + 1,
                                !.buf[cread.i] = IF 4 * cread.i <= at[DEVICE].len THEN version
                                                 ELSE @]
      /\ at' = at
    BY DEF CreadField, Reading, mapVars
<1>2. version \in Nat /\ cread \in [step : {"idle", "fields", "done"}, i : Nat, gen : Nat,
                                    buf : [1 .. 2 -> Nat], since : Nat]
    BY DEF CreadInv, CreadTypes
<1>3. cread.i \in 1 .. 2 /\ cread.since <= cread.gen /\ cread.gen <= version
      /\ cread.buf \in [1 .. 2 -> Nat] /\ cread.gen \in Nat
    BY <1>1, <1>2 DEF CreadInv
<1>4. n \in Nat
    BY <1>2, <1>3
<1>5. cread' = [step |-> "fields", i |-> cread.i + 1, gen |-> cread.gen,
                buf |-> [cread.buf EXCEPT ![cread.i] = n], since |-> cread.since]
    BY <1>1, <1>2
<1> HIDE DEF n
<1>6. [cread.buf EXCEPT ![cread.i] = n] \in [1 .. 2 -> Nat]
    BY <1>3, <1>4
<1>7. CreadTypes'
    BY <1>1, <1>2, <1>3, <1>5, <1>6 DEF CreadTypes
<1>8. ASSUME at[DEVICE].len >= 8, NEW j \in 1 .. 2, j < cread.i + 1
      PROVE  [cread.buf EXCEPT ![cread.i] = n][j] \in cread.gen .. version
  <2>1. at[DEVICE].len \in Int
      BY DEF SetUpInv, TypeInv, Region, Structures
  <2>2. CASE j = cread.i
    <3>1. n = version
        BY <1>3, <1>8, <2>1 DEF n
    <3> QED
        BY <1>2, <1>3, <2>2, <3>1
  <2>3. CASE j # cread.i
    <3>1. j < cread.i
        BY <1>3, <1>8, <2>3
    <3>2. cread.buf[j] \in cread.gen .. version
        BY <1>1, <1>8, <3>1 DEF CreadInv
    <3> QED
        BY <1>3, <2>3, <3>2
  <2> QED
      BY <2>2, <2>3
<1>9. /\ cread'.step = "fields" /\ cread'.i = cread.i + 1 /\ cread'.gen = cread.gen
      /\ cread'.buf = [cread.buf EXCEPT ![cread.i] = n] /\ cread'.since = cread.since
    BY <1>5
<1>10. cread'.i \in 1 .. 3
    BY <1>3, <1>9
<1>11. at'[DEVICE].len >= 8 =>
           \A j \in 1 .. 2 : j < cread'.i => cread'.buf[j] \in cread'.gen .. version'
    BY <1>1, <1>8, <1>9
<1> QED
    BY <1>1, <1>3, <1>7, <1>9, <1>10, <1>11 DEF CreadInv

LEMMA CreadEndsKeeps ==
    ASSUME CreadInv, CreadEnds
    PROVE  CreadInv'
<1>1. /\ pc = "ready" /\ pc' = pc /\ version' = version /\ cread.step = "fields" /\ cread.i > 2
      /\ cread' = IF version = cread.gen THEN [cread EXCEPT !.step = "done"]
                  ELSE [cread EXCEPT !.i = 1, !.gen = version]
      /\ at' = at
    BY DEF CreadEnds, Reading, mapVars
<1>2. version \in Nat /\ cread \in [step : {"idle", "fields", "done"}, i : Nat, gen : Nat,
                                    buf : [1 .. 2 -> Nat], since : Nat]
    BY DEF CreadInv, CreadTypes
<1>3. /\ cread.i \in 1 .. 3 /\ cread.since <= cread.gen /\ cread.gen <= version
      /\ cread.gen \in Nat /\ cread.since \in Nat
      /\ at[DEVICE].len >= 8 =>
            \A j \in 1 .. 2 : j < cread.i => cread.buf[j] \in cread.gen .. version
    BY <1>1, <1>2 DEF CreadInv
<1>4. CASE version = cread.gen
  <2>1. /\ cread'.step = "done" /\ cread'.buf = cread.buf /\ cread'.since = cread.since
        /\ cread' \in [step : {"idle", "fields", "done"}, i : Nat, gen : Nat,
                       buf : [1 .. 2 -> Nat], since : Nat]
      BY <1>1, <1>2, <1>4
  <2>2. ASSUME at[DEVICE].len >= 8
        PROVE  cread.buf[1] = version /\ cread.buf[2] = version
    <3>1. cread.buf[1] \in cread.gen .. version /\ cread.buf[2] \in cread.gen .. version
        BY <1>1, <1>3, <2>2
    <3> QED
        BY <1>2, <1>4, <3>1
  <2>3. version \in cread.since .. version
      BY <1>2, <1>3
  <2> QED
      BY <1>1, <1>2, <2>1, <2>2, <2>3 DEF CreadInv, CreadTypes
<1>5. CASE version # cread.gen
  <2>1. cread' = [step |-> "fields", i |-> 1, gen |-> version, buf |-> cread.buf,
                  since |-> cread.since]
      BY <1>1, <1>2, <1>5
  <2>2. cread.since <= version
      BY <1>2, <1>3
  <2>3. cread.buf \in [1 .. 2 -> Nat]
      BY <1>2
  <2> QED
      BY <1>1, <1>2, <1>3, <2>1, <2>2, <2>3 DEF CreadInv, CreadTypes
<1> QED
    BY <1>4, <1>5

LEMMA CreadNext ==
    ASSUME CreadInv, SetUpInv, [Next]_vars
    PROVE  CreadInv'
<1>1. CASE CreadBegins
    BY <1>1, CreadBeginsKeeps
<1>2. CASE CreadField
    BY <1>2, CreadFieldKeeps
<1>3. CASE CreadEnds
    BY <1>3, CreadEndsKeeps
<1>4. CASE CreadReturns
  <2>1. cread' = IdleRead /\ version' = version
      BY <1>4 DEF CreadReturns, Reading
  <2>2. <<0, 0>> \in [1 .. 2 -> Nat]
      OBVIOUS
  <2> QED
      BY <2>1, <2>2 DEF CreadInv, CreadTypes, IdleRead
<1>5. CASE ConfigChanges
  <2>1. /\ version' = version + 1
        /\ UNCHANGED <<pc, at, cread>>
      BY <1>5 DEF ConfigChanges, mapVars
  <2>2. version \in Nat /\ cread \in [step : {"idle", "fields", "done"}, i : Nat, gen : Nat,
                                      buf : [1 .. 2 -> Nat], since : Nat]
      BY DEF CreadInv, CreadTypes
  <2>3. \A a, b \in Nat : a \in b .. version => a \in b .. version'
      BY <2>1, <2>2
  <2>4. cread.gen \in Nat /\ cread.since \in Nat /\ \A j \in 1 .. 2 : cread.buf[j] \in Nat
      BY <2>2
  <2>5. CreadTypes'
      BY <2>1, <2>2 DEF CreadTypes
  <2>6. cread.step = "fields" =>
          /\ cread.i \in 1 .. 3
          /\ cread.since <= cread.gen /\ cread.gen <= version'
          /\ at[DEVICE].len >= 8 =>
                \A j \in 1 .. 2 : j < cread.i => cread.buf[j] \in cread.gen .. version'
      BY <2>1, <2>2, <2>3, <2>4 DEF CreadInv
  <2>7. cread.step = "done" /\ at[DEVICE].len >= 8 =>
          cread.buf[1] = cread.buf[2] /\ cread.buf[1] \in cread.since .. version'
      BY <2>2, <2>3, <2>4 DEF CreadInv
  <2> QED
      BY <2>1, <2>5, <2>6, <2>7 DEF CreadInv
<1>6. ASSUME UNCHANGED <<pc, at, version, cread>>
      PROVE  CreadInv'
    BY <1>6 DEF CreadInv, CreadTypes
<1>7. ASSUME cread.step = "idle", UNCHANGED <<version, cread>>
      PROVE  CreadInv'
    BY <1>7 DEF CreadInv, CreadTypes
<1>8. CASE PowerCycle \/ DeleteDevice
    BY <1>7, <1>8 DEF PowerCycle, DeleteDevice, configVars
<1>9. CASE StartDevice
  <2>1. cread.step = "idle"
      BY <1>9 DEF StartDevice, CreadInv
  <2> QED
      BY <1>7, <1>9, <2>1 DEF StartDevice, configVars
<1>10. CASE Initializes
  <2>1. pc # "ready"
      BY <1>10 DEF Initializes, ResourcesInit, Walks, VirtioDeviceInitialize, LookEnds, LookOn,
         LookFinds, VendorCapability, NextVendorCapability, LegacyInitialize, MapCommon, MapIsr,
         MapNotify, MapConfig, SetupQueue, Mapping
  <2>2. cread.step = "idle"
      BY <2>1 DEF CreadInv
  <2>3. UNCHANGED configVars
      BY <1>10 DEF Initializes, ResourcesInit, Walks, VirtioDeviceInitialize, LookEnds, LookOn,
         LookFinds, VendorCapability, NextVendorCapability, LegacyInitialize, MapCommon, MapIsr,
         MapNotify, MapConfig, SetupQueue, Mapping
  <2> QED
      BY <1>7, <2>2, <2>3 DEF configVars
<1>11. CASE UNCHANGED vars
    BY <1>6, <1>11 DEF vars, mapVars, configVars
<1> QED
    BY <1>1, <1>2, <1>3, <1>4, <1>5, <1>8, <1>9, <1>10, <1>11 DEF Next

(* A field that is read in two halves is of one moment of the call.           *)
THEOREM FieldsCorrect == Spec => []FieldsOfOneMoment
<1>1. CreadInv => FieldsOfOneMoment
    BY DEF CreadInv, FieldsOfOneMoment
<1>2. Spec => []CreadInv
    BY CreadStart, CreadNext, SetUpKept, PTL DEF Spec
<1> QED
    BY <1>1, <1>2, PTL

-----------------------------------------------------------------------------
(* CPciBar.  What a BAR is stays as its last resource says, so that the one    *)
(* that is unmapped without having been mapped is always a port.             *)
Mine(b) == {i \in DOMAIN device.resources : device.resources[i].bar = b}
KindOf(b) == device.resources[Max(Mine(b))].kind

BarKnown(b) ==
    /\ bars[b].kind = "none" => bars[b].size = 0 /\ ~ bars[b].va
    /\ bars[b].kind # "none" => Mine(b) # {} /\ bars[b].kind = KindOf(b)
    /\ pc \in {"resources", "none"} => ~ bars[b].va
    /\ mappings[b] <= objects
    /\ ~ bars[b].va /\ pc # "none" => mappings[b] < objects
    /\ mappings[b] < 0 => Mine(b) # {} /\ KindOf(b) = "port"
    /\ bars[b].va /\ bars[b].kind # "port" => mappings[b] >= 1

BarsInv == \A b \in Bars : BarKnown(b)

LEMMA BarsStart == Init => BarsInv
    BY DEF Init, BarsInv, BarKnown, NoBars

LEMMA BarsFrame ==
    ASSUME BarsInv, UNCHANGED <<device, objects, barVars>>,
           pc \in {"resources", "none"} <=> pc' \in {"resources", "none"},
           pc = "none" <=> pc' = "none"
    PROVE  BarsInv'
<1>1. ASSUME NEW b \in Bars
      PROVE  BarKnown(b)'
  <2>1. BarKnown(b)
      BY DEF BarsInv
  <2>2. Mine(b)' = Mine(b)
      BY DEF Mine
  <2>3. KindOf(b)' = KindOf(b)
      BY <2>2 DEF KindOf
  <2>4. bars' = bars /\ mappings' = mappings
      BY DEF barVars
  <2> QED
      BY <2>1, <2>2, <2>3, <2>4 DEF BarKnown
<1> QED
    BY <1>1 DEF BarsInv

LEMMA GetVAKeepsKnown ==
    ASSUME BarsInv, SetUpInv, UNCHANGED <<device, objects>>, NEW x \in Bars, NEW mapped,
           bars[x].size > 0, GetVA(x, mapped), pc \notin {"resources", "none"},
           pc' \notin {"resources", "none"}
    PROVE  BarsInv'
<1>1. CASE UNCHANGED barVars
    BY <1>1, BarsFrame
<1>2. CASE /\ bars' = [bars EXCEPT ![x].va = TRUE] /\ ~ bars[x].va
           /\ mappings' = [mappings EXCEPT ![x] = @ + (IF NeedsMapping(x) THEN 1 ELSE 0)]
  <2>1. /\ bars \in [Bars -> Bar] /\ mappings \in [Bars -> Int] /\ objects \in Nat
      BY DEF SetUpInv, TypeInv
  <2>2. ASSUME NEW b \in Bars
        PROVE  BarKnown(b)'
    <3>1. BarKnown(b)
        BY DEF BarsInv
    <3>2. Mine(b)' = Mine(b)
        BY DEF Mine
    <3>3. KindOf(b)' = KindOf(b)
        BY <3>2 DEF KindOf
    <3>4. mappings[b] \in Int /\ bars[b] \in Bar
        BY <2>1
    <3>5. CASE b = x
      <4>1. /\ bars'[b].kind = bars[b].kind /\ bars'[b].size = bars[b].size /\ bars'[b].va
          BY <1>2, <2>1, <3>4, <3>5 DEF Bar
      <4>2. mappings'[b] = mappings[b] + (IF bars[b].kind # "port" THEN 1 ELSE 0)
          BY <1>2, <2>1, <3>5 DEF NeedsMapping
      <4>3. bars[b].kind # "none" /\ mappings[b] < objects /\ ~ bars[b].va
          BY <1>2, <3>1, <3>5 DEF BarKnown
      <4>4. bars[b].kind # "port" => mappings[b] >= 0
          BY <3>1, <3>4, <4>3 DEF BarKnown
      <4>5. mappings'[b] <= objects /\ (mappings'[b] < 0 => mappings[b] < 0)
          BY <2>1, <3>4, <4>2, <4>3
      <4>6. bars[b].kind # "port" => mappings'[b] >= 1
          BY <3>4, <4>2, <4>4
      <4> QED
          BY <3>1, <3>2, <3>3, <4>1, <4>3, <4>5, <4>6 DEF BarKnown
    <3>6. CASE b # x
      <4>1. bars'[b] = bars[b] /\ mappings'[b] = mappings[b]
          BY <1>2, <2>1, <3>6
      <4> QED
          BY <3>1, <3>2, <3>3, <4>1 DEF BarKnown
    <3> QED
        BY <3>5, <3>6
  <2> QED
      BY <2>2 DEF BarsInv
<1> QED
    BY <1>1, <1>2 DEF GetVA

(* Every way to a mapping looks at the size first.                           *)
LEMMA MapsSized ==
    ASSUME SetUpInv, NEW mapped \in BOOLEAN,
           \/ LegacyInitialize(mapped)
           \/ MapCommon(mapped) \/ MapIsr(mapped) \/ MapNotify(mapped) \/ MapConfig(mapped)
           \/ \E q \in Queues : SetupQueue(q, mapped)
    PROVE  UNCHANGED barVars \/ \E x \in Bars : bars[x].size > 0 /\ GetVA(x, mapped)
<1>1. ASSUME NEW c \in Contents, NEW minlen \in Nat, NEW alignment, NEW start \in Nat,
             NEW size \in Nat, NEW ACTION stored,
             MapFrom(c, MapCapability(c, minlen, alignment, start, size), mapped, stored)
      PROVE  UNCHANGED barVars \/ \E x \in Bars : bars[x].size > 0 /\ GetVA(x, mapped)
  <2>1. PICK r : r = MapCapability(c, minlen, alignment, start, size)
      OBVIOUS
  <2>2. MapFrom(c, r, mapped, stored)
      BY <1>1, <2>1
  <2>3. CASE c.bar \notin Bars \/ r = Null
      BY <2>2, <2>3 DEF MapFrom
  <2>4. CASE c.bar \in Bars /\ r # Null
    <3>1. bars \in [Bars -> Bar]
        BY DEF SetUpInv, TypeInv
    <3>2. bars[c.bar].size > 0
        BY <1>1, <2>1, <2>4, <3>1, MapResult
    <3>3. GetVA(c.bar, mapped)
        BY <2>2, <2>4 DEF MapFrom
    <3> QED
        BY <2>4, <3>2, <3>3
  <2> QED
      BY <2>3, <2>4
<1>2. /\ device \in Devices /\ capabilities \in [0 .. PCI - 1 -> {0} \cup Slots]
      /\ 0 \in Nat /\ 1 \in Nat /\ 2 \in Nat /\ CommonSize \in Nat /\ PageSize \in Nat
    BY DEF SetUpInv, TypeInv, CommonSize, PageSize
<1>3. CASE LegacyInitialize(mapped)
    BY <1>3, BarsAssumption DEF LegacyInitialize
<1>4. CASE MapCommon(mapped)
  <2>1. CASE 0 \in {capabilities[ISR], capabilities[NOTIFY]}
      BY <1>4, <2>1 DEF MapCommon
  <2>2. CASE 0 \notin {capabilities[ISR], capabilities[NOTIFY]}
    <3>1. PICK c \in ReadsOf(capabilities[COMMON]) :
             MapFrom(c, MapCapability(c, CommonSize, 4, 0, CommonSize), mapped,
                     Store(COMMON, "isr", MapCapability(c, CommonSize, 4, 0, CommonSize)))
        BY <1>4, <2>2 DEF MapCommon
    <3>2. capabilities[COMMON] \in Slots
        BY <1>2, <1>4 DEF MapCommon, COMMON, PCI
    <3>3. c \in Contents
        BY <1>2, <3>1, <3>2, ReadTypes
    <3> QED
        BY <1>1, <1>2, <3>1, <3>3
  <2> QED
      BY <2>1, <2>2
<1>5. CASE MapIsr(mapped)
  <2>1. PICK c \in ReadsOf(capabilities[ISR]) :
           MapFrom(c, MapCapability(c, 1, 1, 0, 1), mapped,
                   Store(ISR, "notify", MapCapability(c, 1, 1, 0, 1)))
      BY <1>5 DEF MapIsr
  <2>2. capabilities[ISR] \in Slots
      BY <1>2, <1>5 DEF MapIsr, Mapping, SetUpInv, TypeInv, ISR, PCI
  <2>3. c \in Contents
      BY <1>2, <2>1, <2>2, ReadTypes
  <2> QED
      BY <1>1, <1>2, <2>1, <2>3
<1>6. CASE MapNotify(mapped)
  <2>1. capabilities[NOTIFY] \in Slots
      BY <1>2, <1>6 DEF MapNotify, Mapping, SetUpInv, TypeInv, NOTIFY, PCI
  <2>2. PICK first \in ReadsOf(capabilities[NOTIFY]), c \in ReadsOf(capabilities[NOTIFY]) :
           \/ MapFrom(c, MapCapability(c, 2, 2, 0, first.length), mapped,
                      Store(NOTIFY, "config", MapCapability(c, 2, 2, 0, first.length)))
           \/ UNCHANGED barVars
      BY <1>6 DEF MapNotify
  <2>3. c \in Contents /\ first \in Contents
      BY <1>2, <2>1, <2>2, ReadTypes
  <2>4. first.length \in Nat
      BY <2>3, ContentTypes
  <2> QED
      BY <1>1, <1>2, <2>2, <2>3, <2>4
<1>7. CASE MapConfig(mapped)
  <2>1. CASE capabilities[DEVICE] = 0
      BY <1>7, <2>1 DEF MapConfig
  <2>2. CASE capabilities[DEVICE] # 0
    <3>1. PICK c \in ReadsOf(capabilities[DEVICE]) :
             MapFrom(c, MapCapability(c, 0, 4, 0, PageSize), mapped,
                     Store(DEVICE, "queues", MapCapability(c, 0, 4, 0, PageSize)))
        BY <1>7, <2>2 DEF MapConfig
    <3>2. capabilities[DEVICE] \in Slots
        BY <1>2, <2>2 DEF DEVICE, PCI
    <3>3. c \in Contents
        BY <1>2, <3>1, <3>2, ReadTypes
    <3> QED
        BY <1>1, <1>2, <3>1, <3>3
  <2> QED
      BY <2>1, <2>2
<1>8. ASSUME NEW q \in Queues, SetupQueue(q, mapped)
      PROVE  UNCHANGED barVars \/ \E x \in Bars : bars[x].size > 0 /\ GetVA(x, mapped)
  <2>1. CASE at[NOTIFY] # Null
      BY <1>8, <2>1 DEF SetupQueue
  <2>2. CASE at[NOTIFY] = Null
    <3>1. PICK c \in ReadsOf(notifyMapCap) :
             MapFrom(c, MapCapability(c, 2, 2, NotifyOffset(q) % Word, 2), mapped,
                     StorePriv(q, QueuesDone(q),
                               MapCapability(c, 2, 2, NotifyOffset(q) % Word, 2)))
        BY <1>8, <2>2 DEF SetupQueue
    <3>2. pc = "queues"
        BY <1>8 DEF SetupQueue, Mapping
    <3>3. notifyMapCap \in Slots
      <4>1. notifyMapCap = capabilities[NOTIFY] /\ capabilities[NOTIFY] # 0
          BY <2>2, <3>2 DEF SetUpInv, TypeInv
      <4> QED
          BY <1>2, <4>1 DEF NOTIFY, PCI
    <3>4. c \in Contents
        BY <1>2, <3>1, <3>3, ReadTypes
    <3>5. NotifyOffset(q) % Word \in Nat
        BY <1>2, NotifyOffsetType, WordAssumption
    <3>6. PICK k \in Nat : k = NotifyOffset(q) % Word
        BY <3>5
    <3>7. MapFrom(c, MapCapability(c, 2, 2, k, 2), mapped,
                  StorePriv(q, QueuesDone(q), MapCapability(c, 2, 2, k, 2)))
        BY <3>1, <3>6
    <3> QED
        BY <1>1, <1>2, <3>4, <3>7
  <2> QED
      BY <2>1, <2>2
<1> QED
    BY <1>3, <1>4, <1>5, <1>6, <1>7, <1>8

LEMMA BarsNext ==
    ASSUME BarsInv, SetUpInv, [Next]_vars
    PROVE  BarsInv'
<1>0. /\ device \in Devices /\ objects \in Nat
      /\ bars \in [Bars -> Bar] /\ mappings \in [Bars -> Int]
    BY DEF SetUpInv, TypeInv
<1>1. ASSUME NEW read \in BOOLEAN, ResourcesInit(read)
      PROVE  BarsInv'
  <2>1. /\ pc = "resources" /\ pc' \in {"initialize", "failed"}
        /\ UNCHANGED <<device, objects, mappings>>
      BY <1>1 DEF ResourcesInit, lifeVars
  <2>2. CASE ~ read
    <3>1. bars' = bars
        BY <1>1, <2>2 DEF ResourcesInit
    <3>2. ASSUME NEW b \in Bars
          PROVE  BarKnown(b)'
      <4>1. BarKnown(b)
          BY DEF BarsInv
      <4>2. Mine(b)' = Mine(b)
          BY <2>1 DEF Mine
      <4>3. KindOf(b)' = KindOf(b)
          BY <2>1, <4>2 DEF KindOf
      <4> QED
          BY <2>1, <3>1, <4>1, <4>2, <4>3 DEF BarKnown
    <3> QED
        BY <3>2 DEF BarsInv
  <2>3. CASE read
    <3>1. ASSUME NEW b \in Bars
          PROVE  BarKnown(b)'
      <4>1. BarKnown(b)
          BY DEF BarsInv
      <4>2. Mine(b)' = Mine(b)
          BY <2>1 DEF Mine
      <4>3. KindOf(b)' = KindOf(b)
          BY <2>1, <4>2 DEF KindOf
      <4>4. mappings'[b] = mappings[b] /\ mappings[b] < objects
          BY <2>1, <4>1 DEF BarKnown
      <4>5. bars'[b] = IF Mine(b) = {} THEN NoBars[b]
                       ELSE [size |-> device.resources[Max(Mine(b))].len,
                             kind |-> KindOf(b), va |-> FALSE]
          BY <1>1, <2>3 DEF ResourcesInit, Mine, KindOf
      <4>6. CASE Mine(b) = {}
        <5>1. bars'[b].kind = "none" /\ bars'[b].size = 0 /\ ~ bars'[b].va
            BY <4>5, <4>6 DEF NoBars
        <5> QED
            BY <2>1, <4>1, <4>2, <4>3, <4>4, <5>1 DEF BarKnown
      <4>7. CASE Mine(b) # {}
        <5>1. bars'[b].kind = KindOf(b) /\ ~ bars'[b].va
            BY <4>5, <4>7
        <5>2. KindOf(b) # "none"
          <6>1. Len(device.resources) \in Nat /\ Mine(b) \subseteq 0 .. Len(device.resources)
              BY <1>0, DeviceTypes DEF Mine
          <6>2. Max(Mine(b)) \in Mine(b)
              BY <4>7, <6>1, MaxOfSome
          <6>3. Max(Mine(b)) \in DOMAIN device.resources
              BY <6>2 DEF Mine
          <6> QED
              BY <1>0, <6>3, DeviceTypes DEF KindOf, Kinds
        <5> QED
            BY <2>1, <4>1, <4>2, <4>3, <4>4, <4>7, <5>1, <5>2 DEF BarKnown
      <4> QED
          BY <4>6, <4>7
    <3> QED
        BY <3>1 DEF BarsInv
  <2> QED
      BY <2>2, <2>3
<1>2. CASE Walks
  <2>1. /\ UNCHANGED <<device, objects, barVars>>
        /\ pc \in {"initialize", "loop", "vendor", "next"}
        /\ pc' \in {"loop", "vendor", "next", "map"}
      BY <1>2 DEF Walks, VirtioDeviceInitialize, LookEnds, LookOn, LookFinds, VendorCapability,
         NextVendorCapability, WalkEnds, lifeVars
  <2> QED
      BY <2>1, BarsFrame
<1>3. ASSUME NEW mapped \in BOOLEAN,
             \/ LegacyInitialize(mapped)
             \/ MapCommon(mapped) \/ MapIsr(mapped) \/ MapNotify(mapped) \/ MapConfig(mapped)
             \/ \E q \in Queues : SetupQueue(q, mapped)
      PROVE  BarsInv'
  <2>1. UNCHANGED barVars \/ \E x \in Bars : bars[x].size > 0 /\ GetVA(x, mapped)
      BY <1>3, MapsSized
  <2>2. /\ UNCHANGED <<device, objects>>
        /\ pc \notin {"resources", "none"}
      BY <1>3 DEF LegacyInitialize, MapCommon, MapIsr, MapNotify, MapConfig, SetupQueue, Mapping,
         lifeVars
  <2>3. pc' \notin {"resources", "none"}
    <3>1. ASSUME NEW c, NEW region, NEW s, NEW next,
                 MapFrom(c, region, mapped, Store(s, next, region)), next # "resources", next # "none"
          PROVE  pc' \notin {"resources", "none"}
        BY <3>1, <1>0, MapFromEnds DEF MapEnds, Store
    <3>2. ASSUME NEW q \in Queues, NEW c, NEW region,
                 MapFrom(c, region, mapped, StorePriv(q, QueuesDone(q), region))
          PROVE  pc' \notin {"resources", "none"}
        BY <3>2, <1>0, MapFromEnds DEF MapEnds, StorePriv, QueuesDone
    <3>3. CASE LegacyInitialize(mapped)
        BY <3>3 DEF LegacyInitialize
    <3>4. CASE MapCommon(mapped)
        BY <3>1, <3>4 DEF MapCommon
    <3>5. CASE MapIsr(mapped)
        BY <3>1, <3>5 DEF MapIsr
    <3>6. CASE MapNotify(mapped)
        BY <3>1, <3>6 DEF MapNotify
    <3>7. CASE MapConfig(mapped)
        BY <3>1, <3>7 DEF MapConfig
    <3>8. ASSUME NEW q \in Queues, SetupQueue(q, mapped)
          PROVE  pc' \notin {"resources", "none"}
        BY <3>2, <3>8 DEF SetupQueue, StorePriv, QueuesDone
    <3> QED
        BY <1>3, <3>3, <3>4, <3>5, <3>6, <3>7, <3>8
  <2>4. CASE UNCHANGED barVars
      BY <2>2, <2>3, <2>4, BarsFrame
  <2>5. CASE \E x \in Bars : bars[x].size > 0 /\ GetVA(x, mapped)
      BY <2>2, <2>3, <2>5, GetVAKeepsKnown
  <2> QED
      BY <2>1, <2>4, <2>5
<1>4. CASE PowerCycle
  <2>1. pc = "ready" /\ pc' = "initialize" /\ UNCHANGED <<device, objects, barVars>>
      BY <1>4 DEF PowerCycle, lifeVars
  <2> QED
      BY <2>1, BarsFrame
<1>5. CASE DeleteDevice
  <2>1. /\ pc' = "none" /\ UNCHANGED <<device, objects>> /\ bars' = NoBars
        /\ mappings' = [b \in Bars |->
              mappings[b] - (IF bars[b].va /\ bars[b].kind = "port" THEN 1 ELSE 0)]
      BY <1>5 DEF DeleteDevice, Unmap, lifeVars
  <2>2. ASSUME NEW b \in Bars
        PROVE  BarKnown(b)'
    <3>1. BarKnown(b) /\ mappings[b] \in Int
        BY <1>0 DEF BarsInv
    <3>2. Mine(b)' = Mine(b)
        BY <2>1 DEF Mine
    <3>3. KindOf(b)' = KindOf(b)
        BY <2>1, <3>2 DEF KindOf
    <3>4. bars'[b].kind = "none" /\ bars'[b].size = 0 /\ ~ bars'[b].va
        BY <2>1 DEF NoBars
    <3>5. mappings'[b] = mappings[b] - (IF bars[b].va /\ bars[b].kind = "port" THEN 1 ELSE 0)
        BY <2>1
    <3>6. mappings'[b] <= objects
        BY <1>0, <3>1, <3>5 DEF BarKnown
    <3>7. mappings'[b] < 0 => mappings[b] < 0 \/ bars[b].kind = "port"
        BY <3>1, <3>5
    <3> QED
        BY <2>1, <3>1, <3>2, <3>3, <3>4, <3>6, <3>7 DEF BarKnown
  <2> QED
      BY <2>2 DEF BarsInv
<1>6. CASE StartDevice
  <2>1. /\ pc = "none" /\ pc' = "resources" /\ objects' = objects + 1 /\ device' = device
        /\ bars' = bars /\ mappings' = mappings
      BY <1>6 DEF StartDevice, barVars
  <2>2. ASSUME NEW b \in Bars
        PROVE  BarKnown(b)'
    <3>1. BarKnown(b) /\ mappings[b] \in Int
        BY <1>0 DEF BarsInv
    <3>2. Mine(b)' = Mine(b)
        BY <2>1 DEF Mine
    <3>3. KindOf(b)' = KindOf(b)
        BY <2>1, <3>2 DEF KindOf
    <3>4. mappings[b] <= objects' /\ mappings[b] < objects'
        BY <1>0, <2>1, <3>1 DEF BarKnown
    <3> QED
        BY <2>1, <3>1, <3>2, <3>3, <3>4 DEF BarKnown
  <2> QED
      BY <2>2 DEF BarsInv
<1>7. CASE \/ ConfigChanges \/ CreadBegins \/ CreadField \/ CreadEnds \/ CreadReturns
           \/ UNCHANGED vars
  <2>1. UNCHANGED <<device, objects, barVars, pc>>
      BY <1>7 DEF ConfigChanges, CreadBegins, CreadField, CreadEnds, CreadReturns, Reading, vars,
         lifeVars
  <2> QED
      BY <2>1, BarsFrame
<1> QED
    BY <1>1, <1>2, <1>3, <1>4, <1>5, <1>6, <1>7 DEF Next, Initializes

(* Each device object maps a BAR at most once, what is in use is mapped, and   *)
(* only ports are unmapped that were not mapped.                             *)
THEOREM MappingsCorrect == Spec => []MappingsKnown
<1>1. SetUpInv /\ BarsInv => MappingsKnown
  <2> SUFFICES ASSUME SetUpInv, BarsInv, NEW b \in Bars
               PROVE  /\ mappings[b] <= objects
                      /\ bars[b].va /\ bars[b].kind # "port" => mappings[b] >= 1
                      /\ mappings[b] < 0 => \E i \in DOMAIN device.resources :
                            device.resources[i].bar = b /\ device.resources[i].kind = "port"
      BY DEF MappingsKnown
  <2>1. BarKnown(b)
      BY DEF BarsInv
  <2>2. ASSUME mappings[b] < 0
        PROVE  \E i \in DOMAIN device.resources :
                  device.resources[i].bar = b /\ device.resources[i].kind = "port"
    <3>1. Mine(b) # {} /\ KindOf(b) = "port"
        BY <2>1, <2>2 DEF BarKnown
    <3>2. device \in Devices
        BY DEF SetUpInv, TypeInv
    <3>3. Len(device.resources) \in Nat /\ Mine(b) \subseteq 0 .. Len(device.resources)
        BY <3>2, DeviceTypes DEF Mine
    <3>4. Max(Mine(b)) \in Mine(b)
        BY <3>1, <3>3, MaxOfSome
    <3> QED
        BY <3>1, <3>4 DEF Mine, KindOf
  <2> QED
      BY <2>1, <2>2 DEF BarKnown
<1>2. Spec => []BarsInv
    BY BarsStart, BarsNext, SetUpKept, PTL DEF Spec
<1> QED
    BY <1>1, <1>2, SetUpKept, PTL

-----------------------------------------------------------------------------
(* The walk of the capability list.                                        *)
ListLength == Cardinality(Slots)

LEMMA LengthBounded == ListLength \in Nat /\ ListLength <= Iterations /\ Iterations \in Nat
<1>1. IsFiniteSet(64 .. 255)
  <2>1. PICK a \in Int, b \in Int : a = 64 /\ b = 255
      OBVIOUS
  <2>2. IsFiniteSet(a .. b)
      BY FS_Interval
  <2> QED
      BY <2>1, <2>2
<1>2. Slots \subseteq 64 .. 255
    BY SlotsAssumption
<1>3. IsFiniteSet(Slots)
    BY <1>1, <1>2, FS_Subset
<1> QED
    BY <1>3, FS_CardinalityType, IterationsAssumption DEF ListLength

(* What a pointer leads to, and the pointer the walk follows n-th.           *)
LeadsTo(d, pointer) ==
    IF pointer < 64 \/ d.caps[Aligned(pointer)].id = NoCapability THEN 0 ELSE Aligned(pointer)

PointerAt(d, list, n) ==
    IF n = 0 THEN d.first ELSE IF list[n - 1] = 0 THEN 0 ELSE d.caps[list[n - 1]].next

LEMMA ListEquation ==
    ASSUME NEW d
    PROVE  \A n \in 0 .. 2 * ListLength : ListOf(d)[n] = LeadsTo(d, PointerAt(d, ListOf(d), n))
<1> DEFINE Upto(f, n) == f = [k \in 0 .. n |-> LeadsTo(d, PointerAt(d, f, k))]
           T == {n \in Nat : \E f : Upto(f, n)}
           l == 2 * ListLength
<1>1. l \in Nat
    BY LengthBounded
<1>2. 0 \in T
  <2> DEFINE f == [k \in 0 .. 0 |-> LeadsTo(d, d.first)]
  <2>1. f = [k \in 0 .. 0 |-> LeadsTo(d, PointerAt(d, f, k))]
      BY DEF PointerAt
  <2>2. \E e : Upto(e, 0)
      BY <2>1
  <2> QED
      BY <2>2
<1>3. ASSUME NEW n \in 0 .. l - 1, n \in T
      PROVE  n + 1 \in T
  <2>1. PICK f : Upto(f, n)
      BY <1>3
  <2> DEFINE last == LeadsTo(d, PointerAt(d, f, n + 1))
             g == [k \in 0 .. n + 1 |-> IF k = n + 1 THEN last ELSE f[k]]
  <2>2. /\ n \in Nat /\ \A k \in 0 .. n : g[k] = f[k] /\ k \in 0 .. n + 1
        /\ g[n + 1] = last
    <3> HIDE DEF last
    <3> QED
        BY <1>1
  <2>3. ASSUME NEW k \in 0 .. n + 1
        PROVE  g[k] = LeadsTo(d, PointerAt(d, g, k))
    <3> HIDE DEF g
    <3>1. PointerAt(d, g, k) = PointerAt(d, f, k)
      <4>1. CASE k = 0
          BY <4>1 DEF PointerAt
      <4>2. CASE k # 0
        <5>1. k - 1 \in 0 .. n
            BY <4>2, <2>2
        <5>2. g[k - 1] = f[k - 1]
            BY <5>1, <2>2
        <5> QED
            BY <5>2 DEF PointerAt
      <4> QED
          BY <4>1, <4>2
    <3>2. CASE k = n + 1
        BY <3>1, <3>2, <2>2
    <3>3. CASE k # n + 1
      <4>1. k \in 0 .. n
          BY <3>3, <2>2
      <4>2. f[k] = LeadsTo(d, PointerAt(d, f, k))
          BY <4>1, <2>1
      <4> QED
          BY <4>1, <4>2, <3>1, <2>2
    <3> QED
        BY <3>2, <3>3
  <2>4. Upto(g, n + 1)
    <3>1. g = [k \in 0 .. n + 1 |-> g[k]]
        OBVIOUS
    <3> HIDE DEF g
    <3> QED
        BY <3>1, <2>3
  <2>5. \E e : Upto(e, n + 1)
    <3> HIDE DEF Upto, g
    <3> QED
        BY <2>4
  <2> QED
      BY <2>5, <2>2
<1>4. \E f : Upto(f, l)
  <2> HIDE DEF T, l
  <2>1. 0 .. l \subseteq T
      BY <1>1, <1>2, <1>3, UpTo
  <2> QED
      BY <1>1, <2>1 DEF T
<1>5. Upto(ListOf(d), l)
  <2>1. ListOf(d) = CHOOSE f : Upto(f, l)
      BY DEF ListOf, LeadsTo, PointerAt, ListLength
  <2> HIDE DEF Upto
  <2> QED
      BY <1>4, <2>1
<1> QED
    BY <1>5

LEMMA ListEntries ==
    ASSUME NEW d \in Devices, NEW n \in 0 .. ListLength
    PROVE  /\ ListOf(d)[n] = LeadsTo(d, PointerAt(d, ListOf(d), n))
           /\ PointerAt(d, ListOf(d), n) \in Pointers
           /\ ListOf(d)[n] \in {0} \cup Slots
<1> DEFINE l == ListOf(d)
           T == {k \in Nat : l[k] \in {0} \cup Slots /\ PointerAt(d, l, k) \in Pointers}
<1>1. /\ ListLength \in Nat
      /\ \A k \in 0 .. ListLength : l[k] = LeadsTo(d, PointerAt(d, l, k))
    BY LengthBounded, ListEquation
<1> HIDE DEF l
<1>2. ASSUME NEW p \in Pointers
      PROVE  LeadsTo(d, p) \in {0} \cup Slots
  <2>1. p \in Nat
    <3>1. \A t \in Slots : t \in 64 .. 255
        BY SlotsAssumption
    <3> QED
        BY <3>1 DEF Pointers
  <2> QED
      BY <2>1, AlignedSlot DEF LeadsTo
<1>3. 0 \in T
  <2>1. 0 \in 0 .. ListLength
      BY <1>1
  <2>2. PointerAt(d, l, 0) \in Pointers
      BY DeviceTypes DEF PointerAt
  <2> QED
      BY <2>1, <2>2, <1>1, <1>2
<1>4. ASSUME NEW k \in 0 .. ListLength - 1, k \in T
      PROVE  k + 1 \in T
  <2>1. k + 1 \in 0 .. ListLength /\ k + 1 # 0 /\ (k + 1) - 1 = k /\ k + 1 \in Nat
      BY <1>1
  <2>2. PointerAt(d, l, k + 1) = IF l[k] = 0 THEN 0 ELSE d.caps[l[k]].next
      BY <2>1 DEF PointerAt
  <2>3. 0 \in Pointers
      BY DEF Pointers
  <2>4. PointerAt(d, l, k + 1) \in Pointers
      BY <2>2, <2>3, <1>4, DeviceTypes
  <2>5. l[k + 1] \in {0} \cup Slots
      BY <2>1, <2>4, <1>1, <1>2
  <2> QED
      BY <2>1, <2>4, <2>5
<1>5. n \in T
  <2> HIDE DEF T
  <2>1. 0 .. ListLength \subseteq T
      BY <1>1, <1>3, <1>4, UpTo
  <2> QED
      BY <2>1
<1> QED
    BY <1>1, <1>5 DEF l

(* Nothing follows the end of a list.                                       *)
LEMMA NothingAfterEnd ==
    ASSUME NEW d \in Devices, NEW n \in 0 .. ListLength, ListOf(d)[n] = 0
    PROVE  \A m \in n .. ListLength : ListOf(d)[m] = 0
<1> DEFINE l == ListOf(d)
           T == {k \in Nat : n + k <= ListLength => l[n + k] = 0}
<1>1. /\ ListLength \in Nat /\ n \in Nat
      /\ \A k \in 0 .. ListLength : l[k] = LeadsTo(d, PointerAt(d, l, k))
    BY LengthBounded, ListEquation
<1>2. l[n] = 0
    OBVIOUS
<1> HIDE DEF l
<1>3. 0 \in T
    BY <1>1, <1>2
<1>4. ASSUME NEW k \in Nat, k \in T
      PROVE  k + 1 \in T
  <2>1. CASE n + (k + 1) <= ListLength
    <3>1. /\ n + (k + 1) \in 0 .. ListLength /\ n + (k + 1) # 0
          /\ (n + (k + 1)) - 1 = n + k /\ n + k <= ListLength
        BY <2>1, <1>1
    <3>2. PointerAt(d, l, n + (k + 1)) = 0
        BY <3>1, <1>4 DEF PointerAt
    <3>3. l[n + (k + 1)] = 0
        BY <3>1, <3>2, <1>1 DEF LeadsTo
    <3> QED
        BY <3>3
  <2>2. CASE ~ (n + (k + 1) <= ListLength)
      BY <2>2
  <2> QED
      BY <2>1, <2>2
<1>5. Nat \subseteq T
  <2> HIDE DEF T
  <2> QED
      BY <1>3, <1>4, ForAllNat
<1>6. ASSUME NEW m \in n .. ListLength
      PROVE  l[m] = 0
  <2>1. m - n \in Nat /\ n + (m - n) = m /\ m <= ListLength
      BY <1>1
  <2>2. m - n \in T
      BY <2>1, <1>5
  <2> QED
      BY <2>1, <2>2
<1> QED
    BY <1>6 DEF l

(* The last usable capability of a type among the first n of the list.        *)
Matches(m, t) ==
    /\ ListAt[m] # 0
    /\ device.caps[ListAt[m]].id = VENDOR
    /\ device.caps[ListAt[m]].what.type = t
    /\ Usable(device.caps[ListAt[m]].what)
MatchesBelow(n, t) == {m \in 0 .. n - 1 : Matches(m, t)}
LastBelow(n, t) == IF MatchesBelow(n, t) = {} THEN 0 ELSE ListAt[Max(MatchesBelow(n, t))]

LEMMA MeantIsLast == ASSUME NEW t PROVE Meant(t) = LastBelow(ListLength, t)
<1> DEFINE of == {n \in Listed : /\ device.caps[ListAt[n]].id = VENDOR
                                 /\ device.caps[ListAt[n]].what.type = t
                                 /\ Usable(device.caps[ListAt[n]].what)}
<1>1. of = MatchesBelow(ListLength, t)
    BY DEF Listed, MatchesBelow, Matches, ListLength
<1>2. Meant(t) = IF of = {} THEN 0 ELSE ListAt[Max(of)]
    BY DEF Meant
<1> HIDE DEF of
<1> QED
    BY <1>1, <1>2 DEF LastBelow

LEMMA LastBelowNone == ASSUME NEW t PROVE LastBelow(0, t) = 0
<1>1. MatchesBelow(0, t) = {}
    BY DEF MatchesBelow
<1> QED
    BY <1>1 DEF LastBelow

LEMMA LastBelowMore ==
    ASSUME NEW n \in Nat, NEW t
    PROVE  LastBelow(n + 1, t) = IF Matches(n, t) THEN ListAt[n] ELSE LastBelow(n, t)
<1>1. CASE ~ Matches(n, t)
  <2>1. MatchesBelow(n + 1, t) = MatchesBelow(n, t)
      BY <1>1 DEF MatchesBelow
  <2> QED
      BY <1>1, <2>1 DEF LastBelow
<1>2. CASE Matches(n, t)
  <2> DEFINE of == MatchesBelow(n + 1, t)
  <2>1. of \subseteq 0 .. n /\ n \in of
      BY <1>2 DEF MatchesBelow
  <2>2. of # {} /\ Max(of) = n
    <3> HIDE DEF of
    <3>1. of # {} /\ Max(of) \in of /\ \A y \in of : Max(of) >= y
        BY <2>1, MaxOfSome
    <3>2. Max(of) \in 0 .. n /\ Max(of) >= n
        BY <3>1, <2>1
    <3> QED
        BY <3>1, <3>2
  <2> QED
      BY <1>2, <2>2 DEF LastBelow
<1> QED
    BY <1>1, <1>2

LEMMA LastBelowEnd ==
    ASSUME device \in Devices, NEW n \in 0 .. ListLength, ListAt[n] = 0, NEW t
    PROVE  LastBelow(n, t) = Meant(t)
<1>1. \A m \in n .. ListLength : ListAt[m] = 0
    BY NothingAfterEnd DEF ListAt
<1>2. ListLength \in Nat
    BY LengthBounded
<1>3. MatchesBelow(ListLength, t) = MatchesBelow(n, t)
    BY <1>1, <1>2 DEF MatchesBelow, Matches
<1> QED
    BY <1>3, MeantIsLast DEF LastBelow

(* Where the walk is: it follows the n-th pointer, is at the n-th capability, *)
(* or is done with it, and has taken what is usable before.  It has counted   *)
(* no more capabilities than it has passed.                                *)
TakenBelow(n) == \A t \in Structures : capabilities[t] = LastBelow(n, t)

Follows(n) ==
    /\ PointerAt(device, ListAt, n) = offset
    /\ Iterations - iterations <= n
    /\ TakenBelow(n)
IsAt(n) == ListAt[n] = offset /\ device.caps[offset].id = VENDOR /\ TakenBelow(n)
IsDoneWith(n) == ListAt[n] = offset /\ TakenBelow(n + 1)

WalkInv ==
    ListEnds /\ ~ misread =>
        /\ pc = "loop" => \E n \in 0 .. ListLength : Follows(n)
        /\ pc = "vendor" => \E n \in 0 .. ListLength - 1 : IsAt(n)
        /\ pc = "next" => \E n \in 0 .. ListLength - 1 : IsDoneWith(n)
        /\ pc = "map" => \A t \in Structures : capabilities[t] = Meant(t)

LEMMA WalkStart == Init => WalkInv
    BY DEF Init, WalkInv

(* The list and what is usable of it do not change while it is walked.       *)
LEMMA ListStays ==
    ASSUME UNCHANGED <<device, bars>>
    PROVE  /\ ListAt' = ListAt /\ (ListEnds' <=> ListEnds)
           /\ \A n, t : LastBelow(n, t)' = LastBelow(n, t)
           /\ \A t : Meant(t)' = Meant(t)
<1>1. ListAt' = ListAt
    BY DEF ListAt
<1>2. \A c : Usable(c)' <=> Usable(c)
    BY DEF Usable
<1>3. ASSUME NEW m, NEW t
      PROVE  Matches(m, t)' <=> Matches(m, t)
    BY <1>1, <1>2 DEF Matches
<1>4. ASSUME NEW n, NEW t
      PROVE  MatchesBelow(n, t)' = MatchesBelow(n, t)
    BY <1>3 DEF MatchesBelow
<1>5. ASSUME NEW n, NEW t
      PROVE  LastBelow(n, t)' = LastBelow(n, t)
    BY <1>1, <1>4 DEF LastBelow
<1>6. ASSUME NEW t
      PROVE  Meant(t)' = Meant(t)
  <2> DEFINE of == {n \in Listed : /\ device.caps[ListAt[n]].id = VENDOR
                                   /\ device.caps[ListAt[n]].what.type = t
                                   /\ Usable(device.caps[ListAt[n]].what)}
  <2>1. of' = of
    <3>1. Listed' = Listed
        BY <1>1 DEF Listed
    <3> QED
        BY <1>1, <1>2, <3>1
  <2>2. Meant(t) = (IF of = {} THEN 0 ELSE ListAt[Max(of)])
      BY DEF Meant
  <2>3. Meant(t)' = (IF of' = {} THEN 0 ELSE ListAt'[Max(of')])
      BY DEF Meant
  <2> HIDE DEF of
  <2> QED
      BY <2>1, <2>2, <2>3, <1>1
<1>7. ListEnds' <=> ListEnds
    BY <1>1 DEF ListEnds
<1> QED
    BY <1>1, <1>5, <1>6, <1>7

(* What a step of the walk leaves as it is.                                 *)
WalkStays == UNCHANGED <<device, bars>> /\ misread' \in BOOLEAN /\ (~ misread' => ~ misread)

(* Nothing is left of the list.                                             *)
LEMMA WalkEndsRight ==
    ASSUME TypeInv, WalkStays, pc' = "map", UNCHANGED capabilities,
           NEW n \in 0 .. ListLength, TakenBelow(n), ListAt[n] = 0
    PROVE  WalkInv'
<1>1. \A t \in Structures : LastBelow(n, t) = Meant(t)
    BY LastBelowEnd DEF TypeInv
<1>2. \A t \in Structures : capabilities'[t] = Meant(t)'
    BY <1>1, ListStays DEF WalkStays, TakenBelow
<1> QED
    BY <1>2 DEF WalkInv

(* A failed read says nothing.                                             *)
LEMMA MisreadWalk == misread' = TRUE => WalkInv'
    BY DEF WalkInv

LEMMA InitializeKeepsWalk == ASSUME TypeInv, VirtioDeviceInitialize PROVE WalkInv'
<1>1. CASE Fails
    BY <1>1, MisreadWalk DEF Fails
<1>2. CASE Read /\ pc' = "loop" /\ offset' = device.first /\ iterations' = Iterations
  <2>1. WalkStays /\ device' = device
      BY <1>2 DEF VirtioDeviceInitialize, Read, WalkStays, barVars, TypeInv
  <2>2. PointerAt(device', ListAt', 0) = offset'
      BY <1>2, <2>1 DEF PointerAt
  <2>3. iterations' = Iterations /\ Iterations - iterations' <= 0 /\ 0 \in 0 .. ListLength
      BY <1>2, LengthBounded
  <2>4. \A t \in Structures : capabilities'[t] = 0
      BY DEF VirtioDeviceInitialize, NoCapabilities, Structures, COMMON, NOTIFY, ISR, DEVICE, PCI
  <2>5. \A t \in Structures : LastBelow(0, t)' = 0
      BY LastBelowNone, ListStays, <2>1 DEF WalkStays
  <2>6. TakenBelow(0)'
      BY <2>4, <2>5 DEF TakenBelow
  <2>7. Follows(0)'
      BY <2>2, <2>3, <2>6 DEF Follows
  <2> QED
      BY <1>2, <2>3, <2>7 DEF WalkInv
<1> QED
    BY <1>1, <1>2 DEF VirtioDeviceInitialize

(* At the n-th pointer of the list.                                         *)
LEMMA AtPointer ==
    ASSUME TypeInv, pc = "loop", NEW n \in 0 .. ListLength, Follows(n)
    PROVE  /\ ListAt[n] = LeadsTo(device, offset)
           /\ offset \in Pointers /\ offset \in Nat /\ iterations \in Nat
           /\ MayLook => Aligned(offset) \in Slots /\ Aligned(offset) # 0
<1>1. ListAt[n] = LeadsTo(device, PointerAt(device, ListAt, n))
      /\ PointerAt(device, ListAt, n) \in Pointers
    BY ListEntries DEF ListAt, TypeInv
<1>2. offset \in Nat
  <2>1. \A t \in Slots : t \in 64 .. 255
      BY SlotsAssumption
  <2> QED
      BY <1>1, <2>1 DEF Pointers, Follows
<1>3. ASSUME MayLook
      PROVE  Aligned(offset) \in Slots /\ Aligned(offset) # 0
  <2>1. offset >= 64 /\ offset \in Pointers
      BY <1>1, <1>3 DEF MayLook, Follows
  <2> QED
      BY <2>1, AlignedSlot, SlotPointer
<1> QED
    BY <1>1, <1>2, <1>3 DEF Follows, TypeInv

LEMMA LookEndsKeepsWalk ==
    ASSUME TypeInv, WalkInv, LookEnds
    PROVE  WalkInv'
<1>1. CASE Fails
    BY <1>1, MisreadWalk DEF Fails
<1>2. CASE Read /\ (~ MayLook \/ (MayLook /\ Here.id = NoCapability))
  <2>1. WalkStays /\ UNCHANGED capabilities /\ pc' = "map" /\ pc = "loop" /\ misread' = misread
      BY <1>2 DEF LookEnds, WalkEnds, Read, WalkStays, lifeVars, barVars, TypeInv
  <2>2. CASE ~ ListEnds \/ misread
    <3>1. ~ ListEnds' \/ misread'
        BY <2>1, <2>2, ListStays DEF WalkStays
    <3> QED
        BY <3>1 DEF WalkInv
  <2>3. CASE ListEnds /\ ~ misread
    <3>1. PICK n \in 0 .. ListLength : Follows(n)
        BY <2>1, <2>3 DEF WalkInv
    <3>2. /\ ListAt[n] = LeadsTo(device, offset)
          /\ offset \in Nat /\ iterations \in Nat
        BY <2>1, <3>1, AtPointer
    <3>3. ListAt[n] = 0
      <4>1. CASE MayLook /\ Here.id = NoCapability
          BY <4>1, <3>2 DEF LeadsTo, Here
      <4>2. CASE ~ (offset >= 64)
          BY <4>2, <3>2 DEF LeadsTo
      <4>3. CASE ~ (iterations > 0)
        <5>1. iterations = 0 /\ Iterations <= n
            BY <4>3, <3>1, <3>2, LengthBounded DEF Follows
        <5>2. n = ListLength
            BY <5>1, <3>1, LengthBounded
        <5> QED
            BY <5>2, <2>3 DEF ListEnds, ListLength
      <4> QED
          BY <4>1, <4>2, <4>3, <1>2 DEF MayLook
    <3>4. TakenBelow(n)
        BY <3>1 DEF Follows
    <3> QED
        BY <2>1, <3>1, <3>3, <3>4, WalkEndsRight
  <2> QED
      BY <2>2, <2>3
<1> QED
    BY <1>1, <1>2 DEF LookEnds

(* A capability of the list is before its end.                              *)
LEMMA BeforeEnd ==
    ASSUME ListEnds, NEW n \in 0 .. ListLength, ListAt[n] # 0
    PROVE  n \in 0 .. ListLength - 1 /\ n + 1 \in 0 .. ListLength /\ n \in Nat
<1>1. n # ListLength
    BY DEF ListEnds, ListLength
<1>2. ListLength \in Nat
    BY LengthBounded
<1> QED
    BY <1>1, <1>2

(* The pointer behind the n-th capability.                                  *)
LEMMA PointerBehind ==
    ASSUME NEW d, NEW n \in Nat, ListOf(d)[n] # 0
    PROVE  PointerAt(d, ListOf(d), n + 1) = d.caps[ListOf(d)[n]].next
<1>1. n + 1 # 0 /\ (n + 1) - 1 = n
    OBVIOUS
<1> QED
    BY <1>1 DEF PointerAt

LEMMA LookOnKeepsWalk ==
    ASSUME TypeInv, WalkInv, LookOn
    PROVE  WalkInv'
<1>1. /\ WalkStays /\ UNCHANGED capabilities /\ pc' = "loop" /\ pc = "loop"
      /\ misread' = misread /\ device' = device
      /\ MayLook /\ Here.id \notin {NoCapability, VENDOR}
      /\ offset' = Here.next /\ iterations' = iterations - 1
    BY DEF LookOn, Read, WalkStays, lifeVars, barVars, TypeInv
<1>2. CASE ~ ListEnds \/ misread
  <2>1. ~ ListEnds' \/ misread'
      BY <1>1, <1>2, ListStays DEF WalkStays
  <2> QED
      BY <2>1 DEF WalkInv
<1>3. CASE ListEnds /\ ~ misread
  <2>1. PICK n \in 0 .. ListLength : Follows(n)
      BY <1>1, <1>3 DEF WalkInv
  <2>2. /\ ListAt[n] = LeadsTo(device, offset)
        /\ offset \in Nat /\ iterations \in Nat
        /\ Aligned(offset) # 0
      BY <1>1, <2>1, AtPointer
  <2>3. ListAt[n] = Aligned(offset) /\ ListAt[n] # 0
      BY <1>1, <2>2 DEF LeadsTo, MayLook, Here
  <2>4. n \in Nat /\ n + 1 \in 0 .. ListLength
      BY <1>3, <2>1, <2>3, BeforeEnd
  <2>5. PointerAt(device, ListAt, n + 1) = offset'
    <3>1. PointerAt(device, ListAt, n + 1) = device.caps[ListAt[n]].next
        BY <2>3, <2>4, PointerBehind DEF ListAt
    <3> QED
        BY <3>1, <2>3, <1>1 DEF Here
  <2>6. PointerAt(device', ListAt', n + 1) = offset'
      BY <2>5, <1>1, ListStays DEF WalkStays
  <2>7. Iterations - iterations' <= n + 1
      BY <1>1, <2>1, <2>2, <2>4, LengthBounded DEF Follows
  <2>8. ASSUME NEW t \in Structures
        PROVE  capabilities'[t] = LastBelow(n + 1, t)'
    <3>1. ~ Matches(n, t)
        BY <2>3, <1>1 DEF Matches, Here
    <3>2. LastBelow(n + 1, t) = LastBelow(n, t)
        BY <3>1, <2>4, LastBelowMore
    <3>3. capabilities[t] = LastBelow(n, t)
        BY <2>1 DEF Follows, TakenBelow
    <3> QED
        BY <3>2, <3>3, <1>1, ListStays DEF WalkStays
  <2>9. Follows(n + 1)'
      BY <2>6, <2>7, <2>8 DEF Follows, TakenBelow
  <2> QED
      BY <1>1, <2>4, <2>9 DEF WalkInv
<1> QED
    BY <1>2, <1>3

LEMMA LookFindsKeepsWalk ==
    ASSUME TypeInv, WalkInv, LookFinds
    PROVE  WalkInv'
<1>1. /\ WalkStays /\ UNCHANGED capabilities /\ pc' = "vendor" /\ pc = "loop"
      /\ misread' = misread /\ device' = device
      /\ MayLook /\ Here.id = VENDOR /\ offset' = Aligned(offset)
    BY DEF LookFinds, Read, WalkStays, lifeVars, barVars, TypeInv
<1>2. CASE ~ ListEnds \/ misread
  <2>1. ~ ListEnds' \/ misread'
      BY <1>1, <1>2, ListStays DEF WalkStays
  <2> QED
      BY <2>1 DEF WalkInv
<1>3. CASE ListEnds /\ ~ misread
  <2>1. PICK n \in 0 .. ListLength : Follows(n)
      BY <1>1, <1>3 DEF WalkInv
  <2>2. /\ ListAt[n] = LeadsTo(device, offset)
        /\ offset \in Nat /\ Aligned(offset) # 0
      BY <1>1, <2>1, AtPointer
  <2>3. ListAt[n] = Aligned(offset) /\ ListAt[n] # 0
      BY <1>1, <2>2 DEF LeadsTo, MayLook, Here, VENDOR, NoCapability
  <2>4. n \in 0 .. ListLength - 1
      BY <1>3, <2>1, <2>3, BeforeEnd
  <2>5. ListAt'[n] = offset' /\ device'.caps[offset'].id = VENDOR
      BY <1>1, <2>3, ListStays DEF WalkStays, Here
  <2>6. TakenBelow(n)'
      BY <1>1, <2>1, ListStays DEF WalkStays, Follows, TakenBelow
  <2> QED
      BY <1>1, <2>4, <2>5, <2>6 DEF WalkInv, IsAt
<1> QED
    BY <1>2, <1>3

LEMMA VendorKeepsWalk ==
    ASSUME TypeInv, WalkInv, VendorCapability
    PROVE  WalkInv'
<1>1. CASE Fails
    BY <1>1, MisreadWalk DEF Fails
<1>2. CASE Read /\ capabilities' = Noted(Here.what)
  <2>1. /\ WalkStays /\ pc' = "next" /\ pc = "vendor"
        /\ misread' = misread /\ device' = device /\ offset' = offset
      BY <1>2 DEF VendorCapability, Read, WalkStays, lifeVars, barVars, TypeInv
  <2>2. CASE ~ ListEnds \/ misread
    <3>1. ~ ListEnds' \/ misread'
        BY <2>1, <2>2, ListStays DEF WalkStays
    <3> QED
        BY <3>1 DEF WalkInv
  <2>3. CASE ListEnds /\ ~ misread
    <3>1. PICK n \in 0 .. ListLength - 1 : IsAt(n)
        BY <2>1, <2>3 DEF WalkInv
    <3>2. offset \in Slots /\ offset # 0 /\ Aligned(offset) = offset /\ n \in Nat
        BY <2>1, <3>1, SlotPointer, LengthBounded DEF TypeInv
    <3>3. ListAt[n] = offset /\ device.caps[offset].id = VENDOR
        BY <3>1 DEF IsAt
    <3> DEFINE c == device.caps[offset].what
    <3>4. Here.what = c /\ c.type \in Nat
        BY <3>2, DeviceTypes, ContentTypes DEF Here, TypeInv
    <3>5. ASSUME NEW t \in Structures
          PROVE  capabilities'[t] = LastBelow(n + 1, t)'
      <4>1. LastBelow(n + 1, t)' = LastBelow(n + 1, t)
          BY <2>1, ListStays DEF WalkStays
      <4>2. LastBelow(n + 1, t) = IF Matches(n, t) THEN ListAt[n] ELSE LastBelow(n, t)
          BY <3>2, LastBelowMore
      <4>3. capabilities[t] = LastBelow(n, t)
          BY <3>1 DEF IsAt, TakenBelow
      <4>4. Matches(n, t) <=> Usable(c) /\ c.type = t
          BY <3>2, <3>3 DEF Matches
      <4> HIDE DEF c
      <4>5. CASE Usable(c)
        <5>1. t \in 0 .. PCI - 1
            BY DEF Structures, COMMON, NOTIFY, ISR, DEVICE, PCI
        <5>2. capabilities' = [capabilities EXCEPT ![c.type] = offset]
            BY <1>2, <3>4, <4>5 DEF Noted
        <5>3. capabilities'[t] = IF c.type = t THEN offset ELSE capabilities[t]
            BY <5>1, <5>2 DEF TypeInv
        <5> QED
            BY <5>3, <4>1, <4>2, <4>3, <4>4, <4>5, <3>3
      <4>6. CASE ~ Usable(c)
        <5>1. capabilities' = capabilities
            BY <1>2, <3>4, <4>6 DEF Noted
        <5> QED
            BY <5>1, <4>1, <4>2, <4>3, <4>4, <4>6
      <4> QED
          BY <4>5, <4>6
    <3>6. ListAt'[n] = offset'
        BY <2>1, <3>3, ListStays DEF WalkStays
    <3>7. IsDoneWith(n)'
        BY <3>5, <3>6 DEF IsDoneWith, TakenBelow
    <3> QED
        BY <2>1, <3>1, <3>7 DEF WalkInv
  <2> QED
      BY <2>2, <2>3
<1> QED
    BY <1>1, <1>2 DEF VendorCapability

LEMMA NextKeepsWalk ==
    ASSUME TypeInv, WalkInv, NextVendorCapability
    PROVE  WalkInv'
<1>1. CASE Fails
    BY <1>1, MisreadWalk DEF Fails
<1>2. CASE Read /\ pc' = "loop" /\ offset' = Here.next /\ iterations' = Iterations
  <2>1. /\ WalkStays /\ UNCHANGED capabilities /\ pc = "next"
        /\ misread' = misread /\ device' = device
      BY <1>2 DEF NextVendorCapability, Read, WalkStays, lifeVars, barVars, TypeInv
  <2>2. CASE ~ ListEnds \/ misread
    <3>1. ~ ListEnds' \/ misread'
        BY <2>1, <2>2, ListStays DEF WalkStays
    <3> QED
        BY <3>1 DEF WalkInv
  <2>3. CASE ListEnds /\ ~ misread
    <3>1. PICK n \in 0 .. ListLength - 1 : IsDoneWith(n)
        BY <2>1, <2>3 DEF WalkInv
    <3>2. /\ offset # 0 /\ Aligned(offset) = offset
          /\ n \in Nat /\ n + 1 \in 0 .. ListLength
        BY <2>1, <3>1, SlotPointer, LengthBounded DEF TypeInv
    <3>3. ListAt[n] = offset
        BY <3>1 DEF IsDoneWith
    <3>4. PointerAt(device, ListAt, n + 1) = device.caps[ListAt[n]].next
        BY <3>2, <3>3, PointerBehind DEF ListAt
    <3>5. PointerAt(device', ListAt', n + 1) = offset'
        BY <3>2, <3>3, <3>4, <1>2, <2>1, ListStays DEF WalkStays, Here
    <3>6. Iterations - iterations' <= n + 1
        BY <1>2, <3>2, LengthBounded
    <3>7. TakenBelow(n + 1)'
        BY <2>1, <3>1, ListStays DEF WalkStays, IsDoneWith, TakenBelow
    <3>8. Follows(n + 1)'
        BY <3>5, <3>6, <3>7 DEF Follows
    <3> QED
        BY <1>2, <3>2, <3>8 DEF WalkInv
  <2> QED
      BY <2>2, <2>3
<1> QED
    BY <1>1, <1>2 DEF NextVendorCapability

(* Off the walk.                                                           *)
LEMMA NoWalk == pc' \notin {"loop", "vendor", "next", "map"} => WalkInv'
    BY DEF WalkInv

LEMMA WalkAsItIs ==
    ASSUME WalkInv,
           UNCHANGED <<device, pc, bars, offset, iterations, capabilities, misread>>
    PROVE  WalkInv'
<1>1. ListAt' = ListAt /\ (ListEnds' <=> ListEnds)
    BY ListStays
<1>2. ASSUME NEW n
      PROVE  TakenBelow(n)' <=> TakenBelow(n)
    BY ListStays DEF TakenBelow
<1>3. ASSUME NEW n
      PROVE  /\ Follows(n)' <=> Follows(n)
             /\ IsAt(n)' <=> IsAt(n)
             /\ IsDoneWith(n)' <=> IsDoneWith(n)
    BY <1>1, <1>2 DEF Follows, IsAt, IsDoneWith
<1>4. \A t \in Structures : Meant(t)' = Meant(t)
    BY ListStays
<1> QED
    BY <1>1, <1>3, <1>4 DEF WalkInv

LEMMA MapLeaves ==
    ASSUME NEW mapped, MapCommon(mapped) \/ MapIsr(mapped) \/ MapNotify(mapped)
                       \/ MapConfig(mapped) \/ \E q \in Queues : SetupQueue(q, mapped)
    PROVE  pc' \notin {"loop", "vendor", "next", "map"}
<1>1. ASSUME NEW c, NEW region, NEW s, NEW next,
             MapFrom(c, region, mapped, Store(s, next, region))
      PROVE  pc' \in {"wild", "failed", next}
    BY <1>1 DEF MapFrom, Store
<1>2. ASSUME NEW c, NEW region, NEW q, NEW next,
             MapFrom(c, region, mapped, StorePriv(q, next, region))
      PROVE  pc' \in {"wild", "failed", next}
    BY <1>2 DEF MapFrom, StorePriv
<1>3. CASE MapCommon(mapped)
  <2>1. \/ pc' = "failed"
        \/ \E c, r : MapFrom(c, r, mapped, Store(COMMON, "isr", r))
      BY <1>3 DEF MapCommon
  <2> QED
      BY <1>1, <2>1
<1>4. CASE MapIsr(mapped)
    BY <1>1, <1>4 DEF MapIsr
<1>5. CASE MapNotify(mapped)
    BY <1>1, <1>5 DEF MapNotify
<1>6. CASE MapConfig(mapped)
  <2>1. \/ pc' = "queues"
        \/ \E c, r : MapFrom(c, r, mapped, Store(DEVICE, "queues", r))
      BY <1>6 DEF MapConfig
  <2> QED
      BY <1>1, <2>1
<1>7. ASSUME NEW q \in Queues, SetupQueue(q, mapped)
      PROVE  pc' \notin {"loop", "vendor", "next", "map"}
  <2>1. QueuesDone(q) \in {"ready", "queues"}
      BY DEF QueuesDone
  <2>2. CASE at[NOTIFY] # Null
    <3>1. pc' \in {QueuesDone(q), "failed"}
        BY <1>7, <2>2 DEF SetupQueue, StorePriv
    <3> QED
        BY <2>1, <3>1
  <2>3. CASE at[NOTIFY] = Null
    <3>1. pc' \in {"wild", "failed", QueuesDone(q)}
        BY <1>2, <1>7, <2>3 DEF SetupQueue
    <3> QED
        BY <2>1, <3>1
  <2> QED
      BY <2>2, <2>3
<1> QED
    BY <1>3, <1>4, <1>5, <1>6, <1>7

LEMMA WalkNext ==
    ASSUME TypeInv, WalkInv, [Next]_vars
    PROVE  WalkInv'
<1>1. CASE Walks
    BY <1>1, InitializeKeepsWalk, LookEndsKeepsWalk, LookOnKeepsWalk, LookFindsKeepsWalk,
       VendorKeepsWalk, NextKeepsWalk DEF Walks
<1>2. CASE \E read \in BOOLEAN : ResourcesInit(read)
  <2>1. pc' \in {"initialize", "failed"}
      BY <1>2 DEF ResourcesInit
  <2> QED
      BY <2>1, NoWalk
<1>3. ASSUME NEW mapped \in BOOLEAN,
             \/ LegacyInitialize(mapped)
             \/ MapCommon(mapped) \/ MapIsr(mapped) \/ MapNotify(mapped) \/ MapConfig(mapped)
             \/ \E q \in Queues : SetupQueue(q, mapped)
      PROVE  WalkInv'
  <2>1. CASE LegacyInitialize(mapped)
      BY <2>1, NoWalk DEF LegacyInitialize
  <2>2. CASE \/ MapCommon(mapped) \/ MapIsr(mapped) \/ MapNotify(mapped) \/ MapConfig(mapped)
             \/ \E q \in Queues : SetupQueue(q, mapped)
      BY <2>2, MapLeaves, NoWalk
  <2> QED
      BY <1>3, <2>1, <2>2
<1>4. CASE PowerCycle \/ DeleteDevice \/ StartDevice
  <2>1. pc' \in {"initialize", "none", "resources"}
      BY <1>4 DEF PowerCycle, DeleteDevice, StartDevice
  <2> QED
      BY <2>1, NoWalk
<1>5. CASE ConfigChanges \/ CreadBegins \/ CreadField \/ CreadEnds \/ CreadReturns
  <2>1. UNCHANGED <<device, pc, bars, offset, iterations, capabilities, misread>>
      BY <1>5 DEF ConfigChanges, CreadBegins, CreadField, CreadEnds, CreadReturns, Reading,
                  lifeVars, barVars, walkVars
  <2> QED
      BY <2>1, WalkAsItIs
<1>6. CASE UNCHANGED vars
    BY <1>6, WalkAsItIs DEF vars, lifeVars, barVars, walkVars
<1> QED
    BY <1>1, <1>2, <1>3, <1>4, <1>5, <1>6 DEF Next, Initializes

(* Of each type of structure the last usable capability of the list is taken, *)
(* whatever the list holds, if it ends and no read failed: LastUsableTaken.    *)
THEOREM WalkCorrect == Spec => []LastUsableTaken
<1>1. WalkInv => LastUsableTaken
    BY DEF WalkInv, LastUsableTaken
<1>2. SetUpInv => TypeInv
    BY DEF SetUpInv
<1>3. Spec => []WalkInv
    BY <1>2, WalkStart, WalkNext, SetUpKept, PTL DEF Spec
<1> QED
    BY <1>1, <1>3, PTL
=============================================================================
