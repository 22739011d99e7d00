------------------------------ MODULE VirtRing ------------------------------
(***************************************************************************)
(* The split virtqueue of VirtIO/VirtIORing.c: descriptor table with its    *)
(* free list, available and used rings with 16-bit indices, and the two     *)
(* suppression protocols (kicks to the device, interrupts to the driver).   *)
(* The driver side runs under the caller's lock, so one driver operation is *)
(* active at a time; the device runs concurrently with it.  virtqueue_      *)
(* add_buf is therefore two steps (fill the descriptors and the ring entry, *)
(* expose avail->idx), because the device can run between them.             *)
(***************************************************************************)
EXTENDS Integers, FiniteSets, Sequences

CONSTANTS
    Num,            (* vring.num, a power of two                            *)
    IdxMod,         (* the indices are counted modulo this, 2^16 in the code *)
    Tokens,         (* the data cookies                                     *)
    NoToken,        (* a NULL data pointer                                  *)
    Shapes,         (* the <<out, in>> pairs the callers ask for            *)
    Setups          (* how a queue may be constructed and used, see SetupOK *)

ASSUME NumAssumption == Num \in Nat \ {0} /\ \E k \in 0 .. 15 : Num = 2 ^ k
ASSUME IdxAssumption == IdxMod \in Nat /\ IdxMod % (2 * Num) = 0 /\ IdxMod > 2
ASSUME TokenAssumption == NoToken \notin Tokens
ASSUME ShapeAssumption ==
    \A s \in Shapes : s[1] \in Nat /\ s[2] \in Nat /\ s[1] + s[2] \in 1 .. Num

(* vqEvent is vq->event; devEvent says that the device goes by the event    *)
(* indices and not by the flags; kickEach, that every add is followed by    *)
(* kick_always (this driver); callbacks, that callers turn interrupts off   *)
(* while they poll; polled, that both sides poll and the device neither     *)
(* sleeps nor signals; faulty, that it may post a used id that is no head;   *)
(* indirect, that callers pass an indirect table.                          *)
SetupOK == [vqEvent : BOOLEAN, devEvent : BOOLEAN, kickEach : BOOLEAN,
            callbacks : BOOLEAN, polled : BOOLEAN, faulty : BOOLEAN,
            indirect : BOOLEAN]
ASSUME SetupAssumption == Setups \subseteq SetupOK

(* Where the queue goes by event indices that the device does not keep, no  *)
(* caller relies on kick_prepare.                                          *)
ASSUME KickAssumption == \A s \in Setups : s.vqEvent => s.devEvent \/ s.kickEach

VARIABLES
    desc, freeHead, numFree, data,      (* descriptor table and its owner   *)
    table,          (* the indirect table passed with each head's buffer    *)
    availRing, availIdx, numAdded,      (* written by the driver            *)
    noInterrupt, usedEvent, lastUsed,
    usedRing, usedIdx, availEvent, noNotify,    (* written by the device    *)
    devLast, inflight, devState, signalled,     (* the device's own state   *)
    notified, intr,                     (* doorbell and interrupt in flight *)
    setup,          (* fixed when the queue is made                         *)
    spurious,       (* history: the device has posted an id that is no head *)
    adding,         (* head filled and not exposed yet, or Num              *)
    enabling,       (* interrupts are on, the used ring is still to be       *)
                    (* looked at: "no", "next" (enable_cb) or "delayed"      *)
    polling,        (* the driver is calling get_buf until it returns NULL  *)
    shape           (* history: what was asked for each head in use         *)

tableVars == <<desc, freeHead, numFree, data, table, shape>>
driverVars == <<availRing, availIdx, numAdded, noInterrupt, usedEvent, lastUsed>>
deviceVars == <<usedRing, usedIdx, availEvent, noNotify, devLast, inflight,
                devState, signalled>>
vars == <<tableVars, driverVars, deviceVars, notified, intr, adding, enabling, polling,
          setup, spurious>>

Slots == 0 .. Num - 1
Idx == 0 .. IdxMod - 1
NoHead == Num
Flag == {"NEXT", "WRITE", "INDIRECT"}

(* Unsigned 16-bit arithmetic on indices.                                  *)
Minus(a, b) == (a - b) % IdxMod
Plus(a, b) == (a + b) % IdxMod

(* vring_need_event: did the step from old to new pass event?              *)
NeedEvent(event, new, old) == Minus(new, event + 1) < Minus(new, old)

MoreUsed == lastUsed # usedIdx
HeadsInUse == {h \in Slots : data[h] # NoToken}

-----------------------------------------------------------------------------
(* The n + 1 descriptors reached from h by the next links.                 *)
LinksFrom(h, n) ==
    LET at[k \in 0 .. n] == IF k = 0 THEN h ELSE desc[at[k - 1]].next
    IN  at

(* The chain of head h: the links are followed while NEXT is set.          *)
ChainFrom(h) ==
    LET Following(d) == IF "NEXT" \in desc[d].flags THEN desc[d].next ELSE d
        at[k \in 0 .. Num] == IF k = 0 THEN h ELSE Following(at[k - 1])
    IN  at

ChainSlots(h) == LET at == ChainFrom(h) IN {at[k] : k \in 0 .. Num}
ChainEnd(h) == ChainFrom(h)[Num]

(* Deviation: the first writable descriptor is marked readable.            *)
DescFlagsOffByOne(out, in, k) ==
    (IF k < out + in - 1 THEN {"NEXT"} ELSE {})
        \cup (IF k > out THEN {"WRITE"} ELSE {})

(* Flags of the k-th of out + in descriptors.                              *)
DescFlags(out, in, k) ==
    (IF k < out + in - 1 THEN {"NEXT"} ELSE {})
        \cup (IF k >= out THEN {"WRITE"} ELSE {})

FreshDesc == [d \in Slots |-> [next |-> (d + 1) % Num, flags |-> {}]]
FirstState == IF setup.polled THEN "awake" ELSE "asleep"
Every(v) == [d \in Slots |-> v]

(* initialize_virtqueue on zeroed pages.                                   *)
Init ==
    /\ setup \in Setups /\ spurious = FALSE
    /\ desc = FreshDesc /\ freeHead = 0 /\ numFree = Num
    /\ data = Every(NoToken) /\ table = Every(<<>>) /\ shape = Every(<<0, 0>>)
    /\ availRing = Every(0) /\ availIdx = 0 /\ numAdded = 0
    /\ noInterrupt = FALSE /\ usedEvent = 0 /\ lastUsed = 0
    /\ usedRing = Every(0) /\ usedIdx = 0 /\ availEvent = 0 /\ noNotify = FALSE
    /\ devLast = 0 /\ inflight = {} /\ devState = FirstState /\ signalled = 0
    /\ notified = FALSE /\ intr = FALSE
    /\ adding = NoHead /\ enabling = "no" /\ polling = FALSE

-----------------------------------------------------------------------------
(* The driver, between its operations, and a device that is not in reset.  *)
Ready == adding = NoHead /\ enabling = "no" /\ devState # "reset"

(* virtqueue_add_buf up to the write barrier, the direct branch.           *)
AddDirect(t, s) ==
    LET n == s[1] + s[2]
        at == LinksFrom(freeHead, n)
    IN  /\ ~ (setup.indirect /\ n > 1 /\ numFree > 0)
        /\ numFree >= n
        /\ numFree' = numFree - n
        /\ desc' = [d \in Slots |->
                      IF \E k \in 0 .. n - 1 : at[k] = d
                      THEN [next |-> desc[d].next,
                            flags |-> DescFlags(s[1], s[2],
                                        CHOOSE k \in 0 .. n - 1 : at[k] = d)]
                      ELSE desc[d]]
        /\ freeHead' = at[n]
        /\ shape' = [shape EXCEPT ![freeHead] = s]
        /\ UNCHANGED table

(* The caller's table, as vring_add_indirect fills it from the buffer's parts. *)
IndirectTable(out, in) ==
    [k \in 0 .. out + in - 1 |->
        [next |-> IF k < out + in - 1 THEN k + 1 ELSE 0, flags |-> DescFlags(out, in, k)]]

(* vring_add_indirect: one descriptor that points to the caller's table.   *)
AddIndirect(t, s) ==
    /\ setup.indirect /\ s[1] + s[2] > 1 /\ numFree > 0
    /\ table' = [table EXCEPT ![freeHead] = IndirectTable(s[1], s[2])]
    /\ numFree' = numFree - 1
    /\ desc' = [desc EXCEPT ![freeHead].flags = {"INDIRECT"}]
    /\ freeHead' = desc[freeHead].next
    /\ shape' = [shape EXCEPT ![freeHead] = s]

AddFill(t, s) ==
    /\ Ready
    /\ setup.kickEach => numAdded = 0
    /\ t \notin {data[h] : h \in Slots}
    /\ AddDirect(t, s) \/ AddIndirect(t, s)
    /\ data' = [data EXCEPT ![freeHead] = t]
    /\ availRing' = [availRing EXCEPT ![availIdx % Num] = freeHead]
    /\ adding' = freeHead
    /\ UNCHANGED <<availIdx, numAdded, noInterrupt, usedEvent, lastUsed,
                   deviceVars, notified, intr, enabling, polling, setup, spurious>>

(* No room: -ENOSPC, after a forced notify when there are outgoing parts.  *)
AddNoSpace(s) ==
    /\ Ready
    /\ setup.kickEach => numAdded = 0
    /\ numFree < s[1] + s[2]
    /\ setup.indirect /\ s[1] + s[2] > 1 => numFree = 0
    /\ notified' = (notified \/ s[1] > 0)
    /\ UNCHANGED <<tableVars, driverVars, deviceVars, intr, adding, enabling, polling,
                   setup, spurious>>

(* Deviation: num_added is one short.                                      *)
NeedsKickOffByOne(new, added) ==
    IF setup.vqEvent THEN NeedEvent(availEvent, new, Minus(new, added - 1))
               ELSE ~ noNotify

(* virtqueue_kick_prepare: whether the new entries must be announced.      *)
NeedsKick(new, added) ==
    IF setup.vqEvent THEN NeedEvent(availEvent, new, Minus(new, added))
               ELSE ~ noNotify

(* The rest of virtqueue_add_buf: the entry becomes visible to the device; *)
(* at 2^16 - 1 entries without a kick the queue kicks by itself.           *)
AddExpose ==
    /\ adding # NoHead
    /\ adding' = NoHead
    /\ availIdx' = Plus(availIdx, 1)
    /\ IF numAdded + 1 = IdxMod - 1
       THEN /\ numAdded' = 0
            /\ notified' = (notified \/ NeedsKick(availIdx', numAdded + 1))
       ELSE /\ numAdded' = numAdded + 1
            /\ UNCHANGED notified
    /\ UNCHANGED <<tableVars, availRing, noInterrupt, usedEvent, lastUsed,
                   deviceVars, intr, enabling, polling, setup, spurious>>

(* virtqueue_kick: kick_prepare and, when it says so, notify.              *)
Kick ==
    /\ Ready
    /\ ~ setup.kickEach
    /\ numAdded' = 0
    /\ notified' = (notified \/ NeedsKick(availIdx, numAdded))
    /\ UNCHANGED <<tableVars, availRing, availIdx, noInterrupt, usedEvent,
                   lastUsed, deviceVars, intr, adding, enabling, polling, setup,
                   spurious>>

(* Deviation: kick_always asks kick_prepare first.                         *)
KickAlwaysPrepared ==
    /\ Ready
    /\ numAdded' = 0
    /\ notified' = (notified \/ NeedsKick(availIdx, numAdded))
    /\ UNCHANGED <<tableVars, availRing, availIdx, noInterrupt, usedEvent,
                   lastUsed, deviceVars, intr, adding, enabling, polling, setup,
                   spurious>>

(* virtqueue_kick_always, the only kick viogpu uses.                       *)
KickAlways ==
    /\ Ready
    /\ numAdded' = 0
    /\ notified' = TRUE
    /\ UNCHANGED <<tableVars, availRing, availIdx, noInterrupt, usedEvent,
                   lastUsed, deviceVars, intr, adding, enabling, polling, setup,
                   spurious>>

(* Deviation: the free list is hooked to the head instead of the chain's end.*)
DetachBufHeadOnly(h) ==
    /\ data' = [data EXCEPT ![h] = NoToken]
    /\ numFree' = numFree + Cardinality(ChainSlots(h))
    /\ desc' = [desc EXCEPT ![h].next = freeHead]
    /\ freeHead' = h
    /\ shape' = [shape EXCEPT ![h] = <<0, 0>>]
    /\ UNCHANGED table

(* Deviation: one descriptor is counted free whatever the chain's length.   *)
DetachBufCountsOne(h) ==
    /\ data' = [data EXCEPT ![h] = NoToken]
    /\ numFree' = numFree + 1
    /\ desc' = [desc EXCEPT ![ChainEnd(h)].next = freeHead]
    /\ freeHead' = h
    /\ shape' = [shape EXCEPT ![h] = <<0, 0>>]
    /\ UNCHANGED table

(* detach_buf: the chain of h goes back to the front of the free list.     *)
DetachBuf(h) ==
    /\ data' = [data EXCEPT ![h] = NoToken]
    /\ numFree' = numFree + Cardinality(ChainSlots(h))
    /\ desc' = [desc EXCEPT ![ChainEnd(h)].next = freeHead]
    /\ freeHead' = h
    /\ shape' = [shape EXCEPT ![h] = <<0, 0>>]
    /\ UNCHANGED table

(* Deviation: the id in the used entry is taken on trust.                   *)
GetBufTrusting ==
    LET h == usedRing[lastUsed % Num]
    IN  /\ Ready
        /\ MoreUsed /\ h \in Slots
        /\ DetachBuf(h)
        /\ lastUsed' = Plus(lastUsed, 1)
        /\ usedEvent' = IF noInterrupt THEN usedEvent ELSE lastUsed'
        /\ polling' = TRUE
        /\ UNCHANGED <<availRing, availIdx, numAdded, noInterrupt,
                       deviceVars, notified, intr, adding, enabling, setup, spurious>>

(* virtqueue_get_buf with a valid used entry.  The caller goes on calling   *)
(* it until it returns NULL.                                               *)
GetBuf ==
    LET h == usedRing[lastUsed % Num]
    IN  /\ Ready
        /\ MoreUsed
        /\ h \in HeadsInUse
        /\ DetachBuf(h)
        /\ lastUsed' = Plus(lastUsed, 1)
        /\ usedEvent' = IF noInterrupt THEN usedEvent ELSE lastUsed'
        /\ polling' = TRUE
        /\ UNCHANGED <<availRing, availIdx, numAdded, noInterrupt,
                       deviceVars, notified, intr, adding, enabling, setup, spurious>>

(* virtqueue_get_buf returns NULL: nothing used, or BAD_RING on an id that  *)
(* is out of range or no head.  A poller that left interrupts on stops;     *)
(* one that turned them off has to call enable_cb first.                    *)
GetBufNull ==
    /\ Ready
    /\ polling /\ ~ noInterrupt
    /\ MoreUsed => usedRing[lastUsed % Num] \notin HeadsInUse
    /\ polling' = FALSE
    /\ UNCHANGED <<tableVars, driverVars, deviceVars, notified, intr,
                   adding, enabling, setup, spurious>>

(* virtqueue_disable_cb.                                                   *)
DisableCb ==
    /\ Ready /\ setup.callbacks
    /\ ~ noInterrupt
    /\ noInterrupt' = TRUE
    /\ polling' = TRUE
    /\ UNCHANGED <<tableVars, availRing, availIdx, numAdded, usedEvent,
                   lastUsed, deviceVars, notified, intr, adding, enabling, setup,
                   spurious>>

(* virtqueue_enable_cb: interrupts on, used_event at the next entry...      *)
EnableCb ==
    /\ Ready /\ setup.callbacks
    /\ noInterrupt' = FALSE
    /\ usedEvent' = lastUsed
    /\ enabling' = "next" /\ polling' = TRUE
    /\ UNCHANGED <<tableVars, availRing, availIdx, numAdded, lastUsed,
                   deviceVars, notified, intr, adding, setup, spurious>>

(* Deviation: enable_cb does not look at the used ring again.              *)
EnableCbUnchecked ==
    /\ enabling = "next"
    /\ enabling' = "no" /\ polling' = FALSE
    /\ UNCHANGED <<tableVars, driverVars, deviceVars, notified, intr, adding, setup, spurious>>

(* ... and only then a look at the used ring: FALSE (the caller goes on      *)
(* polling) when that entry is already there.                              *)
EnableCbChecks ==
    /\ enabling = "next"
    /\ enabling' = "no" /\ polling' = MoreUsed
    /\ UNCHANGED <<tableVars, driverVars, deviceVars, notified, intr, adding, setup, spurious>>

(* virtqueue_enable_cb_delayed: used_event at 3/4 of the outstanding load.  *)
DelayedBufs == (Minus(availIdx, lastUsed) * 3) \div 4

EnableCbDelayed ==
    /\ Ready /\ setup.callbacks
    /\ noInterrupt' = FALSE
    /\ usedEvent' = Plus(lastUsed, DelayedBufs)
    /\ enabling' = "delayed" /\ polling' = TRUE
    /\ UNCHANGED <<tableVars, availRing, availIdx, numAdded, lastUsed,
                   deviceVars, notified, intr, adding, setup, spurious>>

EnableCbDelayedChecks ==
    /\ enabling = "delayed"
    /\ enabling' = "no" /\ polling' = (Minus(usedIdx, lastUsed) > DelayedBufs)
    /\ UNCHANGED <<tableVars, driverVars, deviceVars, notified, intr, adding, setup, spurious>>

(* An interrupt is taken: the driver calls get_buf until it returns NULL.   *)
TakeInterrupt ==
    /\ Ready
    /\ intr
    /\ intr' = FALSE
    /\ polling' = TRUE
    /\ UNCHANGED <<tableVars, driverVars, deviceVars, notified, adding, enabling,
                   setup, spurious>>

(* virtqueue_detach_unused_buf, of a device that was reset.                *)
DetachUnused ==
    \E h \in HeadsInUse :
        /\ devState = "reset"
        /\ \A g \in HeadsInUse : h <= g
        /\ DetachBuf(h)
        /\ availIdx' = Minus(availIdx, 1)
        /\ UNCHANGED <<availRing, numAdded, noInterrupt, usedEvent,
                       lastUsed, deviceVars, notified, intr, adding, enabling,
                       polling, setup, spurious>>

(* virtqueue_shutdown: the pages are zeroed and the queue initialized again.*)
Shutdown ==
    /\ devState = "reset"
    /\ desc' = FreshDesc /\ freeHead' = 0 /\ numFree' = Num
    /\ data' = Every(NoToken) /\ shape' = Every(<<0, 0>>)
    /\ availRing' = Every(0) /\ availIdx' = 0 /\ numAdded' = 0
    /\ noInterrupt' = FALSE /\ usedEvent' = 0 /\ lastUsed' = 0
    /\ usedRing' = Every(0) /\ usedIdx' = 0
    /\ availEvent' = 0 /\ noNotify' = FALSE
    /\ devLast' = 0 /\ devState' = FirstState /\ signalled' = 0
    /\ polling' = FALSE
    /\ UNCHANGED <<table, inflight, notified, intr, adding, enabling, setup, spurious>>

-----------------------------------------------------------------------------
(* The device (outside the repository).                                    *)

DevWake ==
    /\ devState = "asleep" /\ notified
    /\ notified' = FALSE
    /\ devState' = "awake"
    /\ noNotify' = ~ setup.devEvent
    /\ UNCHANGED <<tableVars, driverVars, usedRing, usedIdx, availEvent,
                   devLast, inflight, signalled, intr, adding, enabling, polling,
                   setup, spurious>>

DevFetch ==
    /\ devState = "awake" /\ devLast # availIdx
    /\ inflight' = inflight \cup {availRing[devLast % Num]}
    /\ devLast' = Plus(devLast, 1)
    /\ UNCHANGED <<tableVars, driverVars, usedRing, usedIdx, availEvent,
                   noNotify, devState, signalled, notified, intr, adding, enabling,
                   polling, setup, spurious>>

(* Nothing left: ask for kicks, then look once more before going to sleep. *)
DevDoze ==
    /\ ~ setup.polled
    /\ devState = "awake" /\ devLast = availIdx
    /\ devState' = "dozing"
    /\ availEvent' = IF setup.devEvent THEN devLast ELSE availEvent
    /\ noNotify' = FALSE
    /\ UNCHANGED <<tableVars, driverVars, usedRing, usedIdx, devLast,
                   inflight, signalled, notified, intr, adding, enabling, polling,
                   setup, spurious>>

DevRecheck ==
    /\ devState = "dozing"
    /\ devState' = IF devLast = availIdx THEN "asleep" ELSE "awake"
    /\ noNotify' = (devLast # availIdx /\ ~ setup.devEvent)
    /\ UNCHANGED <<tableVars, driverVars, usedRing, usedIdx, availEvent,
                   devLast, inflight, signalled, notified, intr, adding, enabling,
                   polling, setup, spurious>>

(* It signals at least once in a pass over the ring.                       *)
PostUsed(h) ==
    /\ Minus(usedIdx, lastUsed) < Num
    /\ setup.polled \/ Minus(usedIdx, signalled) < Num
    /\ usedRing' = [usedRing EXCEPT ![usedIdx % Num] = h]
    /\ usedIdx' = Plus(usedIdx, 1)
    /\ UNCHANGED <<tableVars, driverVars, availEvent, noNotify, devLast,
                   devState, signalled, notified, intr, adding, enabling, polling,
                   setup>>

DevUse(h) ==
    /\ h \in inflight
    /\ PostUsed(h)
    /\ inflight' = inflight \ {h}
    /\ UNCHANGED spurious

DevSpurious ==
    \E h \in (Slots \ HeadsInUse) \cup {NoHead} :
        /\ setup.faulty /\ devState # "reset"
        /\ PostUsed(h)
        /\ spurious' = TRUE
        /\ UNCHANGED inflight

(* After posting: interrupt unless the driver suppressed it.               *)
DevSignal ==
    /\ ~ setup.polled
    /\ signalled # usedIdx
    /\ devState # "reset"
    /\ signalled' = usedIdx
    /\ intr' = (intr \/ IF setup.devEvent THEN NeedEvent(usedEvent, usedIdx, signalled)
                                     ELSE ~ noInterrupt)
    /\ UNCHANGED <<tableVars, driverVars, usedRing, usedIdx, availEvent,
                   noNotify, devLast, inflight, devState, notified, adding, enabling,
                   polling, setup, spurious>>

(* The status register is cleared: the device lets go of everything.       *)
DevReset ==
    /\ Ready
    /\ devState' = "reset"
    /\ inflight' = {}
    /\ notified' = FALSE /\ intr' = FALSE
    /\ UNCHANGED <<tableVars, driverVars, usedRing, usedIdx, availEvent,
                   noNotify, devLast, signalled, adding, enabling, polling, setup,
                   spurious>>

Add == \E s \in Shapes : (\E t \in Tokens : AddFill(t, s)) \/ AddNoSpace(s)

Driver ==
    \/ Add \/ AddExpose \/ Kick \/ KickAlways
    \/ GetBuf \/ GetBufNull \/ DisableCb \/ EnableCb \/ EnableCbChecks
    \/ EnableCbDelayed \/ EnableCbDelayedChecks \/ TakeInterrupt \/ DetachUnused \/ Shutdown

Device == DevWake \/ DevFetch \/ DevDoze \/ DevRecheck
             \/ (\E h \in Slots : DevUse(h)) \/ DevSpurious \/ DevSignal \/ DevReset

Next == Driver \/ Device

Spec == Init /\ [][Next]_vars

(* A driver operation that was begun ends; the driver kicks after adding,   *)
(* takes interrupts, and calls get_buf until it is told to stop; the device *)
(* serves every buffer it was told about.  Nobody has to add, to turn       *)
(* interrupts off or to reset.                                             *)
Fairness ==
    /\ WF_vars(AddExpose)
    /\ WF_vars(numAdded > 0 /\ (Kick \/ KickAlways))
    /\ WF_vars(polling /\ GetBuf) /\ WF_vars(GetBufNull)
    /\ WF_vars(noInterrupt /\ EnableCb) /\ WF_vars(EnableCbChecks)
    /\ WF_vars(EnableCbDelayedChecks) /\ WF_vars(TakeInterrupt)
    /\ WF_vars(DevWake) /\ WF_vars(DevFetch) /\ WF_vars(DevDoze)
    /\ WF_vars(DevRecheck) /\ WF_vars(DevSignal)
    /\ \A h \in Slots : SF_vars(DevUse(h))

FairSpec == Spec /\ Fairness

-----------------------------------------------------------------------------
FreeSlots == LET at == LinksFrom(freeHead, Num) IN {at[k] : k \in 0 .. numFree - 1}

(* Every exposed head is in one place, waiting in the available ring, held  *)
(* by the device, or waiting in the used ring, and a head the driver is     *)
(* still filling is in none: no ring entry is overwritten before it is      *)
(* read, also when the indices wrap.                                       *)
AvailWindow == {availRing[(devLast + k) % Num] :
                  k \in 0 .. Minus(availIdx, devLast) - 1}
UsedWindow == {usedRing[(lastUsed + k) % Num] :
                  k \in 0 .. Minus(usedIdx, lastUsed) - 1}
HeadsTracked ==
    devState # "reset" /\ ~ spurious =>
        /\ AvailWindow \cup inflight \cup UsedWindow = HeadsInUse \ {adding}
        /\ Minus(availIdx, devLast) + Cardinality(inflight)
              + Minus(usedIdx, lastUsed) = Cardinality(HeadsInUse \ {adding})

(* add_buf and detach_buf partition the table: the free list holds exactly  *)
(* num_free distinct descriptors, and with the chains of the heads in use   *)
(* covers every descriptor once, and every head in use is in the rings once. *)
(* An error shows only after several adds and returns in another order.     *)
TableIntact ==
    /\ HeadsTracked
    /\ Cardinality(FreeSlots) = numFree
    /\ \A h \in HeadsInUse : ChainSlots(h) \cap FreeSlots = {}
    /\ \A g, h \in HeadsInUse : g # h => ChainSlots(g) \cap ChainSlots(h) = {}
    /\ FreeSlots \cup UNION {ChainSlots(h) : h \in HeadsInUse} = Slots

(* As long as a head is in use, the device finds under it the chain the     *)
(* caller asked for: out readable descriptors, then in writable ones, in the *)
(* descriptor table or in the table of one indirect descriptor, whatever was *)
(* added or returned since.                                                *)
AsAsked(flags, out, n, k) == ("WRITE" \in flags <=> k >= out) /\ ("NEXT" \in flags <=> k < n - 1)
ChainsAsAsked ==
    \A h \in HeadsInUse :
        LET out == shape[h][1]
            n == shape[h][1] + shape[h][2]
        IN  IF "INDIRECT" \in desc[h].flags
            THEN /\ desc[h].flags = {"INDIRECT"} /\ n > 1
                 /\ DOMAIN table[h] = 0 .. n - 1
                 /\ \A k \in 0 .. n - 1 : /\ AsAsked(table[h][k].flags, out, n, k)
                                         /\ k < n - 1 => table[h][k].next = k + 1
            ELSE /\ Cardinality(ChainSlots(h)) = n
                 /\ \A k \in 0 .. n - 1 : AsAsked(desc[ChainFrom(h)[k]].flags, out, n, k)

(* num_added and the need_event test never lose a kick: a device that went  *)
(* to sleep with entries it has not seen was notified, or the driver has    *)
(* not made its kick call yet.                                             *)
NoLostKick ==
    devState = "asleep" /\ devLast # availIdx /\ adding = NoHead
        => notified \/ numAdded > 0

(* used_event and the re-check in enable_cb never lose an interrupt: when a *)
(* driver that stopped polling with interrupts on has more used entries     *)
(* than it asked to wait for, an interrupt is coming.                       *)
NoLostInterrupt ==
    /\ ~ polling /\ ~ noInterrupt
    /\ signalled = usedIdx /\ devState # "reset" /\ ~ setup.polled
    /\ Minus(usedIdx, lastUsed) > Minus(usedEvent, lastUsed)
    => intr

(* The ring implements the bounded token store of VirtQueueSpec.           *)
UsedTokens ==
    LET kept[k \in 0 .. Minus(usedIdx, lastUsed)] ==
          IF k = 0 THEN <<>>
          ELSE LET t == data[usedRing[(lastUsed + (k - 1)) % Num]]
               IN  IF t = NoToken THEN kept[k - 1] ELSE Append(kept[k - 1], t)
    IN  kept[Minus(usedIdx, lastUsed)]

Queue == INSTANCE VirtQueueSpec WITH
    Capacity <- Num,
    device <- {data[h] : h \in HeadsInUse \ UsedWindow},
    used <- UsedTokens,
    room <- numFree,
    cost <- [t \in Tokens |->
               IF \E h \in Slots : data[h] = t
               THEN Cardinality(ChainSlots(CHOOSE h \in Slots : data[h] = t))
               ELSE 0]

ImplementsQueue == Queue!QSpec

(* Under the fairness above every token that was added comes back, unless   *)
(* the device is reset: neither side sleeps while the other waits for it.   *)
EveryTokenReturns ==
    \A t \in Tokens :
        (\E h \in Slots : data[h] = t)
            ~> ((\A h \in Slots : data[h] # t) \/ devState = "reset")
=============================================================================
