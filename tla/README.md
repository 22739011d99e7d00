# A TLA+ project for the virtio-gpu display driver

The repository holds a Windows kernel-mode display-only driver (KMDOD) for the
virtio-gpu device: `viogpudo.sys`, built from `viogpu/viogpudo`, `viogpu/common`
and the virtio library in `VirtIO/` (all paths below `virtio-gpu-win/`). This
directory holds TLA+ modules that model it, TLC configurations that check them
on small instances, and TLAPS proofs of what holds for every instance.

    tlc -config MCVirtRing_table.cfg MCVirtRing      # one file per run: MC<Module>_<run>.cfg
    tlapm VirtRing_proofs.tla                        # likewise GpuCommand, GpuResources, VidPn,
                                                     # ModeList, DeviceLife, VirtioPci, Present

Contents: 1 the system and its parts, 2 the plan, 3 the modules and the code,
4 the runs, 5 fairness, 6 the proofs, 7 findings, 8 what is not modelled.

## 1. The system

### Contexts and how they interact

| Context | Code | Runs concurrently with |
| --- | --- | --- |
| thread of dxgkrnl in a DDI | `driver.cpp`, `VioGpuDod::*` | interrupts, DPC, worker; dxgkrnl makes one life-cycle or mode call at a time, and no display call during a power change or a stop |
| configuration worker | `GpuDevice::ThreadWorkRoutine` | everything, the whole life of the device included |
| interrupt routine | `GpuDevice::InterruptRoutine` | everything; reading the status register clears it |
| DPC | `GpuDevice::DpcRoutine` | everything but itself |
| device (host) | external | everything |

A DDI or the worker takes a *vbuf* from the pool, fills it, adds it to the
control or the cursor queue and kicks. Only `AskDisplayInfo` waits for the
answer, on an event on its own stack. The device answers and interrupts; the
interrupt routine ORs a reason into `m_PendingWorks` and queues the DPC; the DPC
exchanges the reasons with 0, drains the queues, releases each vbuf or sets the
event of the thread that asked, and signals the worker after a configuration
change. The worker asks for the display's size and writes it into the mode list,
which dxgkrnl's thread reads without a lock. Power changes and the unload reset
the device and drop both queues under all of this.

### Components

| Component | State it keeps | Operations | What is hard | What makes it correct |
| --- | --- | --- | --- | --- |
| Split ring (`VirtIORing.c`) | descriptor table and free list, the two rings, shadows of the indices, `num_added` | add_buf (direct, indirect), kick, kick_always, get_buf, enable/disable/delayed callbacks, detach_unused_buf, shutdown | two sides sharing memory; 16-bit indices that wrap; suppression of kicks and interrupts | table partitioned; every head in one place; no lost kick or interrupt; a token comes back once, in order of completion, and eventually |
| Command issue (`viogpu_queue.cpp`, `viogpudo.cpp`) | pool of vbufs, two queues, `m_PendingWorks`, the event pointer of a vbuf | Alloc*, QueueBuffer, QueueCursor, DequeueBuffer, FreeBuf, AskDisplayInfo, ISR, DPC, worker | five contexts; waits without timeout; resets that drop what is in flight | a vbuf has one owner; no event of a dead stack frame is set; no completion without a wakeup; waits end |
| Host resources (`viogpu_idr.cpp`, `VioGpuObj`, frame buffer and cursor) | id bitmap, `m_pFrameBuf`, `m_pCursorBuf`, `FrameBuffer.Ptr`, visibility, and the host's resources | SetCurrentMode, SetPointerShape/Position, PresentDisplayOnly, power, SystemDisplayEnable | commands nobody waits for; memory and ids reused before the host has worked them off; failing allocations; resets | bitmap agrees with the objects; the host ends up with the driver's view; nothing dangling is written |
| VidPN negotiation (`EnumVidPnCofuncModality`, `CommitVidPn`, `RecommendMonitorModes`) | handles in local variables, dxgkrnl's mode sets | the calls on dxgkrnl's interfaces | some 25 calls in a loop, each may fail, ownership of up to six handles | nothing is used after its release or kept; what is offered is what is neither pivot nor pinned |
| Mode list (`GetModeList`, `SetCustomDisplay`) | `m_ModeInfo`, `m_ModeCount`, `m_CustomMode`, `DispInfo` | fill, worker's update, reads in enumeration and commit | fields written one by one while read; slots overwritten between offer and commit; start-up race; truncation to USHORT | fixed modes are exact; the newest size survives one more change; no mode below the minimum |
| Device life cycle (`HWInit`, `GpuDeviceInit/Close`, `VirtIOPCICommon.c`, `VirtIOPCIModern.c`) | status register, queue registers, queue memory, `VirtIODevice.info`, flags | start, stop, power, remove; initialize, features, find/delete queues | fifteen steps that may fail; a power state that is set twice, or changed while the driver is not active | a running device finds allocated rings; memory is freed once, and lost only where known; calls return |
| Presentation (`PresentDisplayOnly`, `bitops.cpp`, `FindUpdateRect`) | frame buffer and cursor memory, `Rotation`, `SourceNotVisible`, the commands and the host's copies | present of moves and dirty rectangles, rotation, visibility, pointer shapes | the host shows the memory as it is when it gets to a command; signed pitches of turned copies; copies that fault; a full queue | no copy outside a surface; the frame buffer, and in the end the screen, hold the desktop |
| PCI capabilities and BARs (`VirtIOPCIModern.c:276-594`, `viogpu_pci.cpp`, `VirtIOPCICommon.c:141-165`) | BAR table, offsets of the structures, mapped addresses, notification addresses | resources, walk, map, unmap, set-up of a queue, reads of configuration fields | lists and lengths are the device's; reads whose failure goes unseen; configuration that changes while it is read | the last usable capability is taken; accesses and kicks are inside a mapped BAR; a wide field is of one moment; the walk ends |
| Legacy transport (`VirtIOPCILegacy.c`) | | | unreachable beyond reset, see 8 | |
| VGA device (`viogpudo.cpp:1994-2479`) | | VBE calls | none beyond data | |
| DDI wrappers, registry, logging, build | | forwarding, I/O | | |

What can go wrong in them and a test would hardly reach is listed, line by
line, under "hazards" in `PROJECT.json`.

## 2. The plan

Order: the ring first (everything stands on it), then the commands on top of
its abstraction, then what the commands are for, then the life cycle.

1. `VirtQueueSpec`, `VirtRing`: the token store and the ring that implements it. *Done.*
2. `GpuCommand` on two instances of `VirtQueueSpec`. *Done.*
3. `GpuCommand_proofs`: types, ownership of vbufs, event pointers. *Done.*
4. `GpuResources`, `VidPn`, `ModeList`, `DeviceLife`. *Done.*
5. `VirtioPci` (the inside of the one step "transport" of `DeviceLife`),
   `Present` (the pixels behind the presents of `GpuResources`), the inside of
   `VioGpuObj::Init` and `Close`, power cycles of `ModeList`, power changes of an
   inactive driver. *Done.*
6. `DeviceLife_proofs`: rings, interrupt handlers and memory. *Done.*
7. The wakeup protocol (`CompletionAccounted`) in `GpuCommand_proofs`;
   `GpuResources_proofs`, `VidPn_proofs`, `VirtRing_proofs` with the refinement
   `VirtRing => VirtQueueSpec`, `VirtioPci_proofs`, `ModeList_proofs` and
   `Present_proofs`. *Done:* every safety property that a passing run checks.

Composition: `GpuCommand` instantiates `VirtQueueSpec` twice (control and cursor
queue); `VirtRing` proves itself an implementation of it in the run
`ring_returns`. `GpuResources` takes from `GpuCommand` that commands reach the
host in order; `ModeList` takes that the worker's question is answered;
`Present` takes the frame buffer from `GpuResources`, which takes from `Present`
that a present is a transfer and a flush; `DeviceLife` leaves commands in flight
to `GpuCommand` and the finding of registers to `VirtioPci`.

## 3. The modules and the code

**`VirtQueueSpec`** - tokens submitted, completed in any order, returned in the
order of completion, withdrawn or forgotten. That the last two happen at a reset
only is said by its users: the store does not know of resets.

**`VirtRing`** - `struct vring_virtqueue` field by field (`desc`, `freeHead`,
`numFree`, `data`, `availRing`, `availIdx`, `numAdded`, `usedEvent`,
`lastUsed`, ...). add_buf is three actions: `AddFill` (descriptors, direct or
indirect), `AddExpose` (the index becomes visible to the device, with the
library's own kick at 2^16-1 added buffers) and `AddNoSpace`. `table` is the
caller's table that `vring_add_indirect` fills, entry by entry as descriptors are.
enable_cb and enable_cb_delayed are two actions each, the write of the flag and of
`used_event` (`EnableCb`, `EnableCbDelayed`) and the look at the used ring after it
(`EnableCbChecks`, `EnableCbDelayedChecks`), between which the device goes on;
every other operation is one. `setup` is chosen in `Init`: event
indices or flags, whether the driver's and the device's view of
VIRTIO_RING_F_EVENT_IDX agree (viogpu's do not: it constructs the queue with
event indices and does not negotiate the feature), indirect tables, and how the
caller kicks and takes interrupts. Indices are modulo `IdxMod` in place of
2^16. The device is external: it fetches, serves in any order, sleeps after a
re-check, signals at least once per pass, and with `setup.faulty` posts heads it
does not own.

**`GpuCommand`** - `pc[t]` and `hand[t]` are the place of a thread in a call and
its vbuf; `IsrReads`, `IsrOrs`, `IsrQueuesDpc` are the three effects of the
interrupt routine, `DpcExchanges ... DpcSignals` the steps of the DPC, so that
completions, interrupts and threads interleave between them. The queue locks
make one Submit or Return atomic. `CloseBegins` to `InitEnds` are
`SetPowerState` around D3 (with the second `SetPowerState` of a resume, whose
`virtio_device_initialize` zeroes the device structure: `Zeroed`), `HwCloseStops`
and `HwCloseJoins` the unload. A dereference of NULL sets `bugcheck` and ends
the behaviour.

**`GpuResources`** - the driver's operations with the exact sequence of commands
they queue (create, attach, set scanout, transfer, flush, detach, unref; update
and move cursor), in two queues that the host works off independently.
Allocations fail at each place by `Outcomes`, memory that cannot be locked
included: `VioGpuObj::Init` then frees the MDL but keeps the pointer, and `Close`
frees it again (`mdls`, `freedTwice`). What the host does with a command
is the virtio-gpu device's and external. Whether a geometry is found in the mode
list is nondeterministic here and the subject of `ModeList`. `Bytes` are the
sizes of the objects, from which `Descriptors` counts the pages QueueBuffer turns
into scatter-gather elements.

**`Present`** - `Draw` is a change of the desktop; a present names the changed rectangles, with
`Flags.Rotate` (`rotate`) set or clear. Where it is set the driver turns the picture by the
mode's rotation; where it is clear it copies it as it is (`RotationNeededByFb`), and it is
dxgkrnl that has turned it: the source is then as wide as the mode, a pixel of the desktop lies
in it where it belongs on the screen (`SourceAt`, `Place`), and the rectangles are turned
likewise (`PlaceRect`). `Marks` are the pixels of the desktop in a rectangle of the source. Some
rectangles are moves and some dirty ones (`PresentDisplayOnly` only reads the destinations of
moves). The driver copies them one after the other (`CopyRect`, with `RowStart`, `RowPitch` and
`PixelPitch` of `bitops.cpp` for the four rotations, and a fault after any row), and queues the
transfer and the flush of `FindUpdateRect`. The host executes a command from the frame buffer as
it is then. Memory is a function from byte offsets, `Stray` what a read outside the source
returns; a write outside the frame buffer shows as an offset outside its domain.

**`VidPn`** - one action per call on dxgkrnl's interfaces; handles are
identified by what they are and their path, `held` is dxgkrnl's account of them.
Out-parameters of a failing `pfnAcquireNextPathInfo` are either. A behaviour is
one call. An empty topology is left out.

**`ModeList`** - two threads in `GetDisplayInfo` (the worker, and the thread of
StartDevice). `SetCustomDisplay` chooses a slot (`PickSlot`), stores the choice in
`m_CustomMode` (`StoreSlot`) and passes it on, read again or not (`TakeSlot`);
`SetVideoModeInfo` writes width, height and stride one after the other. dxgkrnl reads
field by field: width and height to offer or to match a mode, stride and height for the
memory of the frame buffer (`CommitSizes`), width and height for its resource
(`CommitCreates`). `changed` is the bit of
`events_read`, `announced` the interrupt or event on its way to the worker, which
a power cycle takes back. `GetModeList` up to its question is one step (`FillList`); a worker
that is writing then counts as a `clash`. The histories `raced`, `clash`, `spoiled`, `early` and
`slept` mark the races whose outcome the code does not decide and which the
properties except by name.

**`DeviceLife`** - `pc` walks through `HWInit` and `GpuDeviceInit` step by step;
each of `Steps` may fail when it is in `MayFail`. Blocks of memory have fresh
names, so that a stale pointer stays visible. Wherever the code would
dereference NULL, wait for an answer that cannot come, or loop to 2^32, `broken`
names it. `DriverActive` is `IsDriverActive`; without it the wrapper of
SetPowerState only returns success (`PowerInactive`), whatever the adapter loses.

**`VirtioPci`** - a device is its capability list, its resources and what its notification
registers say (`Devices`). `ResourcesInit` is `CPciResources::Init`; `LookOn`, `LookFinds` and
`LookEnds` are the inner, counted loop over the list, `VendorCapability` and
`NextVendorCapability` the outer one, which is not counted; a failed read leaves `Garbage` in
the locals where nobody looks at the result. `MapCapability` is the checks and the mapping of
one structure, used by `MapCommon` to `MapConfig`; `SetupQueue` both ways to a kick address.
`CreadBegins` to `CreadReturns` are `virtio_cread_many` against a device that changes its
configuration. Objects are deleted and made again, so that what stays mapped is seen.

**`<Module>_proofs`** - the theorems about each module, see 6.

**MC modules** give constants, symmetry sets and views.

`PROJECT.json`, "map", names the lines each definition stands for.

## 4. The runs

| Run | Question | Bounds |
| --- | --- | --- |
| `ring_table` | Is the table partitioned, and does the device find what was asked for, after any order of adds and returns, direct or indirect? | 3 tokens, 4 descriptors, indices mod 8, chains of 1 and of 3; shutdown and detach |
| `ring_signals` | Is a kick or an interrupt ever lost; do heads get lost or overwritten? | 2 tokens, 2 descriptors, indices mod 4; flags, event indices, viogpu's set-up, and a device that posts wrong heads |
| `ring_returns` | Does the ring implement `VirtQueueSpec`, and does each token return? | as above, viogpu's set-up, without symmetry |
| `gpu_commands` | One owner per vbuf, no dead event, no completion without a wakeup | 3 vbufs, 2 DDI threads and the worker, 5 control descriptors (questions take 2, other commands 3) and 1 cursor descriptor, one configuration change, power cycles and unload |
| `gpu_progress` | Do the answer, the change and the unload come? | 2 vbufs, the worker asks, 3 changes signalled as QEMU does, unload |
| `res_failing` | Do bitmap, objects, pointers, MDLs and host agree? | 1 mode and the pointer, 3 blocks, ids 0 to 2, every allocation and every lock of pages may fail, 2 commands left over in each queue before the next call begins, power cycles and unload |
| `res_large` | finding | as above with a second mode of the size of 2560x1600 |
| `present_pixels` | Do the frame buffer and the screen follow the desktop? | 3 by 2 pixels, source rows one pixel longer, 4 rotations turned by driver or dxgkrnl in each present, 2 changes among drawing, rotation, visibility and pointer shape, room for 2 commands |
| `vidpn_calls` | Handles and offered modes | 2 paths, 2 modes, all pivots and pinnings, every call may fail |
| `modes_changes` | Do offered modes get frame buffers of their size, and is the newest one listed? | the size at the start and 2 changes among 3 sizes (none; 1600x900; one of the same height that is cut to 16 bits and raised to the minimum), every field of a slot written by itself, power cycles, start-up included |
| `life_failing` | Memory, flags and calls, whatever fails | 2 starts, 1 D3, queues of size 2, all fifteen steps may fail |
| `pci_walk` | Are the right registers found, and only they used? | every list of 3 capabilities out of 5 kinds, and of a fourth behind them, with any order, loop, end and alignment; each structure at the edges of two BARs; one failing read; 2 starts, 2 objects, 2 changes of the configuration |

Why the bounds are enough. *Ring*: three tokens with chains of different length
are the least for which the free list comes back in another order than it was
handed out, and 3 + 1 fills a table of 4; indices modulo twice the ring size are the
least that tell a full ring from an empty one, and they wrap in every run; the tests of
`vring_need_event` are made on differences only. *Commands*: three vbufs for three contexts,
and room for one vbuf fewer, give pool empty, queue full and both; `gpu_commands` allows
one configuration change beside two DDI threads, `gpu_progress` three in a row. *Resources*: two
objects, one replaced while the other's block is reused, need three blocks;
two proper ids are both in use with both objects, so a third request fails.
`CtrlBound` lets an operation start behind two left-over commands and queue its
seven; that separates every free of memory from the detach it needs.
*VidPn*: with `MAX_VIEWS` = `MAX_CHILDREN` = 1 this build only has one path; two
check the loop as it is written. *ModeList*: the size found at
the start takes the first of the two slots, one change the second, another comes round to
a slot that is in use. *DeviceLife*: a second start finds whatever the first and a power
cycle left behind; sizes 2, 1, 0 are every turn of the search for a queue size.
*Present*: 3 by 2 is the least size whose rows, columns and rotations all differ,
and a second change finds the commands of the first still queued, which fill the
room. *VirtioPci*: the addresses are real ones, only the list is short
(`Iterations` is the number of places a capability can be at, as 48 is in the code);
lists reach it, pass it and go in circles of every length.

Symmetry is over tokens, vbufs and threads, blocks; no run with a temporal
property uses it. `VIEW`s drop only fields that every action writes before
it reads them (the MC modules say which), and only runs of state invariants use
them. `CHECK_DEADLOCK FALSE` is set everywhere since the system may stop: no one
has to make another call, the call of `VidPn` ends, and a bugcheck is the end.

The invariants except what the code cannot keep, by a named history: `lost` (refused or
forgotten vbufs), `swallowed` (an interrupt status of 3, from which the driver only takes the
configuration bit), `failed` (an allocation failed; in `DeviceLife`, the step that failed last),
`stale` and `wasReset` (objects that lived through a device reset), `spoiled`, `raced`, `clash`,
`early`, `slept` (see `ModeList`), `abandoned` (a device dropped by a second StartDevice),
`faulted` and `missed` (pixels whose copy faulted; whose command the queue refused or which the
driver itself turned), `misread` (a read of configuration space failed).

## 5. Fairness

- `VirtRing`: an operation that was begun ends; the driver kicks after it added,
  takes its interrupts and calls get_buf until it is empty, as `DpcRoutine` does;
  the device serves every buffer it was told of (strong fairness, since several
  compete). Nobody has to add, turn interrupts off, or reset.
- `GpuCommand`: threads inside a call, interrupt routine, DPC, worker and the
  closing thread are scheduled (Windows runs ready threads and queued DPCs), and
  the device answers each command. `DpcLoopsEnd` states an assumption of its own:
  the DPC's loops drain a queue until it is empty, so threads and device on other
  processors must not refill it for ever. Nobody has to begin a call, change the
  configuration or unload. In `gpu_progress` only the worker asks; that is the
  wait `HWClose` depends on, and the one DDI that also waits (start-up) takes the same path.
- `DeviceLife`, `VirtioPci`: the thread that makes the call, or initialises, is
  scheduled. Nobody has to call.
- `GpuResources`, `VidPn`, `ModeList`, `Present` state safety only.

## 6. The proofs

Each `<Module>_proofs` proves the safety properties of its module for every value of
the constants that the assumptions of the module allow; TLC evaluates these
assumptions in the runs. The pattern is the same everywhere: an invariant that is
inductive, a lemma that says it holds at first, one lemma per action (or group of
actions that touch the same state) that it is kept, one that puts these together, and
the theorem by temporal logic. Every lemma about a helper of the code is stated once.

### Commands

`GpuCommand_proofs` proves, for any finite set of vbufs, any set of threads, any
queue sizes, command lengths, interrupt values and power events:

- `TypeCorrect`: `Spec => []TypeOK`. One lemma per group of variables
  (`PoolTypeStep` ... `PhaseTypeStep`), put together in `TypeStep`.
- `OwnershipCorrect`: `Spec => []OnePlace`, every vbuf is in exactly one place,
  there once.
- `EventsCorrect`: `Spec => []NoStaleEvent`, an event that will be set belongs to
  a thread that still waits for that vbuf.
- `CompletionsCorrect`: `Spec => []CompletionAccounted`, a completion is always
  followed by an interrupt, a pending bit, a queued DPC or a DPC that still has to look.
  With the types it is inductive, said of both queues (`AllAccounted`); the work is in the
  steps of interrupt routine and DPC, between any two of which the device may complete
  another command.

`OnePlace` is not inductive. When the DPC disposes of a vbuf it looks only at
`vbuf->event`: not NULL, the asker gets the vbuf back; NULL, it is released. So one needs to
know which thread waits for a queued vbuf, that it waits for no other, and
that its event is still unset: that is `NoStaleEvent`, which in turn needs `OnePlace` (a
vbuf that is allocated anew must not be one that is queued). The inductive
invariant is `Owned == TypeOK /\ OnePlace /\ NoStaleEvent` (`OwnedInvariant`).
`MovesKeepPlaced` is the common part of all steps: a step that takes the vbufs of a
set to one place and leaves all others where they are keeps them placed. Each
action then has a lemma saying which move it is (`AllocKeepsOwned`,
`HandOverKeepsOwned`, `QueueKeepsOwned`, `ReturnKeepsOwned`, `CompleteKeepsOwned`,
`TakeKeepsOwned`, `DisposeKeepsOwned`, `ForgetKeepsOwned`), and the steps that move
none are framed by `PlacesFrame` and `ThreadsStandStill`.

`GpuCommand_proofs` assumes `BufsAssumption` (finite, NULL is no vbuf), `ThreadsAssumption` (the
worker is no DDI thread), `RoomAssumption`, `CostsAssumption`, `IsrAssumption`,
`ChangesAssumption`. TLC evaluates them in the runs of `MCGpuCommand`.

### Life cycle

`DeviceLife_proofs` proves, for any queue size, any number of starts and power
cycles and any set of steps that may fail:

- `RingsCorrect`: `Spec => []RingsAllocated`, a device that runs was negotiated and
  finds both its rings in allocated memory.
- `HandlersCorrect`: `Spec => []HandlersFindQueues`, where interrupts are handled the
  pointers name allocated queues, and a removed device is silent.
- `MemoryCorrect`: `Spec => LossesKnown`, no block is freed that is not allocated,
  and none is lost but at the three places the property names.

None of the three is inductive: which block a register or a pointer names says
nothing of whether the next step frees it. The invariant `Inv` adds what each
step of the set-up already has: `FoundHeld` (a queue that was found holds two
blocks of its own), `NewHeld` (so does the one being set up, from the step on at
which it gets them), `QueuesInOrder` (the queues come one after the other, and the
device has the rings of those that did), `StatusAsFar` (the status register by
step), `HandlersFind` (while the device is set up a second time, the queues
interrupts still use are none of those that an error path may free) and
`Untouched` (without a GpuDevice nothing was done to the device). `...Effect`
lemmas say what a step does to the records of the two queues, `QuietKeepsInv`
covers the twelve steps that touch none of them, and each other action has a lemma
`<Action>KeepsInv` with one step per conjunct. For `MemoryCorrect`, `Emptied` adds
that a device that is closed or gone holds nothing, and `...KeepsReachable` shows per
action that what was reachable and is still allocated stays reachable. It assumes
`QueueSizeAssumption`, `BoundsAssumption` and `MayFailAssumption`, which the run
`life_failing` evaluates.

### Ring

`VirtRing_proofs` proves, for any queue size that is a power of two up to 2^15, indices
modulo any multiple of twice that size, any tokens, chain shapes and set-ups:

- `TableCorrect`: `Spec => []TableIntact`; `ChainsCorrect`: `Spec => []ChainsAsAsked`.
- `KicksCorrect`: `Spec => []NoLostKick`.
- `InterruptsCorrect`: `Spec => [](~ spurious => NoLostInterrupt)`.
- `QueueCorrect`: `Spec /\ ~ setup.faulty => ImplementsQueue`, the refinement of
  `VirtQueueSpec`, step by step.

That the table is partitioned is a statement about following `next`, which no action preserves
by itself. `TableInv` says it without following anything: every descriptor has an owner (a head
in use, or the free list) and a position in its owner's list (`Placed`); owner and position
determine the descriptor, positions are below the length of the list, and `next` leads to the
following position. What an add or a detach does to `desc` is then a new pair of owner and
position (`TakenOwn`, `GivenPos`, ...), and the chains that the properties walk are recovered by
induction (`ChainPlaced`, `TablePartitioned`). `RingInv` says where each head is: every exposed
head is in exactly one of the unread available entries, the device's hands, and the unread used
entries (`Traced`); it gives `HeadsTracked` and that no ring overflows. What an indirect head's
table holds follows from `Filled`: it is what `AddIndirect` wrote, whatever else was added
since. `KickInv` and `SignalInv` are about the windows between two indices: what the device has
not seen was added since the last kick; what the driver waits for counts the used entries
without those still to be signalled. `EnablingInv` says that between the two steps of
enable_cb_delayed nothing moves from which the delay was computed. The refinement uses in
addition that a token is at one head only (`Plain`) and that the used tokens are the used
entries in order (`UsedFact`, `Kept`).

Two theorems have a condition. After an id that is no head (`spurious`) get_buf
answers as it does when there is nothing, so nobody is told of what follows; and a device that
posts heads it does not own (`setup.faulty`) does not return what it was given.
The assumptions: `NumAssumption` (the code rejects other sizes, `VirtIORing.c:662`),
`IdxAssumption` (2^16 is such a multiple), `ShapeAssumption` (ADDs of at least one element that
fit into the ring), `KickAssumption` (whoever sets the queue up with event indices that the
device does not keep kicks with kick_always, which is what viogpu does).

### Resources

`GpuResources_proofs` proves, for any modes, blocks, number of ids (of at least two) and
lengths of the queues:

- `IdsCorrect`, `PointerCorrect`, `MdlsCorrect`: `IdAccounting`, `ActiveIsLive`,
  `MdlsFollowObjects`, all from `IdInv`, which adds to them that the bitmap has no hole
  (so that the id `NextId` finds is the next one) and that nothing was lost as long as
  nothing failed.
- `HostCorrect`: `HostFollows`. `HostInv` is about `Settled`, the host after it will have worked off the
  control queue, which a step of the host does not change; `AfterAppend`, `AfterHead` and `AfterConcat`
  are the induction over the queue, and `RenewDoes` follows the seven commands of an
  object that is replaced.
- `CommandsAccepted`: `HostAccepts`. `UseInv` adds that a call finds the object it
  uses and that cursor commands name the cursor or a lost id.
- `DetachesQueued`: `FreedIsDetached`. `BackingInv` looks at the host as it is now: whatever it
  is, or will be, attached to is either owned by an object or has its detach behind it in the
  queue (`Covered`).

The assumptions are that NULL is no object and no block, that an object has a size, and `MaxId >= 2`.

### VidPN calls

`VidPn_proofs` proves, for any number of paths and modes and any calls that fail:
`HandlesCorrect` (`UsesHeld`) and `ReturnsCorrect` (`NothingHeld`) from `Inv == HandlesInv /\
StageInv`: a variable that is filled names a handle that dxgkrnl counts as held, no two name the
same, and `StageInv` says for each of the thirty stages of a call which variables may be filled
and which must be. `CommitCorrect` (`CommitSetsModes`) follows from `CommitInv`, which says at
each stage of the loop which paths have got their mode, so that a commit that fails has set
those it came past, and `EnumCorrect` (`ModesOffered`) from `EnumInv`: what is offered is what
is wanted of the paths already passed, and, of the current one, of what this stage is past.

### Mode list

`ModeList_proofs` proves, for any sizes of the host's display, any number of changes
and power cycles, start-up included:

- `OffersCorrect`: `OfferedLargeEnough`. `ListInv` has the types, what StartDevice has
  filled by when, and that both custom slots are at least 1024x768 at every half-write.
- `FitsCorrect`: `NewestFits`. `FixedInv` follows a committed fixed mode from the match to
  memory and resource of the frame buffer. `ChosenInv` says that a slot a worker holds is a
  custom one unless it chose before the list was filled (`early`), and `StrideInv` that a slot
  nobody is writing has the stride of its width unless both threads wrote it (`clash`).
  `NewestInv` says that, while at most one write began since, one of the two custom slots holds
  the newest size (`Kept`), and what the reader has seen of that slot at each point of its two
  loops (`Seen`).
- `ListedCorrect`: `NewestListed`. `ListedInv` says what the worker asked for is the host's size unless
  it changed since, that what StartDevice's thread writes is no older or the worker still
  has to write, and that at most one of them is between two halves.

### PCI capabilities

`VirtioPci_proofs` proves, for any device (any list, any lengths, BARs, multiplier and notification
offsets) and any contents that a failed read leaves:

- `WalkCorrect`: `LastUsableTaken`. `WalkInv` names the entry `n` of the list the walk is at:
  the pointer is the `n`-th, and what was taken is the last usable one before it. That the inner
  loop's count does not end the walk early takes `LengthBounded`: a list that ends has no more
  entries than places.
- `AccessesCorrect`: `AccessesInside`, and `KickAddressesCorrect`: `KicksArrive`, from
  `SetUpInv`, which says what each step of the set-up has found and mapped.
- `MappingsCorrect`: `MappingsKnown`, from `BarsInv`; `FieldsCorrect`:
  `FieldsOfOneMoment`, from `CreadInv`.

`SlotsAssumption` (capabilities lie aligned behind the header) and
`IterationsAssumption` (there are no more places than iterations: 48 and 48 in the code) are what the
termination of the inner loop rests on.

### Presentation

`Present_proofs` proves, for any screen size, padding of the source's rows, pointer
size, rotations (of the four), room in the queue and number of draws:

- `CopiesCorrect`: `CopiesInside`, and `FramesCorrect`: `FrameBufferFollows`. `BltBits`
  walks source and destination with two pairs of strides. `WalkAt` and `WalkDst` show that the
  addresses of these walks are the pixels of the rectangle and their places after the turn,
  `SourceAtIs` what the source has there, whoever has turned it,
  so that `CopyPuts` and `CopyDoes` can say what a copy does to one pixel: inside the
  rectangle, what the source has, and elsewhere, nothing. `InsideInv` and `FollowsInv`
  then follow the rectangles of a present one by one: a pixel is right, or faulted,
  or lies in a rectangle still to be copied (`Pending`).
- `ScreensCorrect`: `ScreenFollows`, in every rotation. `AroundIs` shows that `FindUpdateRect`
  covers all rectangles. `ScreenInv` says of each pixel that it is exempt (changed since,
  faulted, missed, which a pixel the driver turned is too, or being copied) or that the host
  will show it (`Coming`): it does already, or a flush that covers it is queued, behind a
  transfer that covers it where the resource does not have it yet. Since a transfer reads the
  frame buffer when the host works it off, an older command may show a newer pixel;
  `ComingStays` and `ComingGoes` are the cases.

It assumes `SizeAssumption` (sizes are positive), `BoundsAssumption`,
`RotationsAssumption` and, for pointer shapes, `CursorAssumption` (no larger than
`POINTER_SIZE`, the caps dxgkrnl is told).

### Induction

The library's induction theorems take a predicate as parameter and cannot be cited.
The modules that need induction state it for sets instead: a set of naturals that is not
empty has a least element (`LeastOf`, from the library's theorem that `<` is
well founded), so a set of naturals that has 0 and the successor of each of its elements
has all (`ForAllNat`), and likewise up to a bound (`UpTo`). A statement about every length of
a queue or every link of a chain is proved for the set of the numbers it holds for.

### What is only model-checked

Liveness under fairness, out of the prover's reach: `EveryTokenReturns`,
`EveryAskAnswered`, `ChangeHandled`, `UnloadEnds`, `CallsReturn`,
`WalkEndsUnlessLooped`. `DescriptorsFit` is false (7).

## 7. Findings

A run that expects a violation; TLC's counterexample is the evidence.

- `res_large`: `ASSERT((outcnt + incnt) <= 16)` (`viogpu_queue.cpp:230`) comes after the
  loops that fill `sg[16]` (`:199`) with one element per page. Attaching the frame
  buffer of the largest fixed mode, 2560x1600 (`viogpudo.cpp:3195`), takes 18.

Met while modelling, present in the modules' transitions, without a run of
their own:

- A command that AddBuf refuses is neither released nor retried, so the pool
  shrinks until `GetBuf` returns NULL, on which `ASSERT(vbuf)` (`viogpu_queue.cpp:93`,
  `:109`) fails and which release builds dereference.
- `viogpudo.cpp:1168` says rotation support is worked on if rotation is *not* the
  pivot; the condition tests the pivot type with `!=` where the scaling's (`:1153`)
  has `==`, so it is written when rotation is the pivot and not when something
  else of that path is.
- Below "There is nothing to do to specifically power up/down the display adapter"
  (`viogpudo.cpp:295`) the device's power state is set a second time, which on a
  resume resets the running device and allocates both queues again.
- `VioGpuObj::Init` frees the MDL whose pages it could not lock, and `Close` unlocks
  and frees it again (`viogpu_queue.cpp:662`).
- `BlackOutScreen` clears the guest's memory only (`viogpudo.cpp:2955`); the host keeps
  showing the last picture until a present flushes it (`:551`).
- The rectangle of a transfer is in desktop coordinates whatever the rotation ("//FIXME
  rotation", `viogpudo.cpp:2934`, beside "BDD does rotation in software", `:574`), so the host
  is told of other pixels than the driver wrote: `ScreenFollows` excepts the pixels of a present
  the driver has turned, and holds in every rotation for what dxgkrnl turns; a pointer shape is
  turned within its own width and height, which is right for square ones only.
- The condition that unmaps a BAR is inverted ("Undoes the effect of GetVA",
  `viogpu_pci.h:51`; `viogpu_pci.cpp:316`): ports that were never mapped are
  unmapped, mapped ones stay.
- Where each queue's notification word is mapped by itself the check "offset should
  not wrap" of the other branch (`VirtIOPCIModern.c:337`) is missing (`:322`); the
  lengths of the notification and device structures are not compared with their
  BAR (`maxlen` is dropped, `viogpu_pci.cpp:202`); reads of configuration space whose
  failure nobody looks at leave locals uninitialised (`VirtIOPCIModern.c:474`); the
  outer walk over vendor capabilities has no bound (`:472`), see `WalkEndsUnlessLooped`.
- A display change announced before D3 is not looked at after the resume; it is
  only found with the next one (`NewestListed`, history `slept`).
- The flag for a full-screen present is set at each commit and never read
  (`viogpudo.cpp:1289`, `:1518`, `:1639`).
- `InterruptRoutine` compares the status with 1 and 3 (`viogpudo.cpp:3277`); a
  configuration change alone (bit 2 of `virtio_pci.h:95`) is ignored, and a queue
  completion that shares a status of 3 waits for the next interrupt.
- `ASSERT(m_uCount == 0)` at the close of the pool (`viogpu_queue.cpp:532`) does
  not hold once a reset has dropped commands in flight.
- `PutId(0)` after a failed `GpuObjectAttach` contradicts
  `ASSERT(id >= m_uStartIndex)` (`viogpu_idr.cpp:64`).
- "When returning from D3 the device visibility defined to be off"
  (`viogpudo.cpp:284`): `m_AdapterPowerState` is never D3, so it stays on.
- `SystemDisplayEnable` tests `FrameBuffer.Ptr`, which outlives the frame buffer
  (`viogpudo.cpp:1693`).
- A worker that chose slot 65535 before `GetModeList` filled the list (`viogpudo.cpp:3144`, the
  thread is created at `:2757`) writes outside the list whenever it gets there, also after
  StartDevice (`NewestFits`, history `early`). Where it and StartDevice's thread write one slot
  at the same time, the slot may be left with the width of one and the stride of the other
  (`clash`).
- The size of the frame buffer is a 32-bit product (`viogpudo.cpp:3425`), which wraps for
  sizes the host may have; `NewestFits` takes it modulo 2^32 as the code does.
- A `CommitVidPn` that fails after `SetSourceModeAndPath` (`viogpudo.cpp:1445`) leaves the
  driver with the new mode where dxgkrnl keeps the old VidPN.
- A mode that was offered and overwritten since is committed with success though no
  slot matches; `DispInfo` then differs from the frame buffer (`viogpudo.cpp:1519`).
- `HardwareInit` stays set after StopDevice (`viogpudo.h:12` says 0).

## 8. What is not modelled, and why

- `VgaDevice`: VBE calls and synchronous copies; no protocol of its own.
- Pixel formats other than 32 bits: `GpuDevice` only presents those. A read of the
  source outside it returns `Stray` in `Present`, not what lies there.
- In `VirtioPci`: an eight-byte configuration field has no reader in `viogpu`; its two
  halves are the library's own promise (`virtio_pci.h:312`). A wrap of the 8-bit
  generation between two reads, and a failed read of the notification multiplier,
  are left out.
- The legacy transport: HWInit gives up on a device without VIRTIO_F_VERSION_1
  right after initialisation, so no queue is ever set up through it.
- In `VioGpuObj::Init` a scatter list that cannot be allocated is taken with the
  failures of the object; a page without a physical address cannot occur for
  non-paged memory.
- `IsSupportedVidPn`, `RecommendFunctionalVidPn`, `RecommendVidPnTopology`,
  `QueryVidPnHWCapability`: queries that change no state. The rotation
  NOTSPECIFIED, and the shift of centred scaling, which is always 0 since the frame
  buffer has the source's size; the geometry of target and monitor modes
  (`viogpudo.cpp:754` gives every target mode the first slot's).
- What dxgkrnl does after a `CommitVidPn` that failed when the mode was set already
  (`CommitSetsModes` says on which paths) is outside the repository.
- What dxgkrnl presents from where `Flags.Rotate` is clear has no reader in the repository but
  `viogpudo.cpp:486-488`: that it is a picture dxgkrnl has turned is an assumption of `Present`.
- `Format.Graphics.Stride` of an offered mode (`viogpudo.cpp:712`), which dxgkrnl may read, is not
  used by the driver again. Of a slot `ModeList` has the three fields that are.
- Of the bits of `events_read` and `events_clear` there is one, for the display. A second change that is
  cleared without having been asked for satisfies `ChangeHandled`; `ModeList` marks it as `raced`.
- `GpuDeviceInit` failing on a resume is in `DeviceLife`, not in `GpuCommand`.
- DDI forwarding, registry, logging, build and installation files.
