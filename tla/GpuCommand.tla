----------------------------- MODULE GpuCommand -----------------------------
(***************************************************************************)
(* How viogpu issues commands and reaps completions: the pool of vbufs that *)
(* the control and the cursor queue share (VioGpuBuf, CtrlQueue, CrsrQueue  *)
(* of viogpu_queue.cpp), and the three contexts of viogpudo.cpp that move   *)
(* vbufs about: threads that issue commands (DDI calls of dxgkrnl and the   *)
(* configuration worker), the interrupt routine, and its DPC.  Closing and  *)
(* re-initializing the hardware for a power change or an unload runs        *)
(* concurrently with the worker, the interrupt routine and the DPC.  The    *)
(* two virtqueues are used by their abstract specification, VirtQueueSpec,  *)
(* which VirtRing implements.                                              *)
(***************************************************************************)
EXTENDS Integers, Sequences, FiniteSets

CONSTANTS
    Bufs, NoBuf,        (* the vbufs of m_GpuBuf                            *)
    Ddi,                (* threads of dxgkrnl inside a DDI call             *)
    Worker,             (* the thread of ThreadWorkRoutine                  *)
    NoThread,           (* a NULL vbuf->event                               *)
    CtrlRoom, CrsrRoom, (* descriptors in the two queues                    *)
    CtrlCosts,          (* descriptors of a command nobody waits for: 2, or *)
                        (* more when it carries data (AttachBacking)        *)
    ConfigIsr,          (* what the device may set in its interrupt status  *)
                        (* register with a configuration change             *)
    MaxChanges,         (* bound on the configuration changes               *)
    Cycles              (* SUBSET {"power", "unload"}: what dxgkrnl does    *)

ASSUME BufsAssumption == NoBuf \notin Bufs /\ IsFiniteSet(Bufs)
ASSUME ThreadsAssumption == Worker \notin Ddi /\ NoThread \notin Ddi \cup {Worker}
ASSUME RoomAssumption == CtrlRoom \in Nat /\ CrsrRoom \in Nat
ASSUME CostsAssumption == CtrlCosts \subseteq Nat \ {0}
ASSUME IsrAssumption == ConfigIsr \subseteq SUBSET {"queue", "config"}
ASSUME ChangesAssumption == MaxChanges \in Nat

VARIABLES
    freeBufs,       (* m_FreeBufs, a list                                   *)
    event,          (* vbuf->event: the thread whose event it points to     *)
    ctrlDev, ctrlUsed, ctrlRoom, ctrlCost,      (* the control queue        *)
    crsrDev, crsrUsed, crsrRoom, crsrCost,      (* the cursor queue         *)
    pc, hand,       (* a thread's place in its call, and the vbuf it uses   *)
    woken,          (* the event on the stack of AskDisplayInfo is signalled *)
    owed,           (* a completion was posted, its interrupt not yet raised *)
    isr,            (* the interrupt status register, cleared by reading    *)
    isrWork, isrDpc,    (* the interrupt routine: what it will OR, queue    *)
    pending,        (* m_PendingWorks                                       *)
    dpcQueued, dpcPc, reason, dpcBuf,           (* the DPC                  *)
    configEvent,    (* m_ConfigUpdateEvent, auto-reset                      *)
    eventsRead,     (* VIRTIO_GPU_EVENT_DISPLAY in the device configuration *)
    changes,        (* history: configuration changes so far                *)
    stop,           (* m_bStopWorkThread                                    *)
    hwInit,         (* the HardwareInit flag                                *)
    opened,         (* m_pVirtQueue # NULL, in both queues                  *)
    phase,          (* where the power change or the unload has got to      *)
    lost,           (* history: vbufs that were refused or forgotten        *)
    swallowed,      (* history: a status read dropped "queue" for "config"    *)
    bugcheck        (* a NULL vbuf, virtqueue or device was dereferenced    *)

poolVars == <<freeBufs, event, lost>>
ctrlVars == <<ctrlDev, ctrlUsed, ctrlRoom, ctrlCost>>
crsrVars == <<crsrDev, crsrUsed, crsrRoom, crsrCost>>
threadVars == <<pc, hand, woken>>
deviceVars == <<owed, isr, eventsRead, changes>>
isrVars == <<isrWork, isrDpc, swallowed>>
dpcVars == <<dpcQueued, dpcPc, reason, dpcBuf>>
stateVars == <<hwInit, opened, phase, stop>>
vars == <<poolVars, ctrlVars, crsrVars, threadVars, deviceVars, isrVars,
          pending, dpcVars, configEvent, stateVars, bugcheck>>

Threads == Ddi \cup {Worker}
Works == {"DISPLAY", "CURSOR", "CHANGE"}
Elems(s) == {s[i] : i \in 1 .. Len(s)}

Ctrl == INSTANCE VirtQueueSpec WITH Tokens <- Bufs, Capacity <- CtrlRoom,
    device <- ctrlDev, used <- ctrlUsed, room <- ctrlRoom, cost <- ctrlCost
Crsr == INSTANCE VirtQueueSpec WITH Tokens <- Bufs, Capacity <- CrsrRoom,
    device <- crsrDev, used <- crsrUsed, room <- crsrRoom, cost <- crsrCost

(* After HWInit: the queues are set up, the pool is full, the worker waits. *)
Init ==
    /\ freeBufs \in [1 .. Cardinality(Bufs) -> Bufs]
    /\ Elems(freeBufs) = Bufs
    /\ \A i, j \in 1 .. Len(freeBufs) : i # j => freeBufs[i] # freeBufs[j]
    /\ event = [b \in Bufs |-> NoThread] /\ lost = {}
    /\ Ctrl!QInit /\ Crsr!QInit
    /\ pc = [t \in Threads |-> "idle"] /\ hand = [t \in Threads |-> NoBuf]
    /\ woken = [t \in Threads |-> FALSE]
    /\ owed = FALSE /\ isr = {} /\ eventsRead = FALSE /\ changes = 0
    /\ isrWork = {} /\ isrDpc = FALSE /\ swallowed = FALSE
    /\ pending = {}
    /\ dpcQueued = FALSE /\ dpcPc = "idle" /\ reason = {} /\ dpcBuf = NoBuf
    /\ configEvent = FALSE /\ stop = FALSE
    /\ hwInit = TRUE /\ opened = TRUE /\ phase = "up" /\ bugcheck = FALSE

(* virtio_device_initialize zeroes the VirtIODevice before it fills it in.  *)
Zeroed == phase \in {"initializing", "initializing again"}

Crash ==
    /\ bugcheck' = TRUE
    /\ UNCHANGED <<poolVars, ctrlVars, crsrVars, threadVars, deviceVars, isrVars,
                   pending, dpcVars, configEvent, stateVars>>

-----------------------------------------------------------------------------
(* Threads that issue commands.                                            *)

(* dxgkrnl calls no DDI during a power change or an unload.                 *)
MayIssue(t, kind) ==
    \/ t \in Ddi /\ pc[t] = "idle" /\ phase = "up"
    \/ t = Worker /\ pc[t] = "changed" /\ kind = "ask"

(* Deviation: GetBuf leaves the event of the vbuf's last use in place.      *)
AllocBufKeepsEvent(t, kind) ==
    /\ ~ bugcheck
    /\ MayIssue(t, kind)
    /\ freeBufs # <<>>
    /\ freeBufs' = Tail(freeBufs)
    /\ hand' = [hand EXCEPT ![t] = Head(freeBufs)]
    /\ pc' = [pc EXCEPT ![t] = kind]
    /\ event' = IF kind = "ask" THEN [event EXCEPT ![Head(freeBufs)] = t] ELSE event
    /\ woken' = [woken EXCEPT ![t] = FALSE]
    /\ UNCHANGED <<lost, ctrlVars, crsrVars, deviceVars, isrVars, pending,
                   dpcVars, configEvent, stateVars, bugcheck>>

(* VioGpuBuf::GetBuf for AllocCmd, AllocCmdResp and AllocCursor; only       *)
(* AskDisplayInfo stores an event in the vbuf.  The callers clear the       *)
(* command in the vbuf they got, also when they got none.                   *)
AllocBuf(t, kind) ==
    /\ ~ bugcheck
    /\ MayIssue(t, kind)
    /\ freeBufs # <<>>
    /\ freeBufs' = Tail(freeBufs)
    /\ hand' = [hand EXCEPT ![t] = Head(freeBufs)]
    /\ pc' = [pc EXCEPT ![t] = kind]
    /\ event' = [event EXCEPT ![Head(freeBufs)] =
                   IF kind = "ask" THEN t ELSE NoThread]
    /\ woken' = [woken EXCEPT ![t] = FALSE]
    /\ UNCHANGED <<lost, ctrlVars, crsrVars, deviceVars, isrVars, pending,
                   dpcVars, configEvent, stateVars, bugcheck>>

AllocNothing(t, kind) ==
    /\ ~ bugcheck
    /\ MayIssue(t, kind)
    /\ freeBufs = <<>>
    /\ Crash

(* Deviation: also AskDisplayInfo forgets its vbuf.                        *)
QueuedForgets(t) ==
    /\ pc' = [pc EXCEPT ![t] = IF pc[t] = "ask" THEN "wait" ELSE "idle"]
    /\ hand' = [hand EXCEPT ![t] = NoBuf]
    /\ UNCHANGED <<woken, freeBufs, event, deviceVars, isrVars, pending, dpcVars,
                   configEvent, stateVars, bugcheck>>

(* After QueueBuffer or QueueCursor only AskDisplayInfo keeps the vbuf.     *)
Queued(t) ==
    /\ pc' = [pc EXCEPT ![t] = IF pc[t] = "ask" THEN "wait" ELSE "idle"]
    /\ hand' = [hand EXCEPT ![t] = IF pc[t] = "ask" THEN hand[t] ELSE NoBuf]
    /\ UNCHANGED <<woken, freeBufs, event, deviceVars, isrVars, pending, dpcVars,
                   configEvent, stateVars, bugcheck>>

CommandCosts(kind) == IF kind = "ask" THEN {2} ELSE CtrlCosts

(* CtrlQueue::QueueBuffer.  No caller looks at its result: a vbuf that      *)
(* virtqueue_add_buf refuses (-ENOSPC) is neither queued nor freed.         *)
QueueBuffer(t) ==
    /\ ~ bugcheck
    /\ pc[t] \in {"ctrl", "ask"}
    /\ opened
    /\ \E n \in CommandCosts(pc[t]) :
          \/ Ctrl!Submit(hand[t], n) /\ UNCHANGED lost
          \/ /\ n > ctrlRoom
             /\ lost' = lost \cup {hand[t]}
             /\ UNCHANGED ctrlVars
    /\ Queued(t)
    /\ UNCHANGED crsrVars

(* CrsrQueue::QueueCursor.                                                 *)
QueueCursor(t) ==
    /\ ~ bugcheck
    /\ pc[t] = "cursor"
    /\ opened
    /\ \/ Crsr!Submit(hand[t], 1) /\ UNCHANGED lost
       \/ /\ crsrRoom < 1
          /\ lost' = lost \cup {hand[t]}
          /\ UNCHANGED crsrVars
    /\ Queued(t)
    /\ UNCHANGED ctrlVars

(* m_pVirtQueue is NULL after Close, and the notification goes through the  *)
(* VirtIODevice.                                                           *)
QueueNothing(t) ==
    /\ ~ bugcheck
    /\ pc[t] \in {"ctrl", "ask", "cursor"}
    /\ ~ opened \/ Zeroed
    /\ Crash

(* VioGpuBuf::FreeBuf.                                                     *)
FreeBuf(b) == freeBufs' = Append(freeBufs, b)

(* GetDisplayInfo after AskDisplayInfo: the response is read, the vbuf is   *)
(* released.                                                               *)
AskReturns(t) ==
    /\ ~ bugcheck
    /\ pc[t] = "wait" /\ woken[t]
    /\ FreeBuf(hand[t])
    /\ hand' = [hand EXCEPT ![t] = NoBuf]
    /\ pc' = [pc EXCEPT ![t] = IF t = Worker THEN "clear" ELSE "idle"]
    /\ UNCHANGED <<woken, event, lost, ctrlVars, crsrVars, deviceVars, isrVars,
                   pending, dpcVars, configEvent, stateVars, bugcheck>>

(* ThreadWorkRoutine up to the events_read test in ConfigChanged.          *)
WorkerWakes ==
    /\ ~ bugcheck
    /\ pc[Worker] = "idle"
    /\ configEvent
    /\ stop \/ ~ Zeroed
    /\ configEvent' = FALSE
    /\ pc' = [pc EXCEPT ![Worker] = IF stop THEN "dead"
                                    ELSE IF eventsRead THEN "changed" ELSE "idle"]
    /\ UNCHANGED <<hand, woken, poolVars, ctrlVars, crsrVars, deviceVars, isrVars,
                   pending, dpcVars, stateVars, bugcheck>>

(* The end of ConfigChanged: events_clear is written.                      *)
WorkerClears ==
    /\ ~ bugcheck
    /\ pc[Worker] = "clear"
    /\ ~ Zeroed
    /\ eventsRead' = FALSE
    /\ pc' = [pc EXCEPT ![Worker] = "idle"]
    /\ UNCHANGED <<hand, woken, poolVars, ctrlVars, crsrVars, owed, isr, changes, isrVars,
                   pending, dpcVars, configEvent, stateVars, bugcheck>>

WorkerFaults ==
    /\ ~ bugcheck
    /\ Zeroed
    /\ pc[Worker] = "clear" \/ (pc[Worker] = "idle" /\ configEvent /\ ~ stop)
    /\ Crash

-----------------------------------------------------------------------------
(* The device (outside the repository).                                    *)

DevCompletes(b) ==
    /\ ~ bugcheck
    /\ \/ Ctrl!Complete(b) /\ UNCHANGED crsrVars
       \/ Crsr!Complete(b) /\ UNCHANGED ctrlVars
    /\ owed' = TRUE
    /\ UNCHANGED <<isr, eventsRead, changes, poolVars, threadVars, isrVars, pending,
                   dpcVars, configEvent, stateVars, bugcheck>>

DevInterrupts ==
    /\ ~ bugcheck
    /\ owed
    /\ owed' = FALSE
    /\ isr' = isr \cup {"queue"}
    /\ UNCHANGED <<eventsRead, changes, poolVars, ctrlVars, crsrVars, threadVars, isrVars,
                   pending, dpcVars, configEvent, stateVars, bugcheck>>

DevConfigChanges ==
    /\ ~ bugcheck
    /\ opened /\ changes < MaxChanges
    /\ \E bits \in ConfigIsr : isr' = isr \cup bits
    /\ eventsRead' = TRUE
    /\ changes' = changes + 1
    /\ UNCHANGED <<owed, poolVars, ctrlVars, crsrVars, threadVars, isrVars,
                   pending, dpcVars, configEvent, stateVars, bugcheck>>

-----------------------------------------------------------------------------
(* The interrupt routine and the DPC.                                      *)

(* The branches on the status value in GpuDevice::InterruptRoutine.        *)
WorkOf(status) ==
    CASE status = {"queue"}           -> {"DISPLAY", "CURSOR"}
      [] status = {"queue", "config"} -> {"CHANGE"}
      [] OTHER                        -> {}

Unreaped == ctrlUsed # <<>> \/ crsrUsed # <<>>

(* VioGpuDod::InterruptRoutine up to the status read, which clears it.     *)
IsrReads ==
    /\ ~ bugcheck
    /\ hwInit /\ isr # {}
    /\ isrWork = {} /\ ~ isrDpc
    /\ ~ Zeroed
    /\ isr' = {}
    /\ isrWork' = WorkOf(isr)
    /\ swallowed' = (IF isr = {"queue"} THEN FALSE
                     ELSE swallowed \/ ("queue" \in isr /\ Unreaped))
    /\ UNCHANGED <<owed, eventsRead, changes, isrDpc, poolVars, ctrlVars, crsrVars,
                   threadVars, pending, dpcVars, configEvent, stateVars, bugcheck>>

IsrFaults ==
    /\ ~ bugcheck
    /\ hwInit /\ isr # {} /\ isrWork = {} /\ ~ isrDpc
    /\ Zeroed
    /\ Crash

IsrOrs ==
    /\ ~ bugcheck
    /\ isrWork # {}
    /\ pending' = pending \cup isrWork
    /\ isrWork' = {}
    /\ isrDpc' = TRUE
    /\ UNCHANGED <<swallowed, poolVars, ctrlVars, crsrVars, threadVars, deviceVars,
                   dpcVars, configEvent, stateVars, bugcheck>>

IsrQueuesDpc ==
    /\ ~ bugcheck
    /\ isrDpc
    /\ isrDpc' = FALSE
    /\ dpcQueued' = TRUE
    /\ UNCHANGED <<isrWork, swallowed, poolVars, ctrlVars, crsrVars, threadVars,
                   deviceVars, pending, dpcPc, reason, dpcBuf, configEvent,
                   stateVars, bugcheck>>

(* VioGpuDodDpcRoutine: nothing is done when the hardware is not up.       *)
DpcStarts ==
    /\ ~ bugcheck
    /\ dpcQueued /\ dpcPc = "idle"
    /\ dpcQueued' = FALSE
    /\ dpcPc' = IF hwInit THEN "loop" ELSE "idle"
    /\ UNCHANGED <<reason, dpcBuf, poolVars, ctrlVars, crsrVars, threadVars,
                   deviceVars, isrVars, pending, configEvent, stateVars, bugcheck>>

DpcExchanges ==
    /\ ~ bugcheck
    /\ dpcPc = "loop"
    /\ reason' = pending
    /\ pending' = {}
    /\ dpcPc' = IF pending = {} THEN "idle" ELSE "ctrl"
    /\ UNCHANGED <<dpcQueued, dpcBuf, poolVars, ctrlVars, crsrVars, threadVars,
                   deviceVars, isrVars, configEvent, stateVars, bugcheck>>

(* DequeueBuffer and DequeueCursor, where they return a vbuf.              *)
DpcTakes ==
    /\ ~ bugcheck
    /\ dpcBuf = NoBuf /\ opened
    /\ \/ /\ dpcPc = "ctrl" /\ "DISPLAY" \in reason
          /\ Ctrl!Return /\ dpcBuf' = Head(ctrlUsed)
          /\ UNCHANGED crsrVars
       \/ /\ dpcPc = "cursor" /\ "CURSOR" \in reason
          /\ Crsr!Return /\ dpcBuf' = Head(crsrUsed)
          /\ UNCHANGED ctrlVars
    /\ UNCHANGED <<dpcQueued, dpcPc, reason, poolVars, threadVars, deviceVars,
                   isrVars, pending, configEvent, stateVars, bugcheck>>

(* Deviation: a vbuf somebody waits for is released as well.               *)
DpcDisposesReleases ==
    /\ ~ bugcheck
    /\ dpcBuf # NoBuf
    /\ dpcBuf' = NoBuf
    /\ FreeBuf(dpcBuf)
    /\ woken' = IF dpcPc = "ctrl" /\ event[dpcBuf] # NoThread
                THEN [woken EXCEPT ![event[dpcBuf]] = TRUE] ELSE woken
    /\ UNCHANGED <<dpcQueued, dpcPc, reason, event, lost, ctrlVars, crsrVars, pc,
                   hand, deviceVars, isrVars, pending, configEvent, stateVars,
                   bugcheck>>

(* Deviation: the event of the waiting thread is not set.                  *)
DpcDisposesSilently ==
    /\ ~ bugcheck
    /\ dpcBuf # NoBuf
    /\ dpcBuf' = NoBuf
    /\ freeBufs' = IF dpcPc = "ctrl" /\ event[dpcBuf] # NoThread
                   THEN freeBufs ELSE Append(freeBufs, dpcBuf)
    /\ UNCHANGED <<woken, dpcQueued, dpcPc, reason, event, lost, ctrlVars, crsrVars,
                   pc, hand, deviceVars, isrVars, pending, configEvent, stateVars,
                   bugcheck>>

(* What the loops do with it: release it, or wake the thread that asked.    *)
DpcDisposes ==
    /\ ~ bugcheck
    /\ dpcBuf # NoBuf
    /\ dpcBuf' = NoBuf
    /\ IF dpcPc = "ctrl" /\ event[dpcBuf] # NoThread
       THEN /\ woken' = [woken EXCEPT ![event[dpcBuf]] = TRUE]
            /\ UNCHANGED freeBufs
       ELSE FreeBuf(dpcBuf) /\ UNCHANGED woken
    /\ UNCHANGED <<dpcQueued, dpcPc, reason, event, lost, ctrlVars, crsrVars, pc,
                   hand, deviceVars, isrVars, pending, configEvent, stateVars,
                   bugcheck>>

(* The loops end: their reason bit is not set, or the queue is empty.       *)
DpcGoesOn ==
    /\ ~ bugcheck
    /\ dpcBuf = NoBuf
    /\ \/ /\ dpcPc = "ctrl" /\ dpcPc' = "cursor"
          /\ "DISPLAY" \in reason => opened /\ ctrlUsed = <<>>
       \/ /\ dpcPc = "cursor" /\ dpcPc' = "change"
          /\ "CURSOR" \in reason => opened /\ crsrUsed = <<>>
    /\ UNCHANGED <<dpcQueued, reason, dpcBuf, poolVars, ctrlVars, crsrVars,
                   threadVars, deviceVars, isrVars, pending, configEvent,
                   stateVars, bugcheck>>

(* Deviation: m_PendingWorks is cleared after the work, not exchanged before.*)
DpcSignalsClears ==
    /\ ~ bugcheck
    /\ dpcPc = "change"
    /\ dpcPc' = "loop"
    /\ pending' = {}
    /\ configEvent' = (configEvent \/ "CHANGE" \in reason)
    /\ UNCHANGED <<dpcQueued, reason, dpcBuf, poolVars, ctrlVars, crsrVars,
                   threadVars, deviceVars, isrVars, stateVars, bugcheck>>

(* Deviation: m_ConfigUpdateEvent is not set.                              *)
DpcSignalsNothing ==
    /\ ~ bugcheck
    /\ dpcPc = "change"
    /\ dpcPc' = "loop"
    /\ UNCHANGED <<configEvent, dpcQueued, reason, dpcBuf, poolVars, ctrlVars,
                   crsrVars, threadVars, deviceVars, isrVars, pending, stateVars,
                   bugcheck>>

DpcSignals ==
    /\ ~ bugcheck
    /\ dpcPc = "change"
    /\ dpcPc' = "loop"
    /\ configEvent' = (configEvent \/ "CHANGE" \in reason)
    /\ UNCHANGED <<dpcQueued, reason, dpcBuf, poolVars, ctrlVars, crsrVars,
                   threadVars, deviceVars, isrVars, pending, stateVars, bugcheck>>

DpcFaults ==
    /\ ~ bugcheck
    /\ ~ opened
    /\ dpcBuf = NoBuf
    /\ \/ dpcPc = "ctrl" /\ "DISPLAY" \in reason
       \/ dpcPc = "cursor" /\ "CURSOR" \in reason
    /\ Crash

-----------------------------------------------------------------------------
(* Power changes and unload.                                               *)

InQueues == ctrlDev \cup Elems(ctrlUsed) \cup crsrDev \cup Elems(crsrUsed)

(* A reset device answers nothing; the queues start anew.                  *)
ForgetQueues ==
    /\ Ctrl!Forget /\ Crsr!Forget
    /\ lost' = lost \cup InQueues
    /\ owed' = FALSE /\ isr' = {}

(* GpuDeviceClose, for a power state below D0 or in ~GpuDevice, up to       *)
(* SetHardwareInit(FALSE).                                                 *)
CloseBegins ==
    /\ ~ bugcheck
    /\ phase = "up" /\ \A t \in Ddi : pc[t] = "idle"
    /\ \/ "power" \in Cycles /\ phase' = "powering down"
       \/ "unload" \in Cycles /\ phase' = "unloading"
    /\ hwInit' = FALSE
    /\ UNCHANGED <<opened, stop, poolVars, ctrlVars, crsrVars, threadVars,
                   deviceVars, isrVars, pending, dpcVars, configEvent, bugcheck>>

(* The rest: reset, delete_queues, Close.  SetPowerState calls it twice,    *)
(* the second time without effect.                                         *)
CloseEnds ==
    /\ ~ bugcheck
    /\ phase \in {"powering down", "unloading"}
    /\ phase' = IF phase = "unloading" THEN "closing" ELSE "down"
    /\ ForgetQueues
    /\ opened' = FALSE
    /\ UNCHANGED <<hwInit, stop, freeBufs, event, threadVars, eventsRead, changes, isrVars,
                   pending, dpcVars, configEvent, bugcheck>>

(* GpuDeviceInit, which SetPowerState calls twice for D0.                  *)
InitBegins ==
    /\ ~ bugcheck
    /\ phase \in {"down", "initialized once"}
    /\ phase' = IF phase = "down" THEN "initializing" ELSE "initializing again"
    /\ UNCHANGED <<hwInit, opened, stop, poolVars, ctrlVars, crsrVars, threadVars,
                   deviceVars, isrVars, pending, dpcVars, configEvent, bugcheck>>

InitEnds ==
    /\ ~ bugcheck
    /\ Zeroed
    /\ phase' = IF phase = "initializing" THEN "initialized once" ELSE "up"
    /\ ForgetQueues
    /\ opened' = TRUE /\ hwInit' = TRUE
    /\ UNCHANGED <<stop, freeBufs, event, threadVars, eventsRead, changes, isrVars, pending,
                   dpcVars, configEvent, bugcheck>>

(* Deviation: the worker is not woken to see m_bStopWorkThread.             *)
HwCloseStopsSilently ==
    /\ ~ bugcheck
    /\ phase = "closing"
    /\ phase' = "joining"
    /\ stop' = TRUE /\ hwInit' = FALSE
    /\ UNCHANGED <<configEvent, opened, poolVars, ctrlVars, crsrVars, threadVars,
                   deviceVars, isrVars, pending, dpcVars, bugcheck>>

(* HWClose, up to its wait for the worker, and after it.                   *)
HwCloseStops ==
    /\ ~ bugcheck
    /\ phase = "closing"
    /\ phase' = "joining"
    /\ stop' = TRUE /\ configEvent' = TRUE /\ hwInit' = FALSE
    /\ UNCHANGED <<opened, poolVars, ctrlVars, crsrVars, threadVars, deviceVars,
                   isrVars, pending, dpcVars, bugcheck>>

HwCloseJoins ==
    /\ ~ bugcheck
    /\ phase = "joining" /\ pc[Worker] = "dead"
    /\ phase' = "closed"
    /\ UNCHANGED <<hwInit, opened, stop, poolVars, ctrlVars, crsrVars, threadVars,
                   deviceVars, isrVars, pending, dpcVars, configEvent, bugcheck>>

-----------------------------------------------------------------------------
Issues(t) ==
    \/ \E kind \in {"ctrl", "ask", "cursor"} : AllocBuf(t, kind) \/ AllocNothing(t, kind)
    \/ QueueBuffer(t) \/ QueueCursor(t) \/ QueueNothing(t)
    \/ AskReturns(t)

WorkerStep == WorkerWakes \/ WorkerClears \/ WorkerFaults
DeviceStep == (\E b \in Bufs : DevCompletes(b)) \/ DevInterrupts \/ DevConfigChanges
IsrStep == IsrReads \/ IsrFaults \/ IsrOrs \/ IsrQueuesDpc
DpcStep == DpcStarts \/ DpcExchanges \/ DpcTakes \/ DpcDisposes \/ DpcGoesOn
              \/ DpcSignals \/ DpcFaults
InitStep == CloseEnds \/ InitBegins \/ InitEnds \/ HwCloseStops \/ HwCloseJoins

Next ==
    \/ \E t \in Threads : Issues(t)
    \/ WorkerStep \/ DeviceStep \/ IsrStep \/ DpcStep
    \/ CloseBegins \/ InitStep

Spec == Init /\ [][Next]_vars

(* A call that was begun ends, every context that has work runs, and the    *)
(* device answers every command it has.  Nobody has to begin a call, to     *)
(* change the configuration, or to close.                                  *)
Fairness ==
    /\ \A t \in Threads :
          /\ WF_vars(QueueBuffer(t) \/ QueueCursor(t) \/ QueueNothing(t))
          /\ WF_vars(AskReturns(t))
    /\ WF_vars(AllocBuf(Worker, "ask") \/ AllocNothing(Worker, "ask"))
    /\ WF_vars(WorkerStep)
    /\ \A b \in Bufs : WF_vars(DevCompletes(b))
    /\ WF_vars(DevInterrupts)
    /\ WF_vars(IsrStep)
    /\ WF_vars(DpcStep)
    /\ WF_vars(InitStep)

(* Threads and device do not refill a used ring for ever while the DPC      *)
(* drains it, so its loops end.                                            *)
DpcLoopsEnd == []<>(dpcPc \notin {"ctrl", "cursor"} \/ bugcheck)

FairSpec == Spec /\ Fairness /\ DpcLoopsEnd

-----------------------------------------------------------------------------
(* The variables stay in their domains; a vbuf list or a queue never holds  *)
(* anything but vbufs.                                                     *)
PoolTypeOK ==
    /\ freeBufs \in Seq(Bufs)
    /\ event \in [Bufs -> Threads \cup {NoThread}]
    /\ lost \subseteq Bufs

CtrlTypeOK ==
    /\ ctrlDev \subseteq Bufs /\ ctrlUsed \in Seq(Bufs)
    /\ ctrlRoom \in Nat /\ ctrlCost \in [Bufs -> Nat]

CrsrTypeOK ==
    /\ crsrDev \subseteq Bufs /\ crsrUsed \in Seq(Bufs)
    /\ crsrRoom \in Nat /\ crsrCost \in [Bufs -> Nat]

(* A thread that is issuing a command or waiting for one has a vbuf.        *)
ThreadTypeOK ==
    /\ pc \in [Threads -> {"idle", "ctrl", "ask", "cursor", "wait",
                           "changed", "clear", "dead"}]
    /\ hand \in [Threads -> Bufs \cup {NoBuf}]
    /\ woken \in [Threads -> BOOLEAN]
    /\ \A t \in Threads :
          pc[t] \in {"ctrl", "ask", "cursor", "wait"} => hand[t] \in Bufs

FlagTypeOK ==
    /\ owed \in BOOLEAN /\ isr \subseteq {"queue", "config"} /\ eventsRead \in BOOLEAN
    /\ changes \in Nat
    /\ isrWork \subseteq Works /\ isrDpc \in BOOLEAN /\ swallowed \in BOOLEAN
    /\ pending \subseteq Works /\ configEvent \in BOOLEAN
    /\ hwInit \in BOOLEAN /\ opened \in BOOLEAN
    /\ stop \in BOOLEAN /\ bugcheck \in BOOLEAN

DpcTypeOK ==
    /\ dpcQueued \in BOOLEAN /\ dpcPc \in {"idle", "loop", "ctrl", "cursor", "change"}
    /\ reason \subseteq Works /\ dpcBuf \in Bufs \cup {NoBuf}

PhaseTypeOK ==
    phase \in {"up", "powering down", "unloading", "down", "initializing",
               "initialized once", "initializing again", "closing", "joining",
               "closed"}

TypeOK ==
    /\ PoolTypeOK /\ CtrlTypeOK /\ CrsrTypeOK /\ ThreadTypeOK
    /\ FlagTypeOK /\ DpcTypeOK /\ PhaseTypeOK

(* A thread owns its vbuf until it is queued, and the asker's again from    *)
(* the moment its event is set.                                            *)
Holds(t) == pc[t] \in {"ctrl", "ask", "cursor"} \/ (pc[t] = "wait" /\ woken[t])

InHand(b) == \E t \in Threads : Holds(t) /\ hand[t] = b

Place == {"free", "ctrl", "ctrl used", "cursor", "cursor used", "hand", "dpc", "lost"}

At(b, p) ==
    \/ p = "free" /\ b \in Elems(freeBufs)
    \/ p = "ctrl" /\ b \in ctrlDev
    \/ p = "ctrl used" /\ b \in Elems(ctrlUsed)
    \/ p = "cursor" /\ b \in crsrDev
    \/ p = "cursor used" /\ b \in Elems(crsrUsed)
    \/ p = "hand" /\ InHand(b)
    \/ p = "dpc" /\ b = dpcBuf
    \/ p = "lost" /\ b \in lost

Distinct(s) == \A i, j \in 1 .. Len(s) : i # j => s[i] # s[j]

NoneTwice == Distinct(freeBufs) /\ Distinct(ctrlUsed) /\ Distinct(crsrUsed)
OneHolder == \A s, t \in Threads : Holds(s) /\ Holds(t) /\ hand[s] = hand[t] => s = t
Placed == \A b \in Bufs : \E p \in Place : \A q \in Place : At(b, q) <=> q = p

(* Whatever threads, interrupts and power changes do, a vbuf is in exactly  *)
(* one place and there once: the pool never hands out a vbuf the device or  *)
(* another context still uses, none is released twice, and none disappears  *)
(* but by a refusal (-ENOSPC) or a reset.                                  *)
OnePlace == NoneTwice /\ OneHolder /\ Placed

(* The event of AskDisplayInfo lives on the stack of the asking thread: as  *)
(* long as a vbuf in a queue or in the DPC points to an event, the thread   *)
(* is still waiting for that vbuf, so KeSetEvent never hits a dead frame.   *)
NoStaleEvent ==
    /\ \A b \in Bufs :
          LET t == event[b]
          IN  (b \in InQueues \/ b = dpcBuf) /\ t # NoThread
                  => pc[t] = "wait" /\ hand[t] = b /\ ~ woken[t]
    /\ \A t \in Threads :
          /\ pc[t] = "ask" => event[hand[t]] = t /\ ~ woken[t]
          /\ pc[t] \in {"ctrl", "cursor"} => event[hand[t]] = NoThread

(* The bit w, or an interrupt that will set it, is on its way to the DPC.   *)
OnTheWay(w) ==
    \/ owed \/ "queue" \in isr
    \/ w \in isrWork
    \/ w \in pending /\ (isrDpc \/ dpcQueued \/ dpcPc # "idle")

(* No wakeup is lost between the interrupt routine, m_PendingWorks and the  *)
(* DPC that exchanges it with 0: completions that are still in a used ring  *)
(* have an interrupt or a DPC coming, unless the status value was the one   *)
(* InterruptRoutine takes for a configuration change alone.                *)
CompletionAccounted ==
    hwInit /\ ~ swallowed =>
        /\ ctrlUsed # <<>> =>
              OnTheWay("DISPLAY") \/ (dpcPc = "ctrl" /\ "DISPLAY" \in reason)
        /\ crsrUsed # <<>> =>
              OnTheWay("CURSOR") \/ (dpcPc \in {"ctrl", "cursor"} /\ "CURSOR" \in reason)

(* Every AskDisplayInfo returns, unless its vbuf was refused or forgotten,  *)
(* or its completion was swallowed by a configuration interrupt.           *)
Stranded(t) == pc[t] = "wait" /\ hand[t] \in lost

EveryAskAnswered ==
    \A t \in Threads :
        pc[t] = "wait" ~> pc[t] # "wait" \/ Stranded(t) \/ swallowed \/ bugcheck

(* A display change the device announces is answered by the worker: asked   *)
(* for and cleared, with the same exceptions.                              *)
ChangeHandled ==
    eventsRead ~> ~ eventsRead \/ Stranded(Worker) \/ swallowed \/ ~ hwInit \/ bugcheck

(* HWClose waits for the worker without a timeout: the unload ends unless   *)
(* the worker waits for an answer that was lost.                           *)
UnloadEnds ==
    phase = "unloading" ~> phase = "closed" \/ Stranded(Worker) \/ bugcheck
=============================================================================
