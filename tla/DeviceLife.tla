----------------------------- MODULE DeviceLife -----------------------------
(***************************************************************************)
(* The device from AddDevice to RemoveDevice: StartDevice with HWInit, power *)
(* down and up with GpuDeviceClose and GpuDeviceInit, StopDevice, and the   *)
(* virtio transport beneath them: status bits, features, the two queues'    *)
(* memory and registers, each step of which may fail.  dxgkrnl makes one of *)
(* these calls at a time.  Interrupts and commands in flight are the        *)
(* subject of GpuCommand; here a command only uses the queues once.         *)
(***************************************************************************)
EXTENDS Integers, FiniteSets

CONSTANTS
    QueueSize,      (* queue_size of the device after a reset               *)
    MaxStarts,      (* bound on the calls of StartDevice                    *)
    MaxPowerDowns,  (* bound on the transitions to D3                       *)
    MayFail         (* the steps that may fail                              *)

Steps == {"information", "new", "resources", "transport", "version", "features",
          "query", "pages", "heap", "notify", "vbufs", "ids", "thread", "mode list",
          "registry"}

ASSUME QueueSizeAssumption == QueueSize \in Nat \ {0}
ASSUME BoundsAssumption == MaxStarts \in Nat \ {0} /\ MaxPowerDowns \in Nat
ASSUME MayFailAssumption == MayFail \subseteq Steps

VARIABLES
    pc,             (* the next step of the call                            *)
    call,           (* the DDI that dxgkrnl calls                           *)
    again,          (* the power state is set for the second time           *)
    dod,            (* VioGpuDod: none, added, started, stopped             *)
    power,          (* the power state dxgkrnl asked for last               *)
    hwDevice,       (* m_pHWDevice is set                                   *)
    hardwareInit,   (* m_Flags.HardwareInit                                 *)
    ops,            (* m_VioDev.device is set                               *)
    info,           (* m_VioDev.info: each queue's vq, pages and num        *)
    q,              (* the queue that is set up or deleted                  *)
    heap,           (* vq_addr, the vq being set up                         *)
    ptr,            (* m_pVirtQueue of m_CtrlQueue and m_CursorQueue        *)
    pool,           (* number of vbufs in m_GpuBuf                          *)
    worker,         (* the configuration worker exists                      *)
    frameBuf,       (* m_pFrameBuf is set                                   *)
    status,         (* the device's status register                         *)
    reg,            (* its queue registers: size, ring, enable              *)
    mem, fresh,     (* blocks that are allocated; the next one's name       *)
    starts, downs,  (* how often StartDevice and D3 were called             *)
    failed,         (* history: the step that failed last                   *)
    abandoned,      (* history: a GpuDevice was dropped undeleted           *)
    misfreed,       (* history: blocks freed that were not allocated        *)
    broken          (* what ended the system                                *)

callVars == <<call, again>>
dodVars == <<dod, power, hwDevice, hardwareInit>>
gpuVars == <<ptr, pool, worker, frameBuf>>
vdevVars == <<ops, info, q, heap>>
regVars == <<status, reg>>
memVars == <<mem, fresh, misfreed>>
countVars == <<starts, downs>>
vars == <<pc, callVars, dodVars, gpuVars, vdevVars, regVars, memVars, countVars,
          failed, abandoned, broken>>

Queues == {0, 1}
Nothing == 0
NoInfo == [k \in Queues |-> [vq |-> Nothing, pages |-> Nothing, num |-> 0]]
NoReg == [k \in Queues |-> [size |-> QueueSize, ring |-> Nothing, on |-> FALSE]]

Init ==
    /\ pc = "idle" /\ call = "none" /\ again = FALSE
    /\ dod = "none" /\ power = "D0" /\ hwDevice = FALSE /\ hardwareInit = FALSE
    /\ ops = FALSE /\ info = NoInfo /\ q = 0 /\ heap = Nothing
    /\ ptr = [k \in Queues |-> Nothing] /\ pool = 0
    /\ worker = FALSE /\ frameBuf = FALSE
    /\ status = {} /\ reg = NoReg
    /\ mem = {} /\ fresh = 1 /\ misfreed = {}
    /\ starts = 0 /\ downs = 0
    /\ failed = {} /\ abandoned = FALSE /\ broken = "no"

-----------------------------------------------------------------------------
(* How the steps are put together.                                         *)

At(step) == broken = "no" /\ pc = step
Goes(step) == pc' = step /\ UNCHANGED broken
Breaks(how) == broken' = how /\ UNCHANGED pc
Fails(step) == step \in MayFail /\ failed' = {step}
Works == UNCHANGED failed

(* Where a failure of HWInit or GpuDeviceInit leads.                        *)
Failure(step) ==
    IF step \in {"query", "pages", "heap", "notify"} THEN "undo queues"
    ELSE IF call = "power up" /\ step = "transport" THEN "power set"
    ELSE "failed"

Allocates == fresh' = fresh + 1 /\ mem' = mem \cup {fresh} /\ UNCHANGED misfreed
Frees(blocks) ==
    /\ mem' = mem \ blocks
    /\ misfreed' = misfreed \cup (blocks \ mem)
    /\ UNCHANGED fresh

(* "QEMU has a bug where queues don't revert to inactive on device reset".  *)
AfterReset(on) == [k \in Queues |-> [reg[k] EXCEPT !.size = QueueSize, !.on = on /\ @]]

-----------------------------------------------------------------------------
(* The calls of dxgkrnl.                                                   *)

AddDevice ==
    /\ At("idle") /\ dod = "none" /\ starts < MaxStarts
    /\ dod' = "added" /\ power' = "D0"
    /\ UNCHANGED <<pc, callVars, hwDevice, hardwareInit, gpuVars, vdevVars, regVars,
                   memVars, countVars, failed, abandoned, broken>>

(* IsDriverActive, which every call on the display and on its power asks.   *)
DriverActive == dod = "started"

(* A device that was stopped may be started again.  m_pHWDevice is           *)
(* overwritten, whatever it points to.                                     *)
StartDevice ==
    /\ At("idle") /\ dod \in {"added", "stopped"} /\ power = "D0" /\ starts < MaxStarts
    /\ starts' = starts + 1 /\ UNCHANGED downs
    /\ call' = "start" /\ UNCHANGED again
    /\ \/ /\ Fails("information") /\ Goes("start failed")
          /\ UNCHANGED <<hwDevice, abandoned, gpuVars, ops, info, q, heap>>
       \/ /\ \/ Fails("new") /\ Goes("start failed") /\ hwDevice' = FALSE
             \/ Works /\ Goes("resources") /\ hwDevice' = TRUE
          /\ abandoned' = (abandoned \/ hwDevice)
          /\ ptr' = [k \in Queues |-> Nothing] /\ pool' = 0
          /\ worker' = FALSE /\ frameBuf' = FALSE
          /\ ops' = FALSE /\ info' = NoInfo /\ UNCHANGED <<q, heap>>
    /\ UNCHANGED <<dod, power, hardwareInit, regVars, memVars>>

(* StopDeviceAndReleasePostDisplayOwnership blacks out the frame buffer's   *)
(* memory before; neither touches the device, its queues or HardwareInit.   *)
StopDevice ==
    /\ At("idle") /\ DriverActive /\ power = "D0"
    /\ dod' = "stopped"
    /\ UNCHANGED <<pc, callVars, power, hwDevice, hardwareInit, gpuVars, vdevVars, regVars,
                   memVars, countVars, failed, abandoned, broken>>

PowerDown ==
    /\ At("idle") /\ DriverActive /\ power = "D0" /\ downs < MaxPowerDowns
    /\ downs' = downs + 1 /\ UNCHANGED starts
    /\ power' = "D3" /\ call' = "power down" /\ again' = FALSE
    /\ Goes("close")
    /\ UNCHANGED <<dod, hwDevice, hardwareInit, gpuVars, vdevVars, regVars, memVars,
                   failed, abandoned>>

PowerUp ==
    /\ At("idle") /\ DriverActive /\ power = "D3"
    /\ power' = "D0" /\ call' = "power up" /\ again' = FALSE
    /\ Goes("transport")
    /\ UNCHANGED <<dod, hwDevice, hardwareInit, gpuVars, vdevVars, regVars, memVars,
                   countVars, failed, abandoned>>

(* The wrapper of SetPowerState returns success for a driver that is not     *)
(* active: the adapter may lose all it had, and nobody sets it up again.     *)
PowerInactive ==
    /\ At("idle") /\ dod \in {"added", "stopped"}
    /\ \/ /\ power = "D0" /\ downs < MaxPowerDowns
          /\ power' = "D3" /\ downs' = downs + 1
          /\ \/ UNCHANGED regVars
             \/ status' = {} /\ \E on \in BOOLEAN : reg' = AfterReset(on)
       \/ /\ power = "D3"
          /\ power' = "D0" /\ UNCHANGED <<downs, regVars>>
    /\ UNCHANGED <<pc, callVars, dod, hwDevice, hardwareInit, gpuVars, vdevVars, memVars,
                   starts, failed, abandoned, broken>>

(* ~VioGpuDod; ~GpuDevice first destroys the frame buffer with commands.    *)
RemoveDevice ==
    /\ At("idle") /\ dod \in {"added", "stopped"} /\ power = "D0"
    /\ call' = "remove" /\ UNCHANGED again
    /\ IF ~ hwDevice THEN Goes("removed")
       ELSE IF frameBuf /\ ptr[0] = Nothing THEN Breaks("null queue")
       ELSE Goes("close")
    /\ frameBuf' = FALSE
    /\ UNCHANGED <<dodVars, ptr, pool, worker, vdevVars, regVars, memVars, countVars,
                   failed, abandoned>>

(* Any call that queues a command, CommitVidPn for one.                     *)
UseDevice ==
    /\ At("idle") /\ DriverActive /\ power = "D0"
    /\ IF ptr[0] = Nothing THEN Breaks("null queue") ELSE UNCHANGED <<pc, broken>>
    /\ frameBuf' = TRUE
    /\ UNCHANGED <<callVars, dodVars, ptr, pool, worker, vdevVars, regVars, memVars,
                   countVars, failed, abandoned>>

-----------------------------------------------------------------------------
(* HWInit and GpuDeviceInit.                                               *)

CheckResources ==
    /\ At("resources")
    /\ \/ Works /\ Goes("transport")
       \/ Fails("resources") /\ Goes("failed")
    /\ UNCHANGED <<callVars, dodVars, gpuVars, vdevVars, regVars, memVars, countVars, abandoned>>

(* virtio_device_initialize zeroes the device before anything else.         *)
InitializeTransport ==
    /\ At("transport")
    /\ info' = NoInfo /\ UNCHANGED <<q, heap>>
    /\ \/ Works /\ ops' = TRUE /\ Goes("reset")
       \/ Fails("transport") /\ ops' = FALSE /\ Goes(Failure("transport"))
    /\ UNCHANGED <<callVars, dodVars, gpuVars, regVars, memVars, countVars, abandoned>>

ResetDevice ==
    /\ At("reset")
    /\ status' = {"acknowledge", "driver"}
    /\ \E on \in BOOLEAN : reg' = AfterReset(on)
    /\ Goes("features")
    /\ UNCHANGED <<callVars, dodVars, gpuVars, vdevVars, memVars, countVars, failed, abandoned>>

(* AckFeature(VIRTIO_F_VERSION_1) fails for a legacy device; the device may *)
(* refuse FEATURES_OK.                                                     *)
SetFeatures ==
    /\ At("features")
    /\ \/ /\ Works /\ Goes("query")
          /\ status' = status \cup {"features ok"}
       \/ \E step \in {"version", "features"} :
             Fails(step) /\ Goes("failed") /\ UNCHANGED status
    /\ q' = 0
    /\ UNCHANGED <<callVars, dodVars, gpuVars, ops, info, heap, reg, memVars, countVars, abandoned>>

QueryQueue ==
    /\ At("query")
    /\ \/ /\ Works /\ Goes("pages")
          /\ info' = [info EXCEPT ![q].num = reg[q].size]
       \/ Fails("query") /\ Goes(Failure("query")) /\ UNCHANGED info
    /\ UNCHANGED <<callVars, dodVars, gpuVars, ops, q, heap, regVars, memVars, countVars, abandoned>>

(* Where there is no memory a smaller ring is tried, down to one of size 0. *)
AllocatePages ==
    /\ At("pages")
    /\ \/ /\ Works /\ Allocates /\ Goes("heap")
          /\ info' = [info EXCEPT ![q].pages = fresh]
       \/ /\ Fails("pages") /\ UNCHANGED memVars
          /\ info' = [info EXCEPT ![q].pages = Nothing, ![q].num = @ \div 2]
          /\ Goes(IF info[q].num > 0 THEN "pages" ELSE Failure("pages"))
    /\ UNCHANGED <<callVars, dodVars, gpuVars, ops, q, heap, regVars, countVars, abandoned>>

(* Nothing frees the pages where this fails.                               *)
AllocateHeap ==
    /\ At("heap")
    /\ \/ Works /\ Allocates /\ heap' = fresh /\ Goes("activate")
       \/ Fails("heap") /\ UNCHANGED <<memVars, heap>> /\ Goes(Failure("heap"))
    /\ UNCHANGED <<callVars, dodVars, gpuVars, ops, info, q, regVars, countVars, abandoned>>

(* vring_new_virtqueue; the loop of initialize_virtqueue counts to num - 1,  *)
(* which is unsigned.                                                      *)
ActivateQueue ==
    /\ At("activate")
    /\ IF info[q].num = 0 THEN Breaks("empty queue") /\ UNCHANGED reg
       ELSE /\ Goes("notify")
            /\ reg' = [reg EXCEPT ![q].size = info[q].num, ![q].ring = info[q].pages]
    /\ UNCHANGED <<callVars, dodVars, gpuVars, vdevVars, status, memVars, countVars,
                   failed, abandoned>>

(* Deviation: the error path frees the pages only.                         *)
EnableQueueKeeps ==
    /\ At("notify")
    /\ heap' = Nothing
    /\ \/ /\ Works /\ UNCHANGED memVars
          /\ reg' = [reg EXCEPT ![q].on = TRUE]
          /\ info' = [info EXCEPT ![q].vq = heap]
          /\ q' = 1 - q
          /\ Goes(IF q = 0 THEN "query" ELSE "queues found")
       \/ /\ Fails("notify") /\ Frees({info[q].pages})
          /\ UNCHANGED <<reg, info, q>>
          /\ Goes(Failure("notify"))
    /\ UNCHANGED <<callVars, dodVars, gpuVars, ops, status, countVars, abandoned>>

(* The notification word; queue_enable.                                    *)
EnableQueue ==
    /\ At("notify")
    /\ heap' = Nothing
    /\ \/ /\ Works /\ UNCHANGED memVars
          /\ reg' = [reg EXCEPT ![q].on = TRUE]
          /\ info' = [info EXCEPT ![q].vq = heap]
          /\ q' = 1 - q
          /\ Goes(IF q = 0 THEN "query" ELSE "queues found")
       \/ /\ Fails("notify") /\ Frees({info[q].pages, heap})
          /\ UNCHANGED <<reg, info, q>>
          /\ Goes(Failure("notify"))
    /\ UNCHANGED <<callVars, dodVars, gpuVars, ops, status, countVars, abandoned>>

(* m_CtrlQueue.Init, m_CursorQueue.Init; HWInit goes on to the vbufs.        *)
InitQueues ==
    /\ At("queues found")
    /\ ptr' = [k \in Queues |-> info[k].vq]
    /\ Goes(IF call = "start" THEN "vbufs" ELSE "ready")
    /\ UNCHANGED <<callVars, dodVars, pool, worker, frameBuf, vdevVars, regVars, memVars,
                   countVars, failed, abandoned>>

(* One vbuf for every entry of the queues, m_GpuBuf and m_Idr.               *)
InitBuffers ==
    /\ At("vbufs")
    /\ \/ Works /\ pool' = reg[0].size + reg[1].size /\ Goes("ready")
       \/ Fails("vbufs") /\ UNCHANGED pool /\ Goes("failed")
       \/ Fails("ids") /\ pool' = reg[0].size + reg[1].size /\ Goes("failed")
    /\ UNCHANGED <<callVars, dodVars, ptr, worker, frameBuf, vdevVars, regVars, memVars,
                   countVars, abandoned>>

AfterInit == IF call = "start" THEN "thread" ELSE "power set"

(* virtio_device_ready with its assertion, and HardwareInit.                *)
DeviceReady ==
    /\ At("ready")
    /\ IF "driver ok" \in status THEN Breaks("ready twice") ELSE Goes(AfterInit)
    /\ status' = status \cup {"driver ok"}
    /\ hardwareInit' = TRUE
    /\ UNCHANGED <<callVars, dod, power, hwDevice, gpuVars, vdevVars, reg, memVars,
                   countVars, failed, abandoned>>

DeviceFailed ==
    /\ At("failed")
    /\ IF ops THEN status' = status \cup {"failed"} /\ Goes(AfterInit)
       ELSE UNCHANGED status /\ Breaks("null ops")
    /\ UNCHANGED <<callVars, dodVars, gpuVars, vdevVars, reg, memVars, countVars,
                   failed, abandoned>>

(* HWInit forgets the status it has and creates the worker.                 *)
CreateThread ==
    /\ At("thread")
    /\ \/ Works /\ worker' = TRUE /\ Goes("mode list")
       \/ Fails("thread") /\ UNCHANGED worker /\ Goes("start failed")
    /\ UNCHANGED <<callVars, dodVars, ptr, pool, frameBuf, vdevVars, regVars, memVars,
                   countVars, abandoned>>

(* GetModeList asks the device for its display and waits for the answer.    *)
GetModeList ==
    /\ At("mode list")
    /\ \/ Fails("mode list") /\ Goes("start failed")
       \/ /\ Works
          /\ IF pool = 0 THEN Breaks("null pool")
             ELSE IF "driver ok" \notin status THEN Breaks("no answer")
             ELSE Goes("registry")
    /\ UNCHANGED <<callVars, dodVars, gpuVars, vdevVars, regVars, memVars, countVars, abandoned>>

(* RegisterHWInfo, DxgkCbAcquirePostDisplayOwnership.                       *)
Started ==
    /\ At("registry")
    /\ \/ Works /\ dod' = "started" /\ Goes("idle") /\ call' = "none"
       \/ Fails("registry") /\ UNCHANGED <<dod, call>> /\ Goes("start failed")
    /\ UNCHANGED <<again, power, hwDevice, hardwareInit, gpuVars, vdevVars, regVars, memVars,
                   countVars, abandoned>>

(* dxgkrnl removes a device that did not start.                             *)
StartFailed ==
    /\ At("start failed")
    /\ dod' = "added" /\ call' = "none" /\ Goes("idle")
    /\ UNCHANGED <<again, power, hwDevice, hardwareInit, gpuVars, vdevVars, regVars, memVars,
                   countVars, failed, abandoned>>

-----------------------------------------------------------------------------
(* GpuDeviceClose, and the error path of virtio_find_queues.                *)

(* Deviation: the device is reset after its queues were deleted.            *)
CloseLate ==
    /\ At("close")
    /\ hardwareInit' = FALSE
    /\ Goes("delete queues")
    /\ UNCHANGED <<callVars, dod, power, hwDevice, gpuVars, vdevVars, regVars, memVars,
                   countVars, failed, abandoned>>

(* Deviation: HardwareInit is not cleared.                                 *)
CloseKeepsFlag ==
    /\ At("close")
    /\ IF ops
       THEN /\ status' = {} /\ Goes("delete queues")
            /\ \E on \in BOOLEAN : reg' = AfterReset(on)
       ELSE UNCHANGED regVars /\ Breaks("null ops")
    /\ UNCHANGED <<callVars, dodVars, gpuVars, vdevVars, memVars, countVars, failed, abandoned>>

Close ==
    /\ At("close")
    /\ hardwareInit' = FALSE
    /\ IF ops
       THEN /\ status' = {} /\ Goes("delete queues")
            /\ \E on \in BOOLEAN : reg' = AfterReset(on)
       ELSE UNCHANGED regVars /\ Breaks("null ops")
    /\ UNCHANGED <<callVars, dod, power, hwDevice, gpuVars, vdevVars, memVars,
                   countVars, failed, abandoned>>

Deleting == pc \in {"delete queues", "undo queues"}

(* virtio_delete_queues, one queue after the other.                         *)
DeleteQueue ==
    /\ broken = "no" /\ Deleting
    /\ \E k \in Queues :
          /\ info[k].vq # Nothing
          /\ \A j \in Queues : j < k => info[j].vq = Nothing
          /\ Frees({info[k].vq, info[k].pages})
          /\ info' = [info EXCEPT ![k].vq = Nothing]
    /\ UNCHANGED <<pc, callVars, dodVars, gpuVars, ops, q, heap, regVars, countVars,
                   failed, abandoned, broken>>

QueuesDeleted ==
    /\ broken = "no" /\ Deleting
    /\ \A k \in Queues : info[k].vq = Nothing
    /\ IF pc = "undo queues" THEN UNCHANGED ptr ELSE ptr' = [k \in Queues |-> Nothing]
    /\ Goes(IF pc = "undo queues" THEN "failed"
            ELSE IF call = "remove" THEN "hw close" ELSE "power set")
    /\ UNCHANGED <<callVars, dodVars, pool, worker, frameBuf, vdevVars, regVars, memVars,
                   countVars, failed, abandoned>>

(* Deviation: the power state is set again and again.                       *)
PowerSetRepeats ==
    /\ At("power set")
    /\ Goes(IF call = "power up" THEN "transport" ELSE "close") /\ UNCHANGED <<call, again>>
    /\ UNCHANGED <<dodVars, gpuVars, vdevVars, regVars, memVars, countVars, failed, abandoned>>

(* VioGpuDod::SetPowerState calls SetPowerState of the device twice and      *)
(* learns of no failure.                                                   *)
PowerSet ==
    /\ At("power set")
    /\ again' = TRUE
    /\ IF again THEN Goes("idle") /\ call' = "none"
       ELSE Goes(IF call = "power up" THEN "transport" ELSE "close") /\ UNCHANGED call
    /\ UNCHANGED <<dodVars, gpuVars, vdevVars, regVars, memVars, countVars, failed, abandoned>>

(* HWClose waits for the worker, which must exist.                          *)
CloseHardware ==
    /\ At("hw close")
    /\ IF worker THEN Goes("removed") ELSE Breaks("null thread")
    /\ worker' = FALSE
    /\ UNCHANGED <<callVars, dodVars, ptr, pool, frameBuf, vdevVars, regVars, memVars,
                   countVars, failed, abandoned>>

Removed ==
    /\ At("removed")
    /\ Goes("idle") /\ call' = "none"
    /\ dod' = "none" /\ hwDevice' = FALSE /\ hardwareInit' = FALSE
    /\ ops' = FALSE /\ info' = NoInfo /\ pool' = 0
    /\ UNCHANGED <<again, power, ptr, worker, frameBuf, q, heap, regVars, memVars,
                   countVars, failed, abandoned>>

Proceed ==
    \/ CheckResources \/ InitializeTransport \/ ResetDevice \/ SetFeatures
    \/ QueryQueue \/ AllocatePages \/ AllocateHeap \/ ActivateQueue \/ EnableQueue
    \/ InitQueues \/ InitBuffers \/ DeviceReady \/ DeviceFailed
    \/ CreateThread \/ GetModeList \/ Started \/ StartFailed
    \/ Close \/ DeleteQueue \/ QueuesDeleted \/ PowerSet \/ CloseHardware \/ Removed

Next ==
    \/ AddDevice \/ StartDevice \/ StopDevice \/ PowerDown \/ PowerUp \/ PowerInactive
    \/ RemoveDevice
    \/ UseDevice
    \/ Proceed

Spec == Init /\ [][Next]_vars

(* The thread that makes a call is scheduled.                              *)
FairSpec == Spec /\ WF_vars(Proceed)

-----------------------------------------------------------------------------
(* A device runs only with all bits before DRIVER_OK set, without FAILED    *)
(* before the next attempt to initialise it, and with both queues enabled;   *)
(* it only finds allocated memory behind their registers, whichever step of *)
(* setting up or closing it failed before.                                 *)
RingsAllocated ==
    "driver ok" \in status =>
        /\ {"acknowledge", "driver", "features ok"} \subseteq status
        /\ \A k \in Queues : reg[k].on /\ reg[k].ring \in mem
        /\ pc \notin {"query", "pages", "heap", "activate", "notify"}

(* Where interrupts are handled (HardwareInit) the queues' pointers name     *)
(* allocated queues, also while they are set up anew.  A device that was     *)
(* removed is reset and its worker has ended, whatever failed before, unless *)
(* StartDevice dropped one.                                                *)
HandlersFindQueues ==
    /\ hardwareInit /\ ~ abandoned => \A k \in Queues : ptr[k] \in mem
    /\ dod = "none" /\ broken = "no" /\ ~ abandoned =>
          status = {} /\ ~ worker /\ ~ hardwareInit

Reachable ==
    (UNION {{info[k].vq, info[k].pages} : k \in {j \in Queues : info[j].vq # Nothing}})
      \cup (IF pc \in {"heap", "activate", "notify"} THEN {info[q].pages, heap} ELSE {})
Lost == mem \ Reachable

(* Nothing is freed that is not allocated, and a queue's memory is only lost *)
(* where its second block cannot be allocated, where                        *)
(* virtio_device_initialize zeroes a device that has queues, and where       *)
(* StartDevice drops a device.                                             *)
LossesKnown ==
    [][/\ misfreed' = {}
       /\ \/ Lost' \subseteq Lost
          \/ pc = "transport"
          \/ pc = "heap" /\ pc' = "undo queues"
          \/ call = "none" /\ call' = "start"]_vars

(* Every call returns, and the system only breaks where a step has failed:   *)
(* the search for a size that can be allocated ends, and so does every      *)
(* error path.                                                             *)
CallsReturn == call # "none" ~> call = "none" \/ (broken # "no" /\ failed # {})
=============================================================================
