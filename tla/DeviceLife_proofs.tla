-------------------------- MODULE DeviceLife_proofs --------------------------
(***************************************************************************)
(* Whatever fails, however often the driver is started, powered down and    *)
(* removed, and whatever sizes the queues have: the device only finds rings *)
(* in memory that is allocated, interrupts find queues, and no block is     *)
(* freed twice or lost unnoticed.                                          *)
(***************************************************************************)
EXTENDS DeviceLife, TLAPS

USE QueueSizeAssumption, BoundsAssumption, MayFailAssumption

Bits == {"acknowledge", "driver", "features ok", "driver ok", "failed"}

(* The steps at which queue q is set up, and those that follow a reset.     *)
Setup == {"query", "pages", "heap", "activate", "notify"}
BothSetUp == {"queues found", "vbufs", "ready"}

QueueInfo == [vq : Nat, pages : Nat, num : Nat]
QueueReg == [size : Nat, ring : Nat, on : BOOLEAN]

(* The variables the other conjuncts speak of have their types.             *)
Typed ==
    /\ hardwareInit \in BOOLEAN /\ hwDevice \in BOOLEAN /\ abandoned \in BOOLEAN
    /\ worker \in BOOLEAN /\ ops \in BOOLEAN
    /\ info \in [Queues -> QueueInfo] /\ reg \in [Queues -> QueueReg]
    /\ ptr \in [Queues -> Nat]
    /\ status \subseteq Bits
    /\ q \in Queues /\ heap \in Nat
    /\ fresh \in Nat \ {Nothing} /\ mem \subseteq Nat \ {Nothing}
    /\ \A b \in mem : b < fresh

Held(k) == {info[k].vq, info[k].pages}

(* A queue that was found holds two blocks of its own.                     *)
FoundHeld ==
    \A k \in Queues : info[k].vq # Nothing =>
       /\ info[k].vq \in mem /\ info[k].pages \in mem
       /\ \A j \in Queues \ {k} : info[j].vq # Nothing => Held(j) \cap Held(k) = {}

(* So does the queue that is being set up, from the step on at which it gets *)
(* them.                                                                   *)
NewHeld ==
    /\ pc \in {"heap", "activate", "notify"} =>
          /\ info[q].pages \in mem
          /\ \A k \in Queues \ {q} : info[k].vq # Nothing => info[q].pages \notin Held(k)
    /\ pc \in {"activate", "notify"} =>
          /\ heap \in mem
          /\ \A k \in Queues \ {q} : info[k].vq # Nothing => heap \notin Held(k)
    /\ pc \notin {"activate", "notify"} => heap = Nothing

(* The queues are set up one after the other; the device has the rings of    *)
(* those that are.                                                         *)
QueuesInOrder ==
    /\ pc \in {"reset", "features"} => info = NoInfo
    /\ pc \in Setup => info[q].vq = Nothing /\ (q = 0 => info[1].vq = Nothing)
    /\ pc = "notify" => reg[q].ring = info[q].pages
    /\ pc \in Setup /\ q = 1 =>
          info[0].vq # Nothing /\ reg[0].on /\ reg[0].ring = info[0].pages
    /\ pc \in BothSetUp =>
          \A k \in Queues : info[k].vq # Nothing /\ reg[k].on /\ reg[k].ring = info[k].pages
    /\ pc \in {"vbufs", "ready"} => \A k \in Queues : ptr[k] = info[k].vq

(* What the status register says at each step.                             *)
StatusAsFar ==
    /\ pc \in Setup \cup BothSetUp =>
          {"acknowledge", "driver", "features ok"} \subseteq status
    /\ pc = "features" => {"acknowledge", "driver"} \subseteq status
    /\ pc \in {"features", "undo queues"} \cup Setup \cup BothSetUp =>
          "driver ok" \notin status
    /\ pc \in {"delete queues", "hw close"} => status = {} /\ ~ hardwareInit

(* While the device is set up a second time the queues of the first, which   *)
(* interrupts still use, are none of those that may be freed.               *)
HandlersFind ==
    hardwareInit /\ ~ abandoned =>
       \A k \in Queues :
          /\ ptr[k] \in mem
          /\ pc \in {"undo queues", "queues found"} \cup Setup =>
                \A j \in Queues : info[j].vq # Nothing => ptr[k] \notin Held(j)
          /\ pc \in {"heap", "activate", "notify"} => ptr[k] \notin {info[q].pages, heap}

(* Without a GpuDevice nothing was done to the device.                     *)
Untouched ==
    /\ pc \notin {"idle", "start failed", "removed"} => hwDevice
    /\ dod = "started" => hwDevice
    /\ dod = "none" => ~ hwDevice
    /\ ~ hwDevice /\ ~ abandoned => status = {} /\ ~ worker /\ ~ hardwareInit
    /\ pc = "removed" /\ ~ abandoned => status = {} /\ ~ worker

Inv ==
    /\ Typed /\ misfreed = {}
    /\ FoundHeld /\ NewHeld /\ QueuesInOrder /\ StatusAsFar
    /\ HandlersFind /\ Untouched /\ RingsAllocated

-----------------------------------------------------------------------------
(* What the steps do to the variables that hold a record for each queue.    *)

LEMMA ResetEffect ==
    ASSUME Typed, NEW on \in BOOLEAN
    PROVE  /\ AfterReset(on) \in [Queues -> QueueReg]
           /\ \A k \in Queues : AfterReset(on)[k].ring = reg[k].ring
<1> USE DEF Typed, QueueReg, AfterReset
<1>1. ASSUME NEW k \in Queues
      PROVE  /\ AfterReset(on)[k] \in QueueReg
             /\ AfterReset(on)[k].ring = reg[k].ring
  <2>1. reg[k] \in QueueReg
      OBVIOUS
  <2>2. AfterReset(on)[k] =
           [size |-> QueueSize, ring |-> reg[k].ring, on |-> on /\ reg[k].on]
      BY <2>1
  <2> QED
      BY <2>1, <2>2
<1> QED
    BY <1>1

LEMMA QueryEffect ==
    ASSUME Typed, QueryQueue
    PROVE  /\ info' \in [Queues -> QueueInfo]
           /\ \A k \in Queues : Held(k)' = Held(k) /\ info'[k].vq = info[k].vq
                                  /\ info'[k].pages = info[k].pages
<1> USE DEF Typed, QueueInfo, QueueReg, Held
<1>1. reg[q].size \in Nat
    OBVIOUS
<1>2. CASE info' = [info EXCEPT ![q].num = reg[q].size]
  <2>1. \A k \in Queues : info'[k] = [vq |-> info[k].vq, pages |-> info[k].pages,
                               num |-> IF k = q THEN reg[q].size ELSE info[k].num]
      BY <1>2
  <2> QED
      BY <1>1, <1>2, <2>1
<1> QED
    BY <1>2 DEF QueryQueue

LEMMA PagesEffect ==
    ASSUME Typed, AllocatePages
    PROVE  /\ info' \in [Queues -> QueueInfo]
           /\ \A k \in Queues : info'[k].vq = info[k].vq
           /\ \A k \in Queues \ {q} : info'[k].pages = info[k].pages
           /\ pc' = "heap" => /\ info'[q].pages = fresh
                              /\ mem' = mem \cup {fresh} /\ fresh' = fresh + 1
           /\ pc' # "heap" => UNCHANGED memVars
           /\ pc' \in {"heap", "pages", "undo queues"} /\ UNCHANGED misfreed
<1> USE DEF Typed, QueueInfo, Goes, Fails, Works, Allocates, Failure, memVars, Nothing
<1>1. CASE Allocates /\ Goes("heap") /\ info' = [info EXCEPT ![q].pages = fresh]
  <2>1. info'[q] = [vq |-> info[q].vq, pages |-> fresh, num |-> info[q].num]
      BY <1>1
  <2>2. \A k \in Queues \ {q} : info'[k] = info[k]
      BY <1>1
  <2>3. info' \in [Queues -> QueueInfo]
      BY <1>1, <2>1, <2>2
  <2> QED
      BY <1>1, <2>1, <2>2, <2>3
<1>2. CASE /\ UNCHANGED memVars
           /\ info' = [info EXCEPT ![q].pages = Nothing, ![q].num = @ \div 2]
           /\ pc' \in {"pages", "undo queues"}
  <2>1. info'[q] = [vq |-> info[q].vq, pages |-> Nothing, num |-> info[q].num \div 2]
    <3>1. q \in Queues /\ info[q] \in QueueInfo
        OBVIOUS
    <3> QED
        BY <1>2, <3>1
  <2>2. \A k \in Queues \ {q} : info'[k] = info[k]
      BY <1>2
  <2>3. info[q].num \in Nat /\ info[q].num \div 2 \in Nat
      OBVIOUS
  <2>4. info'[q] \in QueueInfo
      BY <2>1, <2>3
  <2>5. info' \in [Queues -> QueueInfo]
      BY <1>2, <2>2, <2>4
  <2> QED
      BY <1>2, <2>1, <2>2, <2>5
<1> QED
    BY <1>1, <1>2 DEF AllocatePages

LEMMA ActivateEffect ==
    ASSUME Typed, ActivateQueue
    PROVE  /\ reg' \in [Queues -> QueueReg]
           /\ \A k \in Queues : reg'[k].on = reg[k].on
           /\ \A k \in Queues \ {q} : reg'[k] = reg[k]
           /\ pc' = "notify" => reg'[q].ring = info[q].pages
           /\ pc' \in {"activate", "notify"}
<1> USE DEF Typed, QueueInfo, QueueReg, Goes, Breaks
<1>1. CASE UNCHANGED <<pc, reg>> /\ pc = "activate"
    BY <1>1
<1>2. CASE /\ reg' = [reg EXCEPT ![q].size = info[q].num, ![q].ring = info[q].pages]
           /\ pc' = "notify"
  <2>1. reg'[q] = [size |-> info[q].num, ring |-> info[q].pages, on |-> reg[q].on]
      BY <1>2
  <2>2. \A k \in Queues \ {q} : reg'[k] = reg[k]
      BY <1>2
  <2>3. reg' \in [Queues -> QueueReg]
      BY <1>2, <2>1, <2>2
  <2> QED
      BY <1>2, <2>1, <2>2, <2>3
<1> QED
    BY <1>1, <1>2 DEF ActivateQueue, At

(* A queue that is found takes over the block vq_addr named.               *)
LEMMA EnableEffect ==
    ASSUME Typed, EnableQueue, pc' # "undo queues"
    PROVE  /\ info' \in [Queues -> QueueInfo] /\ reg' \in [Queues -> QueueReg]
           /\ \A k \in Queues : info'[k].pages = info[k].pages /\ reg'[k].ring = reg[k].ring
           /\ \A k \in Queues \ {q} : info'[k] = info[k] /\ reg'[k] = reg[k]
           /\ info'[q].vq = heap /\ reg'[q].on
<1> USE DEF Typed, QueueInfo, QueueReg
<1>1. /\ reg' = [reg EXCEPT ![q].on = TRUE]
      /\ info' = [info EXCEPT ![q].vq = heap]
    BY DEF EnableQueue, Goes, Failure
<1>2. info'[q] = [vq |-> heap, pages |-> info[q].pages, num |-> info[q].num]
    BY <1>1
<1>3. reg'[q] = [size |-> reg[q].size, ring |-> reg[q].ring, on |-> TRUE]
    BY <1>1
<1>4. \A k \in Queues \ {q} : info'[k] = info[k] /\ reg'[k] = reg[k]
    BY <1>1
<1>5. info' \in [Queues -> QueueInfo]
  <2>1. info[q].pages \in Nat /\ info[q].num \in Nat /\ heap \in Nat
      OBVIOUS
  <2>2. [vq |-> heap, pages |-> info[q].pages, num |-> info[q].num] \in QueueInfo
      BY <2>1
  <2>3. \A k \in Queues : info'[k] \in QueueInfo
      BY <1>2, <1>4, <2>2
  <2> QED
      BY <1>1, <2>3
<1>6. reg' \in [Queues -> QueueReg]
    BY ZenonT(30), <1>1, <1>3, <1>4
<1>7. ASSUME NEW k \in Queues
      PROVE  info'[k].pages = info[k].pages /\ reg'[k].ring = reg[k].ring
  <2>1. CASE k = q
    <3>1. info'[k].pages = info[k].pages
        BY <1>1, <2>1
    <3>2. reg'[k].ring = reg[k].ring
        BY <1>1, <2>1
    <3> QED
        BY <3>1, <3>2
  <2>2. CASE k # q
      BY <1>4, <2>2
  <2> QED
      BY <2>1, <2>2
<1>8. info'[q].vq = heap
    BY <1>1
<1>9. reg'[q].on
    BY <1>1
<1> HIDE DEF Typed, QueueInfo, QueueReg
<1> QED
    BY <1>4, <1>5, <1>6, <1>7, <1>8, <1>9

LEMMA DeleteEffect ==
    ASSUME Typed, NEW k \in Queues, info' = [info EXCEPT ![k].vq = Nothing]
    PROVE  /\ info' \in [Queues -> QueueInfo]
           /\ info'[k].vq = Nothing /\ info'[k].pages = info[k].pages
           /\ \A j \in Queues \ {k} : info'[j] = info[j]
<1> USE DEF Typed, QueueInfo, Nothing
<1>1. info'[k] = [vq |-> Nothing, pages |-> info[k].pages, num |-> info[k].num]
    OBVIOUS
<1>2. \A j \in Queues \ {k} : info'[j] = info[j]
    OBVIOUS
<1>3. info' \in [Queues -> QueueInfo]
    BY <1>1, <1>2
<1> QED
    BY <1>1, <1>2, <1>3

-----------------------------------------------------------------------------
LEMMA FreshIsNew ==
    ASSUME Typed
    PROVE  fresh \notin mem /\ fresh # Nothing
<1>1. ~ (fresh < fresh)
    BY DEF Typed
<1> QED
    BY <1>1 DEF Typed

LEMMA NoInfoEmpty ==
    /\ NoInfo \in [Queues -> QueueInfo]
    /\ \A k \in Queues : NoInfo[k].vq = Nothing /\ NoInfo[k].pages = Nothing
BY DEF NoInfo, QueueInfo, Nothing

(* What is held depends on the blocks that the queues' records name.        *)
LEMMA HeldFrame ==
    ASSUME Inv, UNCHANGED <<mem, misfreed, heap, q>>,
           \A k \in Queues : info'[k].vq = info[k].vq /\ info'[k].pages = info[k].pages,
           pc' \in {"activate", "notify"} <=> pc \in {"activate", "notify"},
           pc' = "heap" => pc = "heap"
    PROVE  misfreed' = {} /\ FoundHeld' /\ NewHeld'
<1>1. \A k \in Queues : Held(k)' = Held(k)
    BY DEF Held
<1>2. FoundHeld'
    BY <1>1 DEF Inv, FoundHeld
<1>3. NewHeld'
    BY <1>1 DEF Inv, Typed, NewHeld
<1> QED
    BY <1>2, <1>3 DEF Inv

(* A step outside the set-up that leaves queues and device alone keeps what  *)
(* is said of them.                                                        *)
Elsewhere ==
    Setup \cup BothSetUp \cup
       {"reset", "features", "undo queues", "delete queues", "hw close"}
Quiet ==
    /\ pc \notin Elsewhere /\ pc' \notin Elsewhere
    /\ UNCHANGED <<info, q, heap, ptr, reg, status, memVars, hardwareInit, abandoned>>

LEMMA ElsewhereFrame ==
    ASSUME Inv, Quiet
    PROVE  /\ misfreed' = {} /\ FoundHeld' /\ NewHeld' /\ QueuesInOrder'
           /\ StatusAsFar' /\ HandlersFind' /\ RingsAllocated'
<1> USE DEF Quiet
<1>1. misfreed' = {} /\ FoundHeld' /\ NewHeld'
    BY DEF Inv, Elsewhere, memVars, Setup, Nothing, FoundHeld, NewHeld, Held
<1>2. QueuesInOrder'
    BY DEF Inv, Elsewhere, Setup, BothSetUp, Nothing, QueuesInOrder
<1>3. StatusAsFar'
    BY DEF Inv, Elsewhere, BothSetUp, Nothing, StatusAsFar
<1>4. HandlersFind'
  <2>1. /\ pc' \notin {"undo queues", "queues found"} \cup Setup
        /\ pc' \notin {"heap", "activate", "notify"}
      BY DEF Elsewhere, Setup, BothSetUp
  <2> SUFFICES ASSUME hardwareInit', ~ abandoned', NEW k \in Queues
               PROVE  ptr'[k] \in mem'
      BY <2>1 DEF HandlersFind
  <2> QED
      BY DEF Inv, HandlersFind, memVars
<1>5. RingsAllocated'
    BY DEF Inv, Elsewhere, memVars, Setup, RingsAllocated
<1> QED
    BY <1>1, <1>2, <1>3, <1>4, <1>5

(* The steps that neither speak to the device nor touch its queues.         *)
LEMMA QuietKeepsInv ==
    ASSUME Inv,
           \/ AddDevice \/ StopDevice \/ PowerDown \/ PowerUp \/ RemoveDevice \/ UseDevice
           \/ CheckResources \/ CreateThread \/ GetModeList \/ Started \/ StartFailed
           \/ PowerSet
    PROVE  Inv'
<1> USE DEF Quiet, Elsewhere, Nothing, Queues, Setup, BothSetUp, callVars, dodVars,
        gpuVars, vdevVars, regVars, memVars, countVars, At, Goes, Breaks, Fails, Works
<1>1. CASE AddDevice
  <2>1. Typed'
      BY <1>1 DEF AddDevice, Inv, Typed
  <2>2. Untouched'
      BY <1>1 DEF AddDevice, Inv, Untouched
  <2>3. Quiet
      BY <1>1 DEF AddDevice, Failure
  <2> QED
      BY <2>1, <2>2, <2>3, ElsewhereFrame DEF Inv
<1>2. CASE StopDevice
  <2>1. Typed'
      BY <1>2 DEF StopDevice, Inv, Typed
  <2>2. Untouched'
      BY <1>2 DEF StopDevice, Inv, Untouched
  <2>3. Quiet
      BY <1>2 DEF StopDevice, Failure
  <2> QED
      BY <2>1, <2>2, <2>3, ElsewhereFrame DEF Inv
<1>3. CASE PowerDown
  <2>1. Typed'
      BY <1>3 DEF PowerDown, Inv, Typed
  <2>2. Untouched'
      BY <1>3 DEF PowerDown, Inv, Untouched, DriverActive
  <2>3. Quiet
      BY <1>3 DEF PowerDown, Failure
  <2> QED
      BY <2>1, <2>2, <2>3, ElsewhereFrame DEF Inv
<1>4. CASE PowerUp
  <2>1. Typed'
      BY <1>4 DEF PowerUp, Inv, Typed
  <2>2. Untouched'
      BY <1>4 DEF PowerUp, Inv, Untouched, DriverActive
  <2>3. Quiet
      BY <1>4 DEF PowerUp, Failure
  <2> QED
      BY <2>1, <2>2, <2>3, ElsewhereFrame DEF Inv
<1>5. CASE RemoveDevice
  <2>1. Typed'
      BY <1>5 DEF RemoveDevice, Inv, Typed
  <2>2. Untouched'
      BY <1>5 DEF RemoveDevice, Inv, Untouched
  <2>3. Quiet
      BY <1>5 DEF RemoveDevice, Failure
  <2> QED
      BY <2>1, <2>2, <2>3, ElsewhereFrame DEF Inv
<1>6. CASE UseDevice
  <2>1. Typed'
      BY <1>6 DEF UseDevice, Inv, Typed
  <2>2. Untouched'
      BY <1>6 DEF UseDevice, Inv, Untouched
  <2>3. Quiet
      BY <1>6 DEF UseDevice, Failure
  <2> QED
      BY <2>1, <2>2, <2>3, ElsewhereFrame DEF Inv
<1>7. CASE CheckResources
  <2>1. Typed'
      BY <1>7 DEF CheckResources, Inv, Typed
  <2>2. Untouched'
      BY <1>7 DEF CheckResources, Inv, Untouched
  <2>3. Quiet
      BY <1>7 DEF CheckResources, Failure
  <2> QED
      BY <2>1, <2>2, <2>3, ElsewhereFrame DEF Inv
<1>8. CASE CreateThread
  <2>1. Typed'
      BY <1>8 DEF CreateThread, Inv, Typed
  <2>2. Untouched'
      BY <1>8 DEF CreateThread, Inv, Untouched
  <2>3. Quiet
      BY <1>8 DEF CreateThread, Failure
  <2> QED
      BY <2>1, <2>2, <2>3, ElsewhereFrame DEF Inv
<1>9. CASE GetModeList
  <2>1. Typed'
      BY <1>9 DEF GetModeList, Inv, Typed
  <2>2. Untouched'
      BY <1>9 DEF GetModeList, Inv, Untouched
  <2>3. Quiet
      BY <1>9 DEF GetModeList, Failure
  <2> QED
      BY <2>1, <2>2, <2>3, ElsewhereFrame DEF Inv
<1>10. CASE Started
  <2>1. Typed'
      BY <1>10 DEF Started, Inv, Typed
  <2>2. Untouched'
      BY <1>10 DEF Started, Inv, Untouched
  <2>3. Quiet
      BY <1>10 DEF Started, Failure
  <2> QED
      BY <2>1, <2>2, <2>3, ElsewhereFrame DEF Inv
<1>11. CASE StartFailed
  <2>1. Typed'
      BY <1>11 DEF StartFailed, Inv, Typed
  <2>2. Untouched'
      BY <1>11 DEF StartFailed, Inv, Untouched
  <2>3. Quiet
      BY <1>11 DEF StartFailed, Failure
  <2> QED
      BY <2>1, <2>2, <2>3, ElsewhereFrame DEF Inv
<1>12. CASE PowerSet
  <2>1. Typed'
      BY <1>12 DEF PowerSet, Inv, Typed
  <2>2. Untouched'
      BY <1>12 DEF PowerSet, Inv, Untouched
  <2>3. Quiet
      BY <1>12 DEF PowerSet, Failure
  <2> QED
      BY <2>1, <2>2, <2>3, ElsewhereFrame DEF Inv
<1> QED
    BY <1>1, <1>2, <1>3, <1>4, <1>5, <1>6, <1>7, <1>8, <1>9, <1>10, <1>11, <1>12

-----------------------------------------------------------------------------
(* Each of the other steps keeps the invariant.                            *)

LEMMA StartDeviceKeepsInv ==
    ASSUME Inv, StartDevice
    PROVE  Inv'
<1> USE DEF Nothing, Queues, Setup, BothSetUp, gpuVars, regVars, memVars, At,
        Goes, Fails, Works
<1>1. Typed'
  <2>1. CASE UNCHANGED <<hwDevice, abandoned, gpuVars, info>> /\ UNCHANGED ops
      BY <2>1 DEF StartDevice, Inv, Typed
  <2>2. CASE /\ hwDevice' \in BOOLEAN /\ abandoned' = (abandoned \/ hwDevice)
             /\ worker' = FALSE /\ ops' = FALSE /\ info' = NoInfo
             /\ ptr' = [k \in Queues |-> Nothing]
    <3>1. ptr' \in [Queues -> Nat] /\ info' \in [Queues -> QueueInfo]
        BY <2>2, NoInfoEmpty
    <3>2. abandoned' \in BOOLEAN
        BY <2>2 DEF Inv, Typed
    <3> QED
        BY <2>2, <3>1, <3>2 DEF StartDevice, Inv, Typed
  <2> QED
      BY <2>1, <2>2 DEF StartDevice
<1>2. misfreed' = {} /\ FoundHeld' /\ NewHeld'
    BY NoInfoEmpty DEF StartDevice, Inv, FoundHeld, NewHeld, Held
<1>3. QueuesInOrder'
    BY NoInfoEmpty DEF StartDevice, Inv, QueuesInOrder
<1>4. StatusAsFar'
    BY NoInfoEmpty DEF StartDevice, Inv, StatusAsFar
<1>5. HandlersFind'
  <2>1. CASE UNCHANGED <<ptr, info, heap, q, abandoned>>
      BY <2>1 DEF StartDevice, Inv, HandlersFind
  <2>2. CASE abandoned' = (abandoned \/ hwDevice)
      BY <2>2 DEF StartDevice, Inv, HandlersFind, Untouched
  <2> QED
      BY <2>1, <2>2 DEF StartDevice
<1>6. Untouched'
  <2>1. CASE UNCHANGED <<hwDevice, abandoned, worker>> /\ pc' = "start failed"
      BY <2>1 DEF StartDevice, Inv, Untouched
  <2>2. CASE /\ abandoned' = (abandoned \/ hwDevice) /\ worker' = FALSE
             /\ pc' = "start failed" /\ hwDevice' = FALSE
      BY <2>2 DEF StartDevice, Inv, Untouched
  <2>3. CASE pc' = "resources" /\ hwDevice' = TRUE
      BY <2>3 DEF StartDevice, Inv, Untouched
  <2> QED
      BY <2>1, <2>2, <2>3 DEF StartDevice
<1>7. RingsAllocated'
    BY NoInfoEmpty DEF StartDevice, Inv, RingsAllocated
<1> QED
    BY <1>1, <1>2, <1>3, <1>4, <1>5, <1>6, <1>7 DEF Inv

LEMMA PowerInactiveKeepsInv ==
    ASSUME Inv, PowerInactive
    PROVE  Inv'
<1> USE DEF Nothing, Queues, Setup, BothSetUp, callVars, gpuVars, vdevVars,
        regVars, memVars, At
<1>1. Typed'
    BY ResetEffect DEF PowerInactive, Inv, Typed, Bits
<1>2. misfreed' = {} /\ FoundHeld' /\ NewHeld'
    BY ResetEffect DEF PowerInactive, Inv, FoundHeld, NewHeld, Held
<1>3. QueuesInOrder'
    BY ResetEffect DEF PowerInactive, Inv, QueuesInOrder
<1>4. StatusAsFar'
    BY ResetEffect DEF PowerInactive, Inv, StatusAsFar
<1>5. HandlersFind'
    BY ResetEffect DEF PowerInactive, Inv, HandlersFind
<1>6. Untouched'
    BY ResetEffect DEF PowerInactive, Inv, Untouched
<1>7. RingsAllocated'
    BY ResetEffect DEF PowerInactive, Inv, RingsAllocated
<1> QED
    BY <1>1, <1>2, <1>3, <1>4, <1>5, <1>6, <1>7 DEF Inv

LEMMA InitializeTransportKeepsInv ==
    ASSUME Inv, InitializeTransport
    PROVE  Inv'
<1> USE DEF Nothing, Queues, Setup, BothSetUp, callVars, dodVars, gpuVars,
        regVars, memVars, countVars, At, Goes, Fails, Works, Failure
<1>1. Typed'
    BY NoInfoEmpty DEF InitializeTransport, Inv, Typed
<1>2. misfreed' = {} /\ FoundHeld' /\ NewHeld'
    BY NoInfoEmpty DEF InitializeTransport, Inv, FoundHeld, NewHeld, Held
<1>3. QueuesInOrder'
    BY NoInfoEmpty DEF InitializeTransport, Inv, QueuesInOrder
<1>4. StatusAsFar'
    BY NoInfoEmpty DEF InitializeTransport, Inv, StatusAsFar
<1>5. HandlersFind'
    BY NoInfoEmpty DEF InitializeTransport, Inv, HandlersFind
<1>6. Untouched'
    BY NoInfoEmpty DEF InitializeTransport, Inv, Untouched
<1>7. RingsAllocated'
    BY NoInfoEmpty DEF InitializeTransport, Inv, RingsAllocated
<1> QED
    BY <1>1, <1>2, <1>3, <1>4, <1>5, <1>6, <1>7 DEF Inv

LEMMA ResetDeviceKeepsInv ==
    ASSUME Inv, ResetDevice
    PROVE  Inv'
<1> USE DEF Nothing, Queues, Setup, BothSetUp, callVars, dodVars, gpuVars,
        vdevVars, memVars, countVars, At, Goes
<1>1. Typed'
    BY ResetEffect DEF ResetDevice, Inv, Typed, Bits
<1>2. misfreed' = {} /\ FoundHeld' /\ NewHeld'
    BY ResetEffect DEF ResetDevice, Inv, FoundHeld, NewHeld, Held
<1>3. QueuesInOrder'
    BY ResetEffect DEF ResetDevice, Inv, QueuesInOrder
<1>4. StatusAsFar'
    BY ResetEffect DEF ResetDevice, Inv, StatusAsFar
<1>5. HandlersFind'
    BY ResetEffect DEF ResetDevice, Inv, HandlersFind
<1>6. Untouched'
    BY ResetEffect DEF ResetDevice, Inv, Untouched
<1>7. RingsAllocated'
    BY ResetEffect DEF ResetDevice, Inv, RingsAllocated
<1> QED
    BY <1>1, <1>2, <1>3, <1>4, <1>5, <1>6, <1>7 DEF Inv

LEMMA SetFeaturesKeepsInv ==
    ASSUME Inv, SetFeatures
    PROVE  Inv'
<1> USE DEF Nothing, Queues, Setup, BothSetUp, callVars, dodVars, gpuVars,
        memVars, countVars, At, Goes, Fails, Works
<1>1. Typed'
    BY NoInfoEmpty DEF SetFeatures, Inv, Typed, Bits
<1>2. misfreed' = {} /\ FoundHeld' /\ NewHeld'
    BY NoInfoEmpty DEF SetFeatures, Inv, FoundHeld, NewHeld, Held
<1>3. QueuesInOrder'
  <2>1. pc' \in {"query", "failed"}
      BY DEF SetFeatures
  <2>2. q' = 0
      BY DEF SetFeatures
  <2>3. info = NoInfo /\ UNCHANGED info
      BY DEF SetFeatures, Inv, QueuesInOrder
  <2>4. info'[0].vq = Nothing /\ info'[1].vq = Nothing
      BY <2>3, NoInfoEmpty
  <2>5. CASE pc' = "failed"
      BY <2>5 DEF QueuesInOrder
  <2>6. CASE pc' = "query"
      BY <2>2, <2>4, <2>6 DEF QueuesInOrder
  <2> QED
      BY <2>1, <2>5, <2>6
<1>4. StatusAsFar'
    BY NoInfoEmpty DEF SetFeatures, Inv, StatusAsFar
<1>5. HandlersFind'
    BY NoInfoEmpty DEF SetFeatures, Inv, HandlersFind, StatusAsFar, QueuesInOrder
<1>6. Untouched'
    BY NoInfoEmpty DEF SetFeatures, Inv, Untouched
<1>7. RingsAllocated'
  <2>1. "driver ok" \notin status
      BY DEF SetFeatures, Inv, StatusAsFar
  <2>2. CASE UNCHANGED status
      BY <2>1, <2>2 DEF RingsAllocated
  <2>3. CASE status' = status \cup {"features ok"}
    <3>1. "driver ok" \notin status'
        BY <2>1, <2>3
    <3> QED
        BY <3>1 DEF RingsAllocated
  <2> QED
      BY <2>2, <2>3 DEF SetFeatures
<1> QED
    BY <1>1, <1>2, <1>3, <1>4, <1>5, <1>6, <1>7 DEF Inv

LEMMA QueryQueueKeepsInv ==
    ASSUME Inv, QueryQueue
    PROVE  Inv'
<1> USE DEF Nothing, Queues, Setup, BothSetUp, callVars, dodVars, gpuVars,
        regVars, memVars, countVars, At, Goes, Fails, Works, Failure
<1>1. Typed'
    BY QueryEffect DEF QueryQueue, Inv, Typed
<1>2. misfreed' = {} /\ FoundHeld' /\ NewHeld'
    BY QueryEffect DEF QueryQueue, Inv, FoundHeld, NewHeld, Held
<1>3. QueuesInOrder'
    BY QueryEffect DEF QueryQueue, Inv, Typed, QueuesInOrder
<1>4. StatusAsFar'
    BY QueryEffect DEF QueryQueue, Inv, StatusAsFar
<1>5. HandlersFind'
    BY ZenonT(30), QueryEffect DEF QueryQueue, Inv, HandlersFind
<1>6. Untouched'
    BY QueryEffect DEF QueryQueue, Inv, Untouched
<1>7. RingsAllocated'
    BY QueryEffect DEF QueryQueue, Inv, RingsAllocated
<1> QED
    BY <1>1, <1>2, <1>3, <1>4, <1>5, <1>6, <1>7 DEF Inv

LEMMA AllocatePagesKeepsInv ==
    ASSUME Inv, AllocatePages
    PROVE  Inv'
<1> USE DEF Nothing, Queues, Setup, BothSetUp, callVars, dodVars, gpuVars,
        regVars, memVars, countVars, At, Goes, Fails, Works, Allocates,
        Failure
<1>1. Typed'
  <2>1. info' \in [Queues -> QueueInfo]
      BY PagesEffect DEF Inv
  <2>2. /\ fresh' \in Nat \ {Nothing} /\ mem' \subseteq Nat \ {Nothing}
        /\ \A b \in mem' : b < fresh'
    <3>1. CASE mem' = mem \cup {fresh} /\ fresh' = fresh + 1
        BY <3>1 DEF Inv, Typed
    <3>2. CASE UNCHANGED <<mem, fresh>>
        BY <3>2 DEF Inv, Typed
    <3> QED
        BY <3>1, <3>2, PagesEffect DEF Inv
  <2> QED
      BY <2>1, <2>2 DEF AllocatePages, Inv, Typed
<1>2. misfreed' = {} /\ FoundHeld' /\ NewHeld'
  <2>1. pc = "pages" /\ q \in Queues /\ info[q].vq = Nothing /\ fresh \notin mem
      BY FreshIsNew DEF AllocatePages, Inv, Typed, QueuesInOrder
  <2>2. /\ \A k \in Queues : info'[k].vq = info[k].vq
        /\ \A k \in Queues \ {q} : info'[k].pages = info[k].pages
        /\ mem \subseteq mem' /\ UNCHANGED <<misfreed, q, heap>>
      BY PagesEffect DEF AllocatePages, Inv
  <2>3. FoundHeld'
      BY <2>1, <2>2 DEF Inv, FoundHeld, Held
  <2>4. CASE pc' = "heap"
    <3>1. info'[q].pages = fresh /\ fresh \in mem'
        BY <2>4, PagesEffect DEF Inv
    <3>2. heap = Nothing
        BY <2>1 DEF Inv, NewHeld
    <3> QED
        BY <2>1, <2>2, <2>3, <2>4, <3>1, <3>2 DEF Inv, FoundHeld, NewHeld, Held
  <2>5. CASE pc' # "heap"
      BY <2>1, <2>2, <2>3, <2>5, PagesEffect DEF Inv, NewHeld
  <2> QED
      BY <2>4, <2>5
<1>3. QueuesInOrder'
    BY PagesEffect DEF AllocatePages, Inv, Typed, QueuesInOrder
<1>4. StatusAsFar'
    BY PagesEffect DEF AllocatePages, Inv, StatusAsFar
<1>5. HandlersFind'
  <2> SUFFICES ASSUME hardwareInit', ~ abandoned', NEW k \in Queues
               PROVE  /\ ptr'[k] \in mem'
                      /\ \A j \in Queues : info'[j].vq # Nothing => ptr'[k] \notin Held(j)'
                      /\ pc' = "heap" => ptr'[k] \notin {info'[q].pages, heap'}
      BY PagesEffect DEF AllocatePages, Inv, HandlersFind
  <2>1. /\ ptr'[k] = ptr[k] /\ ptr[k] \in mem /\ ptr[k] # fresh /\ ptr[k] # Nothing
        /\ \A j \in Queues : info[j].vq # Nothing => ptr[k] \notin Held(j)
      BY FreshIsNew DEF AllocatePages, Inv, Typed, HandlersFind
  <2>2. /\ \A j \in Queues : info'[j].vq = info[j].vq
        /\ \A j \in Queues \ {q} : info'[j].pages = info[j].pages
        /\ mem \subseteq mem' /\ UNCHANGED heap /\ info[q].vq = Nothing /\ heap = Nothing
        /\ pc' = "heap" => info'[q].pages = fresh
      BY PagesEffect DEF AllocatePages, Inv, QueuesInOrder, NewHeld
  <2> QED
      BY <2>1, <2>2 DEF Held
<1>6. Untouched'
    BY PagesEffect DEF AllocatePages, Inv, Untouched
<1>7. RingsAllocated'
    BY PagesEffect DEF AllocatePages, Inv, RingsAllocated
<1> QED
    BY <1>1, <1>2, <1>3, <1>4, <1>5, <1>6, <1>7 DEF Inv

LEMMA AllocateHeapKeepsInv ==
    ASSUME Inv, AllocateHeap
    PROVE  Inv'
<1> USE DEF Nothing, Queues, Setup, BothSetUp, callVars, dodVars, gpuVars,
        regVars, memVars, countVars, At, Goes, Fails, Works, Allocates,
        Failure
<1>1. Typed'
  <2>1. /\ fresh' \in Nat \ {Nothing} /\ mem' \subseteq Nat \ {Nothing}
        /\ \A b \in mem' : b < fresh'
    <3>1. CASE mem' = mem \cup {fresh} /\ fresh' = fresh + 1
        BY <3>1 DEF Inv, Typed
    <3>2. CASE UNCHANGED <<mem, fresh>>
        BY <3>2 DEF Inv, Typed
    <3> QED
        BY <3>1, <3>2 DEF AllocateHeap
  <2>2. heap' \in Nat
      BY DEF AllocateHeap, Inv, Typed
  <2> QED
      BY <2>1, <2>2 DEF AllocateHeap, Inv, Typed
<1>2. misfreed' = {} /\ FoundHeld' /\ NewHeld'
  <2>1. /\ pc = "heap" /\ q \in Queues /\ info[q].vq = Nothing /\ fresh \notin mem
        /\ UNCHANGED <<misfreed, q, info>> /\ mem \subseteq mem'
      BY FreshIsNew DEF AllocateHeap, Inv, Typed, QueuesInOrder
  <2>2. FoundHeld'
      BY <2>1 DEF Inv, FoundHeld, Held
  <2>3. CASE pc' = "activate" /\ heap' = fresh /\ fresh \in mem'
      BY <2>1, <2>3 DEF Inv, FoundHeld, NewHeld, Held
  <2>4. CASE pc' = "undo queues" /\ UNCHANGED heap
      BY <2>1, <2>2, <2>4 DEF Inv, NewHeld
  <2> QED
      BY <2>1, <2>2, <2>3, <2>4 DEF AllocateHeap, Inv
<1>3. QueuesInOrder'
    BY DEF AllocateHeap, Inv, QueuesInOrder
<1>4. StatusAsFar'
    BY DEF AllocateHeap, Inv, StatusAsFar
<1>5. HandlersFind'
  <2> SUFFICES ASSUME hardwareInit', ~ abandoned', NEW k \in Queues
               PROVE  /\ ptr'[k] \in mem'
                      /\ \A j \in Queues : info'[j].vq # Nothing => ptr'[k] \notin Held(j)'
                      /\ pc' = "activate" => ptr'[k] \notin {info'[q].pages, heap'}
      BY DEF AllocateHeap, Inv, HandlersFind
  <2>1. /\ ptr'[k] = ptr[k] /\ ptr[k] \in mem /\ ptr[k] # fresh /\ ptr[k] # info[q].pages
        /\ \A j \in Queues : info[j].vq # Nothing => ptr[k] \notin Held(j)
      BY FreshIsNew DEF AllocateHeap, Inv, HandlersFind
  <2>2. UNCHANGED info /\ mem \subseteq mem' /\ (pc' = "activate" => heap' = fresh)
      BY DEF AllocateHeap
  <2> QED
      BY <2>1, <2>2 DEF Held
<1>6. Untouched'
    BY DEF AllocateHeap, Inv, Untouched
<1>7. RingsAllocated'
    BY DEF AllocateHeap, Inv, RingsAllocated
<1> QED
    BY <1>1, <1>2, <1>3, <1>4, <1>5, <1>6, <1>7 DEF Inv

LEMMA ActivateQueueKeepsInv ==
    ASSUME Inv, ActivateQueue
    PROVE  Inv'
<1> USE DEF Nothing, Queues, Setup, BothSetUp, callVars, dodVars, gpuVars,
        vdevVars, memVars, countVars, At, Goes, Breaks
<1>1. Typed'
    BY ActivateEffect DEF ActivateQueue, Inv, Typed
<1>2. misfreed' = {} /\ FoundHeld' /\ NewHeld'
    BY ActivateEffect DEF ActivateQueue, Inv, FoundHeld, NewHeld, Held
<1>3. QueuesInOrder'
    BY ActivateEffect DEF ActivateQueue, Inv, QueuesInOrder
<1>4. StatusAsFar'
    BY ActivateEffect DEF ActivateQueue, Inv, StatusAsFar
<1>5. HandlersFind'
    BY ActivateEffect DEF ActivateQueue, Inv, HandlersFind, Held, StatusAsFar, QueuesInOrder
<1>6. Untouched'
    BY ActivateEffect DEF ActivateQueue, Inv, Untouched
<1>7. RingsAllocated'
    BY ActivateEffect DEF ActivateQueue, Inv, RingsAllocated
<1> QED
    BY <1>1, <1>2, <1>3, <1>4, <1>5, <1>6, <1>7 DEF Inv

LEMMA EnableQueueKeepsInv ==
    ASSUME Inv, EnableQueue
    PROVE  Inv'
<1> USE DEF Nothing, Queues, Setup, BothSetUp, callVars, dodVars, gpuVars,
        memVars, countVars, At, Goes, Works, Fails
<1>1. /\ pc = "notify" /\ heap' = Nothing
      /\ q \in Queues /\ heap \in Nat /\ mem \subseteq Nat \ {Nothing}
      /\ UNCHANGED <<status, ptr, fresh, hardwareInit, hwDevice, abandoned, worker>>
      /\ UNCHANGED <<ops, dod>>
    BY DEF EnableQueue, Frees, Inv, Typed
<1>2. /\ info[q].vq = Nothing /\ (q = 0 => info[1].vq = Nothing)
      /\ heap \in mem /\ info[q].pages \in mem
    BY <1>1 DEF Inv, NewHeld, QueuesInOrder
<1>3. "driver ok" \notin status /\ {"acknowledge", "driver", "features ok"} \subseteq status
    BY <1>1 DEF Inv, StatusAsFar
<1>4. pc' \in {"undo queues", "query", "queues found"}
    BY DEF EnableQueue, Failure
<1>5. Untouched' /\ StatusAsFar' /\ RingsAllocated'
  <2>1. Untouched'
      BY <1>1, <1>4 DEF Inv, Untouched
  <2>2. StatusAsFar'
      BY <1>1, <1>3, <1>4 DEF StatusAsFar
  <2>3. RingsAllocated'
      BY <1>1, <1>3 DEF RingsAllocated
  <2> QED
      BY <2>1, <2>2, <2>3
<1>6. CASE pc' = "undo queues"
  <2>1. /\ mem' = mem \ {info[q].pages, heap}
        /\ misfreed' = misfreed \cup ({info[q].pages, heap} \ mem)
        /\ UNCHANGED <<reg, info, q>>
      BY <1>6 DEF EnableQueue, Frees
  <2>2. Typed'
      BY <1>1, <1>2, <2>1 DEF Inv, Typed
  <2>3. misfreed' = {}
      BY <1>1, <1>2, <2>1 DEF Inv
  <2>4. FoundHeld'
      BY <1>1, <1>2, <2>1 DEF Inv, FoundHeld, NewHeld, Held
  <2>5. NewHeld' /\ QueuesInOrder'
      BY <1>1, <1>2, <1>6 DEF NewHeld, QueuesInOrder
  <2>6. HandlersFind'
    <3> SUFFICES ASSUME hardwareInit', ~ abandoned', NEW k \in Queues
                 PROVE  /\ ptr'[k] \in mem'
                        /\ \A j \in Queues :
                              info'[j].vq # Nothing => ptr'[k] \notin Held(j)'
        BY <1>6 DEF HandlersFind
    <3>1. /\ ptr[k] \in mem /\ ptr[k] # heap /\ ptr[k] # info[q].pages
          /\ \A j \in Queues : info[j].vq # Nothing => ptr[k] \notin Held(j)
        BY <1>1 DEF Inv, HandlersFind
    <3>2. \A j \in Queues : Held(j)' = Held(j)
        BY <2>1 DEF Held
    <3> QED
        BY <1>1, <2>1, <3>1, <3>2
  <2> QED
      BY <1>5, <2>2, <2>3, <2>4, <2>5, <2>6 DEF Inv
<1>7. CASE pc' # "undo queues"
  <2>1. /\ \A k \in Queues : info'[k].pages = info[k].pages /\ reg'[k].ring = reg[k].ring
        /\ \A k \in Queues \ {q} : info'[k] = info[k] /\ reg'[k] = reg[k]
        /\ info'[q].vq = heap /\ reg'[q].on
        /\ info' \in [Queues -> QueueInfo] /\ reg' \in [Queues -> QueueReg]
      BY <1>7, EnableEffect DEF Inv
  <2>2. /\ UNCHANGED <<mem, misfreed>> /\ q' = 1 - q
        /\ pc' = IF q = 0 THEN "query" ELSE "queues found"
      BY <1>7 DEF EnableQueue, Failure
  <2>3. Typed'
    <3>1. \A i \in {0, 1} : 1 - i \in {0, 1}
        OBVIOUS
    <3>2. q' \in Queues
        BY <1>1, <2>2, <3>1
    <3> QED
        BY <1>1, <2>1, <2>2, <3>2 DEF Inv, Typed
  <2>4. misfreed' = {} /\ NewHeld'
      BY <1>1, <1>2, <2>2 DEF Inv, NewHeld
  <2>5. FoundHeld'
    <3>1. \A k \in Queues : Held(k)' = IF k = q THEN {heap, info[q].pages} ELSE Held(k)
        BY <2>1 DEF Held
    <3>2. \A k \in Queues \ {q} :
             info[k].vq # Nothing => heap \notin Held(k) /\ info[q].pages \notin Held(k)
        BY <1>1 DEF Inv, NewHeld
    <3>3. \A k \in Queues :
             info'[k].vq # Nothing => info'[k].vq \in mem' /\ info'[k].pages \in mem'
      <4> TAKE k \in Queues
      <4>1. CASE k = q
          BY <1>2, <2>1, <2>2, <4>1
      <4>2. CASE k # q
        <5>1. info'[k].vq = info[k].vq /\ info'[k].pages = info[k].pages
            BY <2>1, <4>2
        <5> QED
            BY <2>2, <5>1 DEF Inv, FoundHeld
      <4> QED
          BY <4>1, <4>2
    <3>4. ASSUME NEW j \in Queues, NEW k \in Queues, j # k,
                 info'[j].vq # Nothing, info'[k].vq # Nothing
          PROVE  Held(j)' \cap Held(k)' = {}
      <4>1. CASE j = q
        <5>1. Held(j)' = {heap, info[q].pages} /\ Held(k)' = Held(k) /\ info[k].vq # Nothing
            BY <2>1, <3>1, <3>4, <4>1
        <5>2. heap \notin Held(k) /\ info[q].pages \notin Held(k)
            BY <3>2, <3>4, <4>1, <5>1
        <5> QED
            BY <5>1, <5>2
      <4>2. CASE k = q
        <5>1. Held(k)' = {heap, info[q].pages} /\ Held(j)' = Held(j) /\ info[j].vq # Nothing
            BY <2>1, <3>1, <3>4, <4>2
        <5>2. heap \notin Held(j) /\ info[q].pages \notin Held(j)
            BY <3>2, <3>4, <4>2, <5>1
        <5> QED
            BY <5>1, <5>2
      <4>3. CASE j # q /\ k # q
          BY <1>1, <3>4, <4>3
      <4> QED
          BY <4>1, <4>2, <4>3
    <3> QED
        BY <3>3, <3>4 DEF FoundHeld
  <2>6. QueuesInOrder'
    <3>1. CASE q = 0
        BY <1>1, <1>2, <2>1, <2>2, <3>1 DEF Inv, QueuesInOrder
    <3>2. CASE q = 1
      <4>1. info[0].vq # Nothing /\ reg[0].on /\ reg[0].ring = info[0].pages
          BY <1>1, <3>2 DEF Inv, QueuesInOrder
      <4>2. reg[1].ring = info[1].pages
          BY <1>1, <3>2 DEF Inv, QueuesInOrder
      <4>3. \A k \in Queues :
               info'[k].vq # Nothing /\ reg'[k].on /\ reg'[k].ring = info'[k].pages
          BY <1>1, <1>2, <2>1, <3>2, <4>1, <4>2
      <4>4. q # 0
          BY <3>2
      <4>5. pc' = "queues found"
          BY <2>2, <4>4
      <4> QED
          BY <4>3, <4>5 DEF QueuesInOrder
    <3> QED
        BY <1>1, <1>2, <3>1, <3>2
  <2>7. HandlersFind'
    <3> SUFFICES ASSUME hardwareInit', ~ abandoned', NEW k \in Queues
                 PROVE  /\ ptr'[k] \in mem'
                        /\ \A j \in Queues :
                              info'[j].vq # Nothing => ptr'[k] \notin Held(j)'
        BY <2>2 DEF HandlersFind
    <3>1. /\ ptr[k] \in mem /\ ptr[k] # heap /\ ptr[k] # info[q].pages
          /\ \A j \in Queues : info[j].vq # Nothing => ptr[k] \notin Held(j)
        BY <1>1 DEF Inv, HandlersFind
    <3>2. ASSUME NEW j \in Queues, info'[j].vq # Nothing
          PROVE  ptr[k] \notin Held(j)'
      <4>1. CASE j = q
        <5>1. info'[j].vq = heap /\ info'[j].pages = info[q].pages
            BY <2>1, <4>1
        <5> QED
            BY <3>1, <5>1 DEF Held
      <4>2. CASE j # q
        <5>1. info'[j].vq = info[j].vq /\ info'[j].pages = info[j].pages
            BY <2>1, <4>2
        <5> QED
            BY <3>1, <3>2, <5>1 DEF Held
      <4> QED
          BY <4>1, <4>2
    <3> QED
        BY <1>1, <2>2, <3>1, <3>2
  <2> QED
      BY <1>5, <2>3, <2>4, <2>5, <2>6, <2>7 DEF Inv
<1> QED
    BY <1>6, <1>7

LEMMA InitQueuesKeepsInv ==
    ASSUME Inv, InitQueues
    PROVE  Inv'
<1> USE DEF Nothing, Queues, Setup, BothSetUp, callVars, dodVars, vdevVars,
        regVars, memVars, countVars, At, Goes
<1>1. Typed'
    BY DEF InitQueues, Inv, Typed, QueueInfo
<1>2. misfreed' = {} /\ FoundHeld' /\ NewHeld'
    BY DEF InitQueues, Inv, FoundHeld, NewHeld, Held
<1>3. QueuesInOrder'
    BY DEF InitQueues, Inv, QueuesInOrder
<1>4. StatusAsFar'
    BY DEF InitQueues, Inv, StatusAsFar
<1>5. HandlersFind'
    BY DEF InitQueues, Inv, HandlersFind, FoundHeld, StatusAsFar, QueuesInOrder
<1>6. Untouched'
    BY DEF InitQueues, Inv, Untouched
<1>7. RingsAllocated'
    BY DEF InitQueues, Inv, RingsAllocated
<1> QED
    BY <1>1, <1>2, <1>3, <1>4, <1>5, <1>6, <1>7 DEF Inv

LEMMA InitBuffersKeepsInv ==
    ASSUME Inv, InitBuffers
    PROVE  Inv'
<1> USE DEF Nothing, Queues, Setup, BothSetUp, callVars, dodVars, vdevVars,
        regVars, memVars, countVars, At, Goes, Fails, Works
<1>1. Typed'
    BY DEF InitBuffers, Inv, Typed
<1>2. misfreed' = {} /\ FoundHeld' /\ NewHeld'
    BY DEF InitBuffers, Inv, FoundHeld, NewHeld, Held
<1>3. QueuesInOrder'
    BY DEF InitBuffers, Inv, QueuesInOrder
<1>4. StatusAsFar'
    BY DEF InitBuffers, Inv, StatusAsFar
<1>5. HandlersFind'
    BY DEF InitBuffers, Inv, HandlersFind
<1>6. Untouched'
    BY DEF InitBuffers, Inv, Untouched
<1>7. RingsAllocated'
    BY DEF InitBuffers, Inv, RingsAllocated
<1> QED
    BY <1>1, <1>2, <1>3, <1>4, <1>5, <1>6, <1>7 DEF Inv

LEMMA DeviceReadyKeepsInv ==
    ASSUME Inv, DeviceReady
    PROVE  Inv'
<1> USE DEF Nothing, Queues, Setup, BothSetUp, callVars, gpuVars, vdevVars,
        memVars, countVars, At, Goes, Breaks
<1>1. Typed'
    BY DEF DeviceReady, Inv, Typed, AfterInit, Bits
<1>2. misfreed' = {} /\ FoundHeld' /\ NewHeld'
    BY DEF DeviceReady, Inv, FoundHeld, NewHeld, Held, AfterInit
<1>3. QueuesInOrder'
    BY DEF DeviceReady, Inv, QueuesInOrder, AfterInit
<1>4. StatusAsFar'
    BY DEF DeviceReady, Inv, StatusAsFar, AfterInit
<1>5. HandlersFind'
    BY DEF DeviceReady, Inv, HandlersFind, FoundHeld, StatusAsFar, QueuesInOrder, AfterInit
<1>6. Untouched'
    BY DEF DeviceReady, Inv, Untouched, AfterInit
<1>7. RingsAllocated'
    BY DEF DeviceReady, Inv, RingsAllocated, StatusAsFar, QueuesInOrder, FoundHeld,
       NewHeld, Held, AfterInit
<1> QED
    BY <1>1, <1>2, <1>3, <1>4, <1>5, <1>6, <1>7 DEF Inv

LEMMA DeviceFailedKeepsInv ==
    ASSUME Inv, DeviceFailed
    PROVE  Inv'
<1> USE DEF Nothing, Queues, Setup, BothSetUp, callVars, dodVars, gpuVars,
        vdevVars, memVars, countVars, At, Goes, Breaks
<1>1. Typed'
    BY DEF DeviceFailed, Inv, Typed, AfterInit, Bits
<1>2. misfreed' = {} /\ FoundHeld' /\ NewHeld'
    BY DEF DeviceFailed, Inv, FoundHeld, NewHeld, Held, AfterInit
<1>3. QueuesInOrder'
    BY DEF DeviceFailed, Inv, QueuesInOrder, AfterInit
<1>4. StatusAsFar'
    BY DEF DeviceFailed, Inv, StatusAsFar, AfterInit
<1>5. HandlersFind'
    BY DEF DeviceFailed, Inv, HandlersFind, AfterInit
<1>6. Untouched'
    BY DEF DeviceFailed, Inv, Untouched, AfterInit
<1>7. RingsAllocated'
  <2>1. status' = status \/ status' = status \cup {"failed"}
      BY DEF DeviceFailed
  <2>2. status \subseteq status' /\ ("driver ok" \in status' => "driver ok" \in status)
      BY <2>1
  <2>3. pc' \notin Setup /\ UNCHANGED <<reg, mem>>
      BY DEF DeviceFailed, AfterInit
  <2> QED
      BY <2>2, <2>3 DEF Inv, RingsAllocated
<1> QED
    BY <1>1, <1>2, <1>3, <1>4, <1>5, <1>6, <1>7 DEF Inv

LEMMA CloseKeepsInv ==
    ASSUME Inv, Close
    PROVE  Inv'
<1> USE DEF Nothing, Queues, Setup, BothSetUp, callVars, gpuVars, vdevVars,
        regVars, memVars, countVars, At, Goes, Breaks
<1>1. Typed'
    BY ResetEffect DEF Close, Inv, Typed, Bits
<1>2. misfreed' = {} /\ FoundHeld' /\ NewHeld'
    BY ResetEffect DEF Close, Inv, FoundHeld, NewHeld, Held
<1>3. QueuesInOrder'
    BY ResetEffect DEF Close, Inv, QueuesInOrder
<1>4. StatusAsFar'
    BY ResetEffect DEF Close, Inv, StatusAsFar
<1>5. HandlersFind'
    BY ResetEffect DEF Close, Inv, HandlersFind
<1>6. Untouched'
    BY ResetEffect DEF Close, Inv, Untouched
<1>7. RingsAllocated'
    BY ResetEffect DEF Close, Inv, RingsAllocated
<1> QED
    BY <1>1, <1>2, <1>3, <1>4, <1>5, <1>6, <1>7 DEF Inv

LEMMA DeleteQueueKeepsInv ==
    ASSUME Inv, DeleteQueue
    PROVE  Inv'
<1> USE DEF Nothing, Queues, Setup, BothSetUp, callVars, dodVars, gpuVars,
        regVars, countVars, Deleting
<1>1. PICK k \in Queues :
         /\ info[k].vq # Nothing
         /\ mem' = mem \ {info[k].vq, info[k].pages}
         /\ misfreed' = misfreed \cup ({info[k].vq, info[k].pages} \ mem)
         /\ info' = [info EXCEPT ![k].vq = Nothing]
    BY DEF DeleteQueue, Frees
<1>2. /\ UNCHANGED <<pc, dod, hwDevice, hardwareInit, ptr, worker, ops, q, heap, reg>>
      /\ UNCHANGED <<status, fresh, abandoned>>
      /\ pc \in {"delete queues", "undo queues"}
    BY DEF DeleteQueue, Frees
<1>3. /\ info' \in [Queues -> QueueInfo]
      /\ info'[k].vq = Nothing /\ info'[k].pages = info[k].pages
      /\ \A j \in Queues \ {k} : info'[j] = info[j]
    BY <1>1, DeleteEffect DEF Inv
<1>4. Typed'
    BY <1>1, <1>2, <1>3 DEF Inv, Typed
<1>5. misfreed' = {}
    BY <1>1 DEF Inv, FoundHeld
<1>6. FoundHeld'
    BY <1>1, <1>3 DEF Inv, FoundHeld, Held
<1>7. NewHeld' /\ QueuesInOrder' /\ StatusAsFar' /\ Untouched'
    BY <1>2 DEF Inv, NewHeld, QueuesInOrder, StatusAsFar, Untouched
<1>8. HandlersFind'
    BY <1>1, <1>2, <1>3 DEF Inv, StatusAsFar, HandlersFind, Held
<1>9. RingsAllocated'
    BY <1>2 DEF Inv, StatusAsFar, RingsAllocated
<1> QED
    BY <1>4, <1>5, <1>6, <1>7, <1>8, <1>9 DEF Inv

LEMMA QueuesDeletedKeepsInv ==
    ASSUME Inv, QueuesDeleted
    PROVE  Inv'
<1> USE DEF Nothing, Queues, Setup, BothSetUp, callVars, dodVars, vdevVars,
        regVars, memVars, countVars, Goes, Deleting
<1>1. Typed'
    BY DEF QueuesDeleted, Inv, Typed, QueueInfo
<1>2. misfreed' = {} /\ FoundHeld' /\ NewHeld'
    BY DEF QueuesDeleted, Inv, FoundHeld, NewHeld, Held
<1>3. QueuesInOrder'
    BY DEF QueuesDeleted, Inv, QueuesInOrder
<1>4. StatusAsFar'
    BY DEF QueuesDeleted, Inv, StatusAsFar
<1>5. HandlersFind'
    BY DEF QueuesDeleted, Inv, HandlersFind, StatusAsFar, QueuesInOrder
<1>6. Untouched'
    BY DEF QueuesDeleted, Inv, Untouched
<1>7. RingsAllocated'
    BY DEF QueuesDeleted, Inv, RingsAllocated
<1> QED
    BY <1>1, <1>2, <1>3, <1>4, <1>5, <1>6, <1>7 DEF Inv

LEMMA CloseHardwareKeepsInv ==
    ASSUME Inv, CloseHardware
    PROVE  Inv'
<1> USE DEF Nothing, Queues, Setup, BothSetUp, callVars, dodVars, vdevVars,
        regVars, memVars, countVars, At, Goes, Breaks
<1>1. Typed'
    BY DEF CloseHardware, Inv, Typed
<1>2. misfreed' = {} /\ FoundHeld' /\ NewHeld'
    BY DEF CloseHardware, Inv, FoundHeld, NewHeld, Held
<1>3. QueuesInOrder'
    BY DEF CloseHardware, Inv, QueuesInOrder
<1>4. StatusAsFar'
    BY DEF CloseHardware, Inv, StatusAsFar
<1>5. HandlersFind'
    BY DEF CloseHardware, Inv, HandlersFind
<1>6. Untouched'
    BY DEF CloseHardware, Inv, Untouched, StatusAsFar
<1>7. RingsAllocated'
    BY DEF CloseHardware, Inv, RingsAllocated
<1> QED
    BY <1>1, <1>2, <1>3, <1>4, <1>5, <1>6, <1>7 DEF Inv

LEMMA RemovedKeepsInv ==
    ASSUME Inv, Removed
    PROVE  Inv'
<1> USE DEF Nothing, Queues, Setup, BothSetUp, regVars, memVars, countVars, At,
        Goes
<1>1. Typed'
    BY NoInfoEmpty DEF Removed, Inv, Typed
<1>2. misfreed' = {} /\ FoundHeld' /\ NewHeld'
    BY NoInfoEmpty DEF Removed, Inv, FoundHeld, NewHeld, Held
<1>3. QueuesInOrder'
    BY NoInfoEmpty DEF Removed, Inv, QueuesInOrder
<1>4. StatusAsFar'
    BY NoInfoEmpty DEF Removed, Inv, StatusAsFar
<1>5. HandlersFind'
    BY NoInfoEmpty DEF Removed, Inv, HandlersFind
<1>6. Untouched'
    BY NoInfoEmpty DEF Removed, Inv, Untouched
<1>7. RingsAllocated'
    BY NoInfoEmpty DEF Removed, Inv, RingsAllocated
<1> QED
    BY <1>1, <1>2, <1>3, <1>4, <1>5, <1>6, <1>7 DEF Inv

-----------------------------------------------------------------------------
LEMMA InitInv == Init => Inv
<1> SUFFICES ASSUME Init PROVE Inv
    OBVIOUS
<1> USE DEF Init, Nothing, Queues, Setup, BothSetUp
<1>1. Typed
  <2>1. NoReg \in [Queues -> QueueReg]
      BY DEF NoReg, QueueReg
  <2>2. [k \in Queues |-> Nothing] \in [Queues -> Nat]
      OBVIOUS
  <2>3. hardwareInit \in BOOLEAN /\ hwDevice \in BOOLEAN /\ abandoned \in BOOLEAN
        /\ worker \in BOOLEAN /\ ops \in BOOLEAN
      OBVIOUS
  <2>4. q \in Queues /\ heap \in Nat /\ fresh \in Nat \ {Nothing}
      OBVIOUS
  <2>5. status \subseteq Bits /\ mem \subseteq Nat \ {Nothing} /\ \A b \in mem : b < fresh
      OBVIOUS
  <2> QED
      BY NoInfoEmpty, <2>1, <2>2, <2>3, <2>4, <2>5 DEF Typed
<1>2. FoundHeld /\ NewHeld /\ QueuesInOrder
    BY NoInfoEmpty DEF FoundHeld, NewHeld, QueuesInOrder
<1>3. StatusAsFar /\ HandlersFind /\ Untouched /\ RingsAllocated
    BY DEF StatusAsFar, HandlersFind, Untouched, RingsAllocated
<1> QED
    BY <1>1, <1>2, <1>3 DEF Inv

LEMMA StutterKeepsInv ==
    ASSUME Inv, UNCHANGED vars
    PROVE  Inv'
<1> USE DEF vars, callVars, dodVars, gpuVars, vdevVars, regVars, memVars, countVars
<1>1. Typed' /\ misfreed' = {}
    BY DEF Inv, Typed
<1>2. FoundHeld' /\ NewHeld'
    BY DEF Inv, FoundHeld, NewHeld, Held
<1>3. QueuesInOrder' /\ StatusAsFar' /\ HandlersFind'
    BY DEF Inv, QueuesInOrder, StatusAsFar, HandlersFind, Held
<1>4. Untouched' /\ RingsAllocated'
    BY DEF Inv, Untouched, RingsAllocated
<1> QED
    BY <1>1, <1>2, <1>3, <1>4 DEF Inv

LEMMA NextKeepsInv ==
    ASSUME Inv, [Next]_vars
    PROVE  Inv'
<1>1. CASE UNCHANGED vars
    BY <1>1, StutterKeepsInv
<1>2. CASE Next
    BY <1>2, QuietKeepsInv, StartDeviceKeepsInv, PowerInactiveKeepsInv,
           InitializeTransportKeepsInv, ResetDeviceKeepsInv,
           SetFeaturesKeepsInv, QueryQueueKeepsInv, AllocatePagesKeepsInv,
           AllocateHeapKeepsInv, ActivateQueueKeepsInv, EnableQueueKeepsInv,
           InitQueuesKeepsInv, InitBuffersKeepsInv, DeviceReadyKeepsInv,
           DeviceFailedKeepsInv, CloseKeepsInv, DeleteQueueKeepsInv,
           QueuesDeletedKeepsInv, CloseHardwareKeepsInv, RemovedKeepsInv
       DEF Next, Proceed
<1> QED
    BY <1>1, <1>2

LEMMA InvHolds == Spec => []Inv
<1>1. Inv /\ [Next]_vars => Inv'
    BY NextKeepsInv
<1> QED
    BY InitInv, <1>1, PTL DEF Spec

(* Whatever failed before, a device that was told to run (DRIVER_OK in       *)
(* virtio_device_ready) finds both rings in memory that is allocated.        *)
THEOREM RingsCorrect == Spec => []RingsAllocated
<1>1. Inv => RingsAllocated
    BY DEF Inv
<1> QED
    BY InvHolds, <1>1, PTL

(* While HardwareInit lets interrupts in, the pointers of VioGpuQueue name   *)
(* queues that are allocated, and a device that was removed is silent.       *)
THEOREM HandlersCorrect == Spec => []HandlersFindQueues
<1>1. Inv => HandlersFindQueues
    BY DEF Inv, HandlersFind, Untouched, HandlersFindQueues
<1> QED
    BY InvHolds, <1>1, PTL

-----------------------------------------------------------------------------
(* Memory is not lost.                                                     *)

(* A call has returned where the next may be made, and nothing is held for   *)
(* a device that is closed or not there.                                   *)
Emptied ==
    /\ pc = "idle" /\ broken = "no" => call = "none"
    /\ pc \in {"hw close", "removed"} \/ ~ hwDevice =>
          \A k \in Queues : info[k].vq = Nothing
Filling == {"heap", "activate", "notify"}

(* Nothing is lost that was reachable where the queues' records name the     *)
(* same blocks and none is being set up, or the same one.                   *)
LEMMA SameReachable ==
    ASSUME mem' = mem,
           \A k \in Queues : info'[k].vq = info[k].vq /\ info'[k].pages = info[k].pages,
           pc' \in Filling <=> pc \in Filling,
           pc \in Filling => UNCHANGED <<q, heap>>,
           q \in Queues
    PROVE  Lost' \subseteq Lost
<1>1. ASSUME NEW b, b \in Reachable
      PROVE  b \in Reachable'
    BY <1>1 DEF Reachable, Filling
<1> QED
    BY <1>1 DEF Lost

InUse(b) ==
    \/ \E k \in Queues : info[k].vq # Nothing /\ b \in {info[k].vq, info[k].pages}
    \/ pc \in Filling /\ b \in {info[q].pages, heap}

LEMMA ReachableInUse ==
    \A b : (b \in Reachable <=> InUse(b)) /\ (b \in Reachable' <=> InUse(b)')
<1>1. \A b : b \in Reachable <=> InUse(b)
    BY DEF Reachable, InUse, Filling
<1>2. \A b : b \in Reachable' <=> InUse(b)'
    BY DEF Reachable, InUse, Filling
<1> QED
    BY <1>1, <1>2

LEMMA AllocateKeepsReachable ==
    ASSUME Inv, AllocatePages \/ AllocateHeap
    PROVE  Lost' \subseteq Lost \/ (pc = "heap" /\ pc' = "undo queues")
<1> USE DEF Inv, Queues, Nothing
<1>1. CASE AllocatePages
  <2>1. /\ pc = "pages" /\ info[q].vq = Nothing /\ q' = q /\ q \in Queues
        /\ \A k \in Queues : info'[k].vq = info[k].vq
        /\ \A k \in Queues \ {q} : info'[k].pages = info[k].pages
      BY <1>1, PagesEffect DEF AllocatePages, At, Typed, QueuesInOrder, Setup
  <2>2. ASSUME NEW b, b \in Reachable
        PROVE  b \in Reachable'
      BY <2>1, <2>2, ReachableInUse DEF InUse, Filling
  <2>3. CASE pc' = "heap"
    <3>1. fresh \in Reachable' /\ mem' = mem \cup {fresh}
        BY <1>1, <2>1, <2>3, PagesEffect, ReachableInUse DEF InUse, Filling
    <3> QED
        BY <2>2, <3>1 DEF Lost
  <2>4. CASE pc' # "heap"
    <3>1. mem' = mem
        BY <1>1, <2>4, PagesEffect DEF memVars
    <3> QED
        BY <2>2, <3>1 DEF Lost
  <2> QED
      BY <2>3, <2>4
<1>2. CASE AllocateHeap
  <2>1. /\ pc = "heap" /\ q \in Queues /\ heap = Nothing /\ Nothing \notin mem
        /\ UNCHANGED <<info, q>>
      BY <1>2 DEF AllocateHeap, At, Typed, NewHeld
  <2>2. CASE pc' = "activate"
    <3>1. mem' = mem \cup {fresh} /\ heap' = fresh
        BY <1>2, <2>2 DEF AllocateHeap, Allocates, Goes, Failure
    <3>2. ASSUME NEW b \in mem, b \in Reachable
          PROVE  b \in Reachable'
        BY <2>1, <2>2, <3>2, ReachableInUse DEF InUse, Filling
    <3>3. fresh \in Reachable'
        BY <2>2, <3>1, ReachableInUse DEF InUse, Filling
    <3> QED
        BY <3>1, <3>2, <3>3 DEF Lost
  <2>3. CASE pc' # "activate"
    <3>1. pc' = "undo queues"
        BY <1>2, <2>3 DEF AllocateHeap, Goes, Failure
    <3> QED
        BY <2>1, <3>1
  <2> QED
      BY <2>2, <2>3
<1> QED
    BY <1>1, <1>2

LEMMA EnableKeepsReachable ==
    ASSUME Inv, EnableQueue
    PROVE  Lost' \subseteq Lost
<1> USE DEF Queues, Nothing
<1>1. /\ pc = "notify" /\ q \in Queues
      /\ heap \in mem /\ Nothing \notin mem /\ info[q].vq = Nothing
    BY DEF EnableQueue, At, Inv, Typed, NewHeld, QueuesInOrder, Setup
<1>2. CASE pc' = "undo queues"
  <2>1. info' = info /\ mem' = mem \ {info[q].pages, heap}
      BY <1>2 DEF EnableQueue, Frees, Goes
  <2>2. ASSUME NEW b \in mem', b \in Reachable
        PROVE  b \in Reachable'
      BY <1>1, <1>2, <2>1, <2>2, ReachableInUse DEF InUse, Filling
  <2> QED
      BY <2>1, <2>2 DEF Lost
<1>3. CASE pc' # "undo queues"
  <2>1. /\ mem' = mem /\ info'[q].vq = heap
        /\ \A k \in Queues : info'[k].pages = info[k].pages
        /\ \A k \in Queues \ {q} : info'[k] = info[k]
      BY <1>3, EnableEffect DEF Inv, EnableQueue, Failure, Goes, memVars
  <2>2. ASSUME NEW k \in Queues, info[k].vq # Nothing
        PROVE  info'[k].vq = info[k].vq /\ info'[k].pages = info[k].pages
      BY <1>1, <2>1, <2>2
  <2>3. ASSUME NEW b, b \in Reachable
        PROVE  b \in Reachable'
    <3>1. CASE b \in {info[q].pages, heap}
        BY <1>1, <2>1, <3>1, ReachableInUse DEF InUse, Filling
    <3>2. CASE \E k \in Queues : info[k].vq # Nothing /\ b \in {info[k].vq, info[k].pages}
        BY <2>2, <3>2, ReachableInUse DEF InUse, Filling
    <3> QED
        BY <2>3, <3>1, <3>2, ReachableInUse DEF InUse, Filling
  <2> QED
      BY <2>1, <2>3 DEF Lost
<1> QED
    BY <1>2, <1>3

LEMMA DeleteKeepsReachable ==
    ASSUME Inv, DeleteQueue
    PROVE  Lost' \subseteq Lost
<1>1. pc' = pc /\ pc \notin Filling
    BY DEF DeleteQueue, Deleting, Filling
<1>2. PICK k \in Queues : /\ mem' = mem \ {info[k].vq, info[k].pages}
                          /\ info' = [info EXCEPT ![k].vq = Nothing]
    BY DEF DeleteQueue, Frees
<1>3. \A j \in Queues \ {k} : info'[j] = info[j]
    BY <1>2, DeleteEffect DEF Inv
<1>4. ASSUME NEW b \in mem', b \in Reachable
      PROVE  b \in Reachable'
  <2>1. PICK j \in Queues : info[j].vq # Nothing /\ b \in {info[j].vq, info[j].pages}
      BY <1>1, <1>4, ReachableInUse DEF InUse, Filling
  <2>2. j # k
      BY <1>2, <1>4, <2>1
  <2> QED
      BY <1>3, <2>1, <2>2, ReachableInUse DEF InUse, Filling
<1> QED
    BY <1>2, <1>4 DEF Lost
(* These steps name no block, and none is being set up before or after.     *)
LEMMA QuietKeepsReachable ==
    ASSUME Inv,
           \/ AddDevice \/ StopDevice \/ PowerDown \/ PowerUp \/ PowerInactive
           \/ RemoveDevice \/ UseDevice
           \/ CheckResources \/ ResetDevice \/ InitQueues \/ InitBuffers \/ DeviceReady
           \/ DeviceFailed \/ CreateThread \/ GetModeList \/ Started \/ StartFailed
           \/ Close \/ QueuesDeleted \/ PowerSet \/ CloseHardware
    PROVE  Lost' \subseteq Lost
<1> USE DEF At, Goes, Breaks, Fails, Works, Failure, callVars, dodVars, gpuVars,
   vdevVars, regVars,
        memVars, countVars, DriverActive, AfterInit, Deleting
<1>1. /\ mem' = mem /\ info' = info
      /\ pc' \notin Filling /\ pc \notin Filling
  <2>1. CASE AddDevice
      BY <2>1 DEF AddDevice, Filling
  <2>2. CASE StopDevice
      BY <2>2 DEF StopDevice, Filling
  <2>3. CASE PowerDown
      BY <2>3 DEF PowerDown, Filling
  <2>4. CASE PowerUp
      BY <2>4 DEF PowerUp, Filling
  <2>5. CASE PowerInactive
      BY <2>5 DEF PowerInactive, Filling
  <2>6. CASE RemoveDevice
      BY <2>6 DEF RemoveDevice, Filling
  <2>7. CASE UseDevice
      BY <2>7 DEF UseDevice, Filling
  <2>8. CASE CheckResources
      BY <2>8 DEF CheckResources, Filling
  <2>9. CASE ResetDevice
      BY <2>9 DEF ResetDevice, Filling
  <2>10. CASE InitQueues
      BY <2>10 DEF InitQueues, Filling
  <2>11. CASE InitBuffers
      BY <2>11 DEF InitBuffers, Filling
  <2>12. CASE DeviceReady
      BY <2>12 DEF DeviceReady, Filling
  <2>13. CASE DeviceFailed
      BY <2>13 DEF DeviceFailed, Filling
  <2>14. CASE CreateThread
      BY <2>14 DEF CreateThread, Filling
  <2>15. CASE GetModeList
      BY <2>15 DEF GetModeList, Filling
  <2>16. CASE Started
      BY <2>16 DEF Started, Filling
  <2>17. CASE StartFailed
      BY <2>17 DEF StartFailed, Filling
  <2>18. CASE Close
      BY <2>18 DEF Close, Filling
  <2>19. CASE QueuesDeleted
      BY <2>19 DEF QueuesDeleted, Filling
  <2>20. CASE PowerSet
      BY <2>20 DEF PowerSet, Filling
  <2>21. CASE CloseHardware
      BY <2>21 DEF CloseHardware, Filling
  <2> QED
      BY <2>1, <2>2, <2>3, <2>4, <2>5, <2>6, <2>7, <2>8, <2>9, <2>10, <2>11, <2>12,
         <2>13, <2>14, <2>15, <2>16, <2>17, <2>18, <2>19, <2>20, <2>21
<1>2. q \in Queues
    BY DEF Inv, Typed
<1> QED
    BY <1>1, <1>2, SameReachable

LEMMA NextKeepsReachable ==
    ASSUME Inv, Emptied, Next
    PROVE  \/ Lost' \subseteq Lost
           \/ pc = "transport"
           \/ pc = "heap" /\ pc' = "undo queues"
           \/ call = "none" /\ call' = "start"
<1> USE DEF At, Goes, Breaks, Filling
<1>1. q \in Queues
    BY DEF Inv, Typed
<1>2. CASE StartDevice
    BY <1>2 DEF StartDevice, Emptied
<1>3. CASE InitializeTransport
    BY <1>3 DEF InitializeTransport
<1>4. CASE SetFeatures
  <2>1. mem' = mem /\ info' = info /\ pc \notin Filling /\ pc' \notin Filling
      BY <1>4 DEF SetFeatures, memVars
  <2> QED
      BY <1>1, <2>1, SameReachable
<1>5. CASE QueryQueue
  <2>1. /\ mem' = mem /\ pc \notin Filling /\ pc' \notin Filling
        /\ \A k \in Queues : info'[k].vq = info[k].vq /\ info'[k].pages = info[k].pages
      BY <1>5, QueryEffect DEF Inv, QueryQueue, memVars, Failure
  <2> QED
      BY <1>1, <2>1, SameReachable
<1>6. CASE ActivateQueue
  <2>1. /\ mem' = mem /\ info' = info /\ q' = q /\ heap' = heap
        /\ pc \in Filling /\ pc' \in Filling
      BY <1>6 DEF ActivateQueue, memVars, vdevVars
  <2> QED
      BY <1>1, <2>1, SameReachable
<1>7. CASE Removed
  <2>1. /\ mem' = mem /\ pc \notin Filling /\ pc' \notin Filling /\ info' = NoInfo
        /\ \A k \in Queues : info[k].vq = Nothing
      BY <1>7 DEF Removed, memVars, Emptied
  <2>2. \A b : ~ InUse(b)
      BY <2>1 DEF InUse
  <2> QED
      BY <2>1, <2>2, ReachableInUse DEF Lost
<1>8. CASE AllocatePages \/ AllocateHeap
    BY <1>8, AllocateKeepsReachable
<1>9. CASE EnableQueue \/ DeleteQueue
    BY <1>9, EnableKeepsReachable, DeleteKeepsReachable
<1> QED
    BY <1>2, <1>3, <1>4, <1>5, <1>6, <1>7, <1>8, <1>9, QuietKeepsReachable DEF Next, Proceed

LEMMA NextKeepsEmptied ==
    ASSUME Inv, Emptied, [Next]_vars
    PROVE  Emptied'
<1> USE DEF Emptied, Inv, Untouched, vars, At, Goes, Breaks, Fails, Works, Failure,
   callVars, dodVars, gpuVars, vdevVars, regVars,
        memVars, countVars, DriverActive, AfterInit, Deleting
<1>1. CASE UNCHANGED vars
    BY <1>1
<1>2. CASE AddDevice
    BY <1>2 DEF AddDevice
<1>3. CASE StopDevice
    BY <1>3 DEF StopDevice
<1>4. CASE PowerDown
    BY <1>4 DEF PowerDown
<1>5. CASE PowerUp
    BY <1>5 DEF PowerUp
<1>6. CASE PowerInactive
    BY <1>6 DEF PowerInactive
<1>7. CASE RemoveDevice
    BY <1>7 DEF RemoveDevice
<1>8. CASE UseDevice
    BY <1>8 DEF UseDevice
<1>9. CASE CheckResources
    BY <1>9 DEF CheckResources
<1>10. CASE ResetDevice
    BY <1>10 DEF ResetDevice
<1>11. CASE InitQueues
    BY <1>11 DEF InitQueues
<1>12. CASE InitBuffers
    BY <1>12 DEF InitBuffers
<1>13. CASE DeviceReady
    BY <1>13 DEF DeviceReady
<1>14. CASE DeviceFailed
    BY <1>14 DEF DeviceFailed
<1>15. CASE CreateThread
    BY <1>15 DEF CreateThread
<1>16. CASE GetModeList
    BY <1>16 DEF GetModeList
<1>17. CASE Started
    BY <1>17 DEF Started
<1>18. CASE StartFailed
    BY <1>18 DEF StartFailed
<1>19. CASE Close
    BY <1>19 DEF Close
<1>20. CASE QueuesDeleted
    BY <1>20 DEF QueuesDeleted
<1>21. CASE PowerSet
    BY <1>21 DEF PowerSet
<1>22. CASE CloseHardware
    BY <1>22 DEF CloseHardware
<1>23. CASE SetFeatures
    BY <1>23 DEF SetFeatures
<1>24. CASE QueryQueue
    BY <1>24, QueryEffect DEF QueryQueue
<1>25. CASE AllocatePages
    BY <1>25, PagesEffect DEF AllocatePages
<1>26. CASE AllocateHeap
    BY <1>26 DEF AllocateHeap
<1>27. CASE ActivateQueue
    BY <1>27 DEF ActivateQueue
<1>28. CASE EnableQueue
    BY <1>28 DEF EnableQueue
<1>29. CASE DeleteQueue
    BY <1>29, DeleteEffect DEF DeleteQueue
<1>30. CASE InitializeTransport
    BY <1>30, NoInfoEmpty DEF InitializeTransport
<1>31. CASE StartDevice
  <2>1. pc' \in {"start failed", "resources"}
      BY <1>31 DEF StartDevice
  <2>2. (info' = info /\ hwDevice' = hwDevice) \/ info' = NoInfo
      BY <1>31 DEF StartDevice
  <2>3. CASE info' = info /\ hwDevice' = hwDevice
      BY <2>1, <2>3
  <2>4. CASE info' = NoInfo
      BY <2>1, <2>4, NoInfoEmpty
  <2> QED
      BY <2>2, <2>3, <2>4
<1>32. CASE Removed
    BY <1>32, NoInfoEmpty DEF Removed
<1> QED
    BY <1>1, <1>2, <1>3, <1>4, <1>5, <1>6, <1>7, <1>8, <1>9, <1>10, <1>11, <1>12, <1>13,
       <1>14, <1>15, <1>16, <1>17, <1>18, <1>19, <1>20, <1>21, <1>22, <1>23, <1>24, <1>25,
       <1>26, <1>27, <1>28, <1>29, <1>30, <1>31, <1>32 DEF Next, Proceed

(* No block is freed that is not allocated, and a block is only lost where   *)
(* LossesKnown says so: a ring that cannot be allocated, a device zeroed by  *)
(* virtio_device_initialize or dropped by StartDevice.                      *)
THEOREM MemoryCorrect == Spec => LossesKnown
<1>1. Init => Emptied
    BY NoInfoEmpty DEF Init, Emptied
<1>2. Inv /\ Emptied /\ [Next]_vars => Inv' /\ Emptied'
    BY NextKeepsInv, NextKeepsEmptied
<1>3. Inv /\ Emptied /\ [Next]_vars =>
         [/\ misfreed' = {}
          /\ \/ Lost' \subseteq Lost
             \/ pc = "transport"
             \/ pc = "heap" /\ pc' = "undo queues"
             \/ call = "none" /\ call' = "start"]_vars
  <2>1. Inv' => misfreed' = {}
      BY DEF Inv
  <2> QED
      BY <2>1, NextKeepsInv, NextKeepsReachable
<1> QED
    BY InitInv, <1>1, <1>2, <1>3, PTL DEF Spec, LossesKnown
=============================================================================
