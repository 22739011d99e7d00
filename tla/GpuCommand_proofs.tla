-------------------------- MODULE GpuCommand_proofs --------------------------
(***************************************************************************)
(* Type correctness of GpuCommand and its ownership invariant: whatever the *)
(* number of vbufs, threads and descriptors, a vbuf is in exactly one place. *)
(***************************************************************************)
EXTENDS GpuCommand, FiniteSetTheorems, TLAPS

USE BufsAssumption, ThreadsAssumption, RoomAssumption, CostsAssumption, IsrAssumption,
    ChangesAssumption

(* The type invariant: Init establishes it.                                *)
LEMMA InitType == Init => TypeOK
<1> SUFFICES ASSUME Init PROVE TypeOK
    OBVIOUS
<1>1. PoolTypeOK
  <2>1. Cardinality(Bufs) \in Nat
      BY FS_CardinalityType
  <2>2. freeBufs \in Seq(Bufs)
      BY <2>1 DEF Init
  <2> QED
      BY <2>2 DEF Init, PoolTypeOK
<1>2. CtrlTypeOK /\ CrsrTypeOK
    BY DEF Init, CtrlTypeOK, CrsrTypeOK, Ctrl!QInit, Crsr!QInit
<1>3. ThreadTypeOK
    BY DEF Init, ThreadTypeOK
<1>4. FlagTypeOK /\ DpcTypeOK /\ PhaseTypeOK
    BY DEF Init, FlagTypeOK, DpcTypeOK, PhaseTypeOK
<1> QED
    BY <1>1, <1>2, <1>3, <1>4 DEF TypeOK

(* Lists of vbufs.                                                         *)
LEMMA AppendType ==
    ASSUME NEW S, NEW s \in Seq(S), NEW x \in S
    PROVE  Append(s, x) \in Seq(S)
    OBVIOUS

LEMMA ElemsType ==
    ASSUME NEW S, NEW s \in Seq(S)
    PROVE  Elems(s) \subseteq S
    BY DEF Elems

(* One lemma per group of variables.                                       *)
LEMMA PoolTypeStep ==
    ASSUME TypeOK, Next
    PROVE  PoolTypeOK'
<1> USE DEF TypeOK, PoolTypeOK, CtrlTypeOK, CrsrTypeOK, poolVars
<1>1. ASSUME NEW t \in Threads, NEW kind \in {"ctrl", "ask", "cursor"}, AllocBuf(t, kind)
      PROVE  PoolTypeOK'
    BY <1>1 DEF AllocBuf
<1>2. ASSUME NEW t \in Threads, AskReturns(t)
      PROVE  PoolTypeOK'
    BY <1>2 DEF AskReturns, FreeBuf, ThreadTypeOK
<1>3. ASSUME NEW t \in Threads, QueueBuffer(t) \/ QueueCursor(t)
      PROVE  PoolTypeOK'
    BY <1>3 DEF QueueBuffer, QueueCursor, Queued, ThreadTypeOK
<1>4. CASE DpcDisposes
  <2>1. dpcBuf \in Bufs /\ UNCHANGED <<event, lost>>
      BY <1>4 DEF DpcDisposes, DpcTypeOK
  <2>2. Append(freeBufs, dpcBuf) \in Seq(Bufs)
      BY <2>1, AppendType
  <2>3. freeBufs' \in Seq(Bufs)
      BY <1>4, <2>2 DEF DpcDisposes, FreeBuf
  <2> QED
      BY <2>1, <2>3
<1>5. CASE CloseEnds \/ InitEnds
  <2>1. UNCHANGED <<freeBufs, event>> /\ lost' = lost \cup InQueues
      BY <1>5 DEF CloseEnds, InitEnds, ForgetQueues
  <2>2. InQueues \subseteq Bufs
      BY ElemsType DEF InQueues
  <2> QED
      BY <2>1, <2>2
<1>6. CASE UNCHANGED poolVars
    BY <1>6
<1> QED
  <2>1. ASSUME NEW t \in Threads, Issues(t), poolVars' # poolVars
        PROVE  PoolTypeOK'
      BY <2>1, <1>1, <1>2, <1>3 DEF Issues, AllocNothing, QueueNothing, Crash
  <2>2. WorkerStep \/ DeviceStep \/ IsrStep \/ CloseBegins => UNCHANGED poolVars
      BY DEF WorkerStep, WorkerWakes, WorkerClears, WorkerFaults, DeviceStep,
         DevCompletes, DevInterrupts, DevConfigChanges, IsrStep, IsrReads, IsrFaults,
         IsrOrs, IsrQueuesDpc, CloseBegins, Crash
  <2>3. DpcStep => DpcDisposes \/ UNCHANGED poolVars
      BY DEF DpcStep, DpcStarts, DpcExchanges, DpcTakes, DpcGoesOn, DpcSignals,
         DpcFaults, Crash
  <2>4. InitStep => CloseEnds \/ InitEnds \/ UNCHANGED poolVars
      BY DEF InitStep, InitBegins, HwCloseStops, HwCloseJoins
  <2> QED
      BY <1>4, <1>5, <1>6, <2>1, <2>2, <2>3, <2>4 DEF Next

LEMMA CtrlTypeStep ==
    ASSUME TypeOK, Next
    PROVE  CtrlTypeOK'
<1> USE DEF TypeOK, CtrlTypeOK, ctrlVars
<1>1. ASSUME NEW b \in Bufs, NEW n \in Nat, Ctrl!Submit(b, n)
      PROVE  CtrlTypeOK'
    BY <1>1 DEF Ctrl!Submit
<1>2. ASSUME NEW b \in Bufs, Ctrl!Complete(b)
      PROVE  CtrlTypeOK'
    BY <1>2 DEF Ctrl!Complete
<1>3. ASSUME Ctrl!Return
      PROVE  CtrlTypeOK'
    BY <1>3 DEF Ctrl!Return
<1>4. ASSUME Ctrl!Forget
      PROVE  CtrlTypeOK'
    BY <1>4 DEF Ctrl!Forget
<1>5. ASSUME NEW t \in Threads, QueueBuffer(t)
      PROVE  CtrlTypeOK'
  <2>1. hand[t] \in Bufs /\ CommandCosts(pc[t]) \subseteq Nat
      BY <1>5 DEF QueueBuffer, ThreadTypeOK, CommandCosts
  <2> QED
      BY <1>1, <1>5, <2>1 DEF QueueBuffer
<1>6. ASSUME NEW t \in Threads, Issues(t), ~ QueueBuffer(t)
      PROVE  UNCHANGED ctrlVars
    BY <1>6 DEF Issues, AllocBuf, AllocNothing, QueueCursor, QueueNothing, AskReturns, Crash
<1>7. WorkerStep \/ IsrStep \/ CloseBegins => UNCHANGED ctrlVars
    BY DEF WorkerStep, WorkerWakes, WorkerClears, WorkerFaults, IsrStep, IsrReads,
       IsrFaults, IsrOrs, IsrQueuesDpc, CloseBegins, Crash
<1>8. DeviceStep => CtrlTypeOK'
    BY <1>2 DEF DeviceStep, DevCompletes, DevInterrupts, DevConfigChanges
<1>9. DpcStep => CtrlTypeOK'
    BY <1>3 DEF DpcStep, DpcStarts, DpcExchanges, DpcTakes, DpcDisposes, DpcGoesOn,
       DpcSignals, DpcFaults, Crash
<1>10. InitStep => CtrlTypeOK'
    BY <1>4 DEF InitStep, CloseEnds, InitBegins, InitEnds, ForgetQueues, HwCloseStops,
       HwCloseJoins
<1> QED
    BY <1>5, <1>6, <1>7, <1>8, <1>9, <1>10 DEF Next

LEMMA CrsrTypeStep ==
    ASSUME TypeOK, Next
    PROVE  CrsrTypeOK'
<1> USE DEF TypeOK, CrsrTypeOK, crsrVars
<1>1. ASSUME NEW b \in Bufs, Crsr!Submit(b, 1)
      PROVE  CrsrTypeOK'
    BY <1>1 DEF Crsr!Submit
<1>2. ASSUME NEW b \in Bufs, Crsr!Complete(b)
      PROVE  CrsrTypeOK'
    BY <1>2 DEF Crsr!Complete
<1>3. ASSUME Crsr!Return
      PROVE  CrsrTypeOK'
    BY <1>3 DEF Crsr!Return
<1>4. ASSUME Crsr!Forget
      PROVE  CrsrTypeOK'
    BY <1>4 DEF Crsr!Forget
<1>5. ASSUME NEW t \in Threads, QueueCursor(t)
      PROVE  CrsrTypeOK'
    BY <1>1, <1>5 DEF QueueCursor, ThreadTypeOK
<1>6. ASSUME NEW t \in Threads, Issues(t), ~ QueueCursor(t)
      PROVE  UNCHANGED crsrVars
    BY <1>6 DEF Issues, AllocBuf, AllocNothing, QueueBuffer, QueueNothing, AskReturns, Crash
<1>7. WorkerStep \/ IsrStep \/ CloseBegins => UNCHANGED crsrVars
    BY DEF WorkerStep, WorkerWakes, WorkerClears, WorkerFaults, IsrStep, IsrReads,
       IsrFaults, IsrOrs, IsrQueuesDpc, CloseBegins, Crash
<1>8. DeviceStep => CrsrTypeOK'
    BY <1>2 DEF DeviceStep, DevCompletes, DevInterrupts, DevConfigChanges
<1>9. DpcStep => CrsrTypeOK'
    BY <1>3 DEF DpcStep, DpcStarts, DpcExchanges, DpcTakes, DpcDisposes, DpcGoesOn,
       DpcSignals, DpcFaults, Crash
<1>10. InitStep => CrsrTypeOK'
    BY <1>4 DEF InitStep, CloseEnds, InitBegins, InitEnds, ForgetQueues, HwCloseStops,
       HwCloseJoins
<1> QED
    BY <1>5, <1>6, <1>7, <1>8, <1>9, <1>10 DEF Next

LEMMA ThreadTypeStep ==
    ASSUME TypeOK, Next
    PROVE  ThreadTypeOK'
<1> USE DEF TypeOK, ThreadTypeOK, threadVars
<1>1. ASSUME NEW t \in Threads, NEW kind \in {"ctrl", "ask", "cursor"}, AllocBuf(t, kind)
      PROVE  ThreadTypeOK'
  <2>1. Head(freeBufs) \in Bufs
      BY <1>1 DEF AllocBuf, PoolTypeOK
  <2> QED
      BY <1>1, <2>1 DEF AllocBuf
<1>2. ASSUME NEW t \in Threads, QueueBuffer(t) \/ QueueCursor(t)
      PROVE  ThreadTypeOK'
    BY <1>2 DEF QueueBuffer, QueueCursor, Queued
<1>3. ASSUME NEW t \in Threads, AskReturns(t)
      PROVE  ThreadTypeOK'
    BY <1>3 DEF AskReturns
<1>4. ASSUME NEW t \in Threads, Issues(t)
      PROVE  ThreadTypeOK'
    BY <1>1, <1>2, <1>3, <1>4 DEF Issues, AllocNothing, QueueNothing, Crash
<1>5. WorkerStep => ThreadTypeOK'
    BY DEF WorkerStep, WorkerWakes, WorkerClears, WorkerFaults, Crash, Threads
<1>6. ASSUME DpcDisposes
      PROVE  ThreadTypeOK'
  <2>1. UNCHANGED <<pc, hand>>
      BY <1>6 DEF DpcDisposes
  <2>2. CASE dpcPc = "ctrl" /\ event[dpcBuf] # NoThread
    <3>1. woken' = [woken EXCEPT ![event[dpcBuf]] = TRUE]
        BY <1>6, <2>2 DEF DpcDisposes
    <3> QED
        BY <2>1, <3>1
  <2>3. CASE ~ (dpcPc = "ctrl" /\ event[dpcBuf] # NoThread)
    <3>1. woken' = woken
        BY <1>6, <2>3 DEF DpcDisposes
    <3> QED
        BY <2>1, <3>1
  <2> QED
      BY <2>2, <2>3
<1>7. DeviceStep \/ IsrStep \/ CloseBegins => UNCHANGED threadVars
    BY DEF DeviceStep, DevCompletes, DevInterrupts, DevConfigChanges, IsrStep,
       IsrReads, IsrFaults, IsrOrs, IsrQueuesDpc, CloseBegins, Crash
<1>8. DpcStep => DpcDisposes \/ UNCHANGED threadVars
    BY DEF DpcStep, DpcStarts, DpcExchanges, DpcTakes, DpcGoesOn, DpcSignals,
       DpcFaults, Crash
<1>9. InitStep => UNCHANGED threadVars
    BY DEF InitStep, CloseEnds, InitBegins, InitEnds, HwCloseStops, HwCloseJoins
<1> QED
    BY <1>4, <1>5, <1>6, <1>7, <1>8, <1>9 DEF Next

LEMMA FlagTypeStep ==
    ASSUME TypeOK, Next
    PROVE  FlagTypeOK'
<1> USE DEF TypeOK, FlagTypeOK, deviceVars, isrVars, stateVars
<1>1. ASSUME NEW t \in Threads, Issues(t)
      PROVE  FlagTypeOK'
  <2>1. ASSUME NEW kind, AllocBuf(t, kind) \/ AllocNothing(t, kind)
        PROVE  FlagTypeOK'
      BY <2>1 DEF AllocBuf, AllocNothing, Crash
  <2>2. QueueBuffer(t) \/ QueueCursor(t) \/ QueueNothing(t) => FlagTypeOK'
      BY DEF QueueBuffer, QueueCursor, Queued, QueueNothing, Crash
  <2>3. AskReturns(t) => FlagTypeOK'
      BY DEF AskReturns
  <2> QED
      BY <1>1, <2>1, <2>2, <2>3 DEF Issues
<1>2. WorkerStep => FlagTypeOK'
    BY DEF WorkerStep, WorkerWakes, WorkerClears, WorkerFaults, Crash
<1>3. DeviceStep => FlagTypeOK'
  <2>1. ASSUME NEW b \in Bufs, DevCompletes(b)
        PROVE  FlagTypeOK'
      BY <2>1 DEF DevCompletes
  <2>2. ASSUME DevInterrupts
        PROVE  FlagTypeOK'
      BY <2>2 DEF DevInterrupts
  <2>3. ASSUME DevConfigChanges
        PROVE  FlagTypeOK'
    <3>1. isr' \subseteq {"queue", "config"}
        BY <2>3 DEF DevConfigChanges
    <3>2. changes' \in Nat
        BY <2>3 DEF DevConfigChanges
    <3> QED
        BY <2>3, <3>1, <3>2 DEF DevConfigChanges
  <2> QED
      BY <2>1, <2>2, <2>3 DEF DeviceStep
<1>4. IsrStep => FlagTypeOK'
    BY DEF IsrStep, IsrReads, IsrFaults, IsrOrs, IsrQueuesDpc, WorkOf, Works, Unreaped, Crash
<1>5. DpcStep => FlagTypeOK'
    BY DEF DpcStep, DpcStarts, DpcExchanges, DpcTakes, DpcDisposes, DpcGoesOn,
       DpcSignals, DpcFaults, Crash
<1>6. CloseBegins \/ InitStep => FlagTypeOK'
    BY DEF CloseBegins, InitStep, CloseEnds, InitBegins, InitEnds, ForgetQueues,
       HwCloseStops, HwCloseJoins
<1> QED
    BY <1>1, <1>2, <1>3, <1>4, <1>5, <1>6 DEF Next

LEMMA DpcTypeStep ==
    ASSUME TypeOK, Next
    PROVE  DpcTypeOK'
<1> USE DEF TypeOK, DpcTypeOK, dpcVars
<1>1. ASSUME NEW t \in Threads, Issues(t)
      PROVE  UNCHANGED dpcVars
    BY <1>1 DEF Issues, AllocBuf, AllocNothing, QueueBuffer, QueueCursor, Queued,
       QueueNothing, AskReturns, Crash
<1>2. WorkerStep \/ DeviceStep \/ CloseBegins \/ InitStep => UNCHANGED dpcVars
    BY DEF WorkerStep, WorkerWakes, WorkerClears, WorkerFaults, DeviceStep,
       DevCompletes, DevInterrupts, DevConfigChanges, CloseBegins, InitStep,
       CloseEnds, InitBegins, InitEnds, HwCloseStops, HwCloseJoins, Crash
<1>3. IsrStep => DpcTypeOK'
    BY DEF IsrStep, IsrReads, IsrFaults, IsrOrs, IsrQueuesDpc, Crash
<1>4. ASSUME DpcTakes
      PROVE  DpcTypeOK'
    BY <1>4 DEF DpcTakes, Ctrl!Return, Crsr!Return, CtrlTypeOK, CrsrTypeOK
<1>5. DpcStep => DpcTypeOK'
    BY <1>4 DEF DpcStep, DpcStarts, DpcExchanges, DpcDisposes, DpcGoesOn, DpcSignals,
       DpcFaults, FlagTypeOK, Crash
<1> QED
    BY <1>1, <1>2, <1>3, <1>5 DEF Next

LEMMA PhaseTypeStep ==
    ASSUME TypeOK, Next
    PROVE  PhaseTypeOK'
<1> USE DEF TypeOK, PhaseTypeOK, stateVars
<1>1. ASSUME NEW t \in Threads, Issues(t)
      PROVE  UNCHANGED phase
    BY <1>1 DEF Issues, AllocBuf, AllocNothing, QueueBuffer, QueueCursor, Queued,
       QueueNothing, AskReturns, Crash
<1>2. WorkerStep \/ DeviceStep \/ IsrStep \/ DpcStep => UNCHANGED phase
    BY DEF WorkerStep, WorkerWakes, WorkerClears, WorkerFaults, DeviceStep,
       DevCompletes, DevInterrupts, DevConfigChanges, IsrStep, IsrReads, IsrFaults,
       IsrOrs, IsrQueuesDpc, DpcStep, DpcStarts, DpcExchanges, DpcTakes, DpcDisposes,
       DpcGoesOn, DpcSignals, DpcFaults, Crash
<1>3. CloseBegins \/ InitStep => PhaseTypeOK'
    BY DEF CloseBegins, InitStep, CloseEnds, InitBegins, InitEnds, HwCloseStops,
       HwCloseJoins
<1> QED
    BY <1>1, <1>2, <1>3 DEF Next

LEMMA TypeStutter ==
    ASSUME TypeOK, UNCHANGED vars
    PROVE  TypeOK'
<1> USE DEF TypeOK, vars
<1>1. PoolTypeOK'
    BY DEF PoolTypeOK, poolVars
<1>2. CtrlTypeOK'
    BY DEF CtrlTypeOK, ctrlVars
<1>3. CrsrTypeOK'
    BY DEF CrsrTypeOK, crsrVars
<1>4. ThreadTypeOK'
    BY DEF ThreadTypeOK, threadVars
<1>5. FlagTypeOK'
    BY DEF FlagTypeOK, deviceVars, isrVars, stateVars
<1>6. DpcTypeOK' /\ PhaseTypeOK'
    BY DEF DpcTypeOK, PhaseTypeOK, dpcVars, stateVars
<1> QED
    BY <1>1, <1>2, <1>3, <1>4, <1>5, <1>6

LEMMA TypeStep == ASSUME TypeOK, Next PROVE TypeOK'
BY PoolTypeStep, CtrlTypeStep, CrsrTypeStep, ThreadTypeStep, FlagTypeStep, DpcTypeStep,
   PhaseTypeStep DEF TypeOK

(* In every reachable state the vbuf list, the two queues, the threads, the *)
(* interrupt routine and the DPC hold values of their types, for any pool,  *)
(* any set of threads and queues of any size.                              *)
THEOREM TypeCorrect == Spec => []TypeOK
<1>1. Init => TypeOK
    BY InitType
<1>2. TypeOK /\ [Next]_vars => TypeOK'
    BY TypeStep, TypeStutter
<1> QED
    BY <1>1, <1>2, PTL DEF Spec

-----------------------------------------------------------------------------
(* Lists without repetition.                                               *)
LEMMA ElemsAppend ==
    ASSUME NEW S, NEW s \in Seq(S), NEW x \in S
    PROVE  Elems(Append(s, x)) = Elems(s) \cup {x}
<1>1. /\ Len(Append(s, x)) = Len(s) + 1
      /\ \A i \in 1 .. Len(s) : Append(s, x)[i] = s[i]
      /\ Append(s, x)[Len(s) + 1] = x
    OBVIOUS
<1>2. 1 .. (Len(s) + 1) = (1 .. Len(s)) \cup {Len(s) + 1}
    OBVIOUS
<1> QED
    BY <1>1, <1>2 DEF Elems

LEMMA DistinctAppend ==
    ASSUME NEW S, NEW s \in Seq(S), NEW x \in S, Distinct(s), x \notin Elems(s)
    PROVE  Distinct(Append(s, x))
<1>1. /\ Len(Append(s, x)) = Len(s) + 1
      /\ \A i \in 1 .. Len(s) : Append(s, x)[i] = s[i]
      /\ Append(s, x)[Len(s) + 1] = x
    OBVIOUS
<1> QED
    BY <1>1 DEF Elems, Distinct

LEMMA TailOfDistinct ==
    ASSUME NEW S, NEW s \in Seq(S), Distinct(s), s # <<>>
    PROVE  /\ Head(s) \in Elems(s)
           /\ Elems(Tail(s)) = Elems(s) \ {Head(s)}
           /\ Distinct(Tail(s))
<1>1. /\ Len(s) \in Nat \ {0} /\ Len(Tail(s)) = Len(s) - 1 /\ Head(s) = s[1]
      /\ \A i \in 1 .. Len(s) - 1 : Tail(s)[i] = s[i + 1]
    OBVIOUS
<1>2. Head(s) \in Elems(s)
    BY <1>1 DEF Elems
<1>3. Distinct(Tail(s))
    BY <1>1 DEF Distinct
<1>4. ASSUME NEW x \in Elems(Tail(s))
      PROVE  x \in Elems(s) \ {Head(s)}
    BY <1>1 DEF Elems, Distinct
<1>5. ASSUME NEW x \in Elems(s) \ {Head(s)}
      PROVE  x \in Elems(Tail(s))
  <2>1. PICK i \in 1 .. Len(s) : x = s[i]
      BY DEF Elems
  <2>2. i # 1 /\ i - 1 \in 1 .. Len(s) - 1
      BY <1>1, <2>1
  <2>3. Tail(s)[i - 1] = x
      BY <1>1, <2>1, <2>2
  <2> QED
      BY <1>1, <2>2, <2>3 DEF Elems
<1> QED
    BY <1>2, <1>3, <1>4, <1>5

-----------------------------------------------------------------------------
(* The ownership invariant is inductive together with the types and with    *)
(* what is known of the event pointers: the DPC decides by vbuf->event      *)
(* whether it releases a vbuf or gives it back to the thread that asked.    *)
Owned == TypeOK /\ OnePlace /\ NoStaleEvent

(* A step that takes the vbufs of B to place p and leaves the others alone. *)
Moves(B, p) ==
    \A b \in Bufs, q \in Place :
        At(b, q)' <=> IF b \in B THEN q = p ELSE At(b, q)

LEMMA MovesKeepPlaced ==
    ASSUME NEW B, NEW p \in Place, Placed, Moves(B, p)
    PROVE  Placed'
<1> SUFFICES ASSUME NEW b \in Bufs
             PROVE  \E r \in Place : \A q \in Place : At(b, q)' <=> q = r
    BY DEF Placed, Place
<1>1. CASE b \in B
    BY <1>1 DEF Moves
<1>2. CASE b \notin B
    BY <1>2 DEF Moves, Placed
<1> QED
    BY <1>1, <1>2

(* Two places of one vbuf are the same place.                              *)
LEMMA SamePlace ==
    ASSUME Placed, NEW b \in Bufs, NEW p \in Place, NEW q \in Place, At(b, p), At(b, q)
    PROVE  p = q
    BY DEF Placed

placeVars == <<freeBufs, lost, event, ctrlDev, ctrlUsed, crsrDev, crsrUsed, dpcBuf,
               hand, woken>>

(* Where a thread neither has nor awaits a vbuf.                           *)
Resting == {"idle", "changed", "clear", "dead"}

LEMMA PlacesFrame ==
    ASSUME Owned, UNCHANGED placeVars,
           \A t \in Threads : pc'[t] = pc[t] \/ (pc[t] \in Resting /\ pc'[t] \in Resting)
    PROVE  OnePlace' /\ NoStaleEvent'
<1> USE DEF Owned
<1>1. /\ UNCHANGED <<freeBufs, lost, event, ctrlDev, ctrlUsed>>
      /\ UNCHANGED <<crsrDev, crsrUsed, dpcBuf, hand, woken>>
    BY DEF placeVars
<1>2. \A t \in Threads : Holds(t)' <=> Holds(t)
    BY <1>1 DEF Holds, Resting
<1>3. \A b : InHand(b)' <=> InHand(b)
    BY <1>1, <1>2 DEF InHand
<1>4. ASSUME NEW b \in Bufs, NEW p \in Place
      PROVE  At(b, p)' <=> At(b, p)
  <2>1. UNCHANGED <<Elems(freeBufs), Elems(ctrlUsed), Elems(crsrUsed)>>
      BY <1>1
  <2> QED
      BY <1>1, <1>3, <2>1 DEF At
<1>5. NoneTwice'
    BY <1>1 DEF OnePlace, NoneTwice, Distinct
<1>6. OneHolder'
    BY <1>1, <1>2 DEF OnePlace, OneHolder
<1>7. Placed'
  <2>1. Moves({}, "free")
      BY <1>4 DEF Moves
  <2> QED
      BY <2>1, MovesKeepPlaced DEF OnePlace, Place
<1>8. NoStaleEvent'
  <2>1. UNCHANGED InQueues
      BY <1>1 DEF InQueues
  <2> QED
      BY <1>1, <2>1 DEF NoStaleEvent, Resting, TypeOK, PoolTypeOK
<1> QED
    BY <1>5, <1>6, <1>7, <1>8 DEF OnePlace

LEMMA ThreadsStandStill ==
    ASSUME Owned, UNCHANGED placeVars, UNCHANGED pc
    PROVE  OnePlace' /\ NoStaleEvent'
BY PlacesFrame

LEMMA CrashKeepsOwned ==
    ASSUME Owned, Crash
    PROVE  OnePlace' /\ NoStaleEvent'
BY ThreadsStandStill
   DEF Crash, placeVars, poolVars, ctrlVars, crsrVars, threadVars, dpcVars

(* What OnePlace says of a vbuf whose place is known.                      *)
LEMMA OnlyThere ==
    ASSUME Owned, NEW b \in Bufs, NEW p \in Place, At(b, p)
    PROVE  /\ p # "free" => b \notin Elems(freeBufs)
           /\ p # "ctrl" => b \notin ctrlDev
           /\ p # "ctrl used" => b \notin Elems(ctrlUsed)
           /\ p # "cursor" => b \notin crsrDev
           /\ p # "cursor used" => b \notin Elems(crsrUsed)
           /\ p # "hand" => ~ InHand(b)
           /\ p # "dpc" => b # dpcBuf
           /\ p # "lost" => b \notin lost
<1>1. \A q \in Place : At(b, q) => q = p
    BY SamePlace DEF Owned, OnePlace
<1> QED
    BY <1>1 DEF At, Place

LEMMA AllocKeepsOwned ==
    ASSUME Owned, NEW t \in Threads, NEW kind \in {"ctrl", "ask", "cursor"},
           AllocBuf(t, kind)
    PROVE  OnePlace' /\ NoStaleEvent'
<1> DEFINE b0 == Head(freeBufs)
<1> USE DEF Owned, TypeOK
<1>1. /\ freeBufs' = Tail(freeBufs) /\ freeBufs # <<>>
      /\ UNCHANGED <<lost, ctrlDev, ctrlUsed>> /\ UNCHANGED <<crsrDev, crsrUsed, dpcBuf>>
      /\ hand' = [hand EXCEPT ![t] = b0] /\ pc' = [pc EXCEPT ![t] = kind]
      /\ event' = [event EXCEPT ![b0] = IF kind = "ask" THEN t ELSE NoThread]
      /\ woken' = [woken EXCEPT ![t] = FALSE]
      /\ pc[t] \in {"idle", "changed"}
    BY DEF AllocBuf, MayIssue, ctrlVars, crsrVars, dpcVars
<1>2. /\ b0 \in Bufs /\ b0 \in Elems(freeBufs)
      /\ Elems(Tail(freeBufs)) = Elems(freeBufs) \ {b0} /\ Distinct(Tail(freeBufs))
    BY <1>1, TailOfDistinct DEF PoolTypeOK, OnePlace, NoneTwice
<1>3. At(b0, "free")
    BY <1>2 DEF At
<1>4. b0 \notin InQueues /\ b0 # dpcBuf /\ ~ InHand(b0)
    BY <1>2, <1>3, OnlyThere DEF InQueues, Place
<1>5. /\ Holds(t)' /\ hand'[t] = b0 /\ ~ Holds(t)
      /\ \A s \in Threads \ {t} : hand'[s] = hand[s] /\ (Holds(s)' <=> Holds(s))
    BY <1>1 DEF Holds, ThreadTypeOK
<1>6. \A b \in Bufs : InHand(b)' <=> b = b0 \/ InHand(b)
    BY <1>5 DEF InHand
<1>7. Moves({b0}, "hand")
  <2> SUFFICES ASSUME NEW b \in Bufs, NEW q \in Place
               PROVE  At(b, q)' <=> IF b = b0 THEN q = "hand" ELSE At(b, q)
      BY DEF Moves
  <2>1. /\ Elems(freeBufs)' = Elems(freeBufs) \ {b0}
        /\ UNCHANGED <<Elems(ctrlUsed), Elems(crsrUsed)>>
      BY <1>1, <1>2
  <2>2. b # b0 => (At(b, q)' <=> At(b, q))
      BY <1>1, <1>6, <2>1 DEF At
  <2>3. b = b0 => (At(b, q)' <=> q = "hand")
      BY ZenonT(30), <1>1, <1>2, <1>3, <1>6, <2>1, OnlyThere DEF At, Place
  <2> QED
      BY <2>2, <2>3
<1>8. NoneTwice'
    BY <1>1, <1>2 DEF OnePlace, NoneTwice, Distinct
<1>9. OneHolder'
    BY <1>4, <1>5 DEF OnePlace, OneHolder, InHand
<1>10. Placed'
    BY <1>2, <1>7, MovesKeepPlaced DEF OnePlace, Place
<1>11. NoStaleEvent'
  <2>1. UNCHANGED InQueues
      BY <1>1 DEF InQueues
  <2>2. ASSUME NEW b \in Bufs, b \in InQueues \/ b = dpcBuf, event'[b] # NoThread
        PROVE  pc'[event'[b]] = "wait" /\ hand'[event'[b]] = b /\ ~ woken'[event'[b]]
    <3>1. event'[b] = event[b] /\ event[b] \in Threads
        BY <1>1, <1>4, <2>2 DEF PoolTypeOK
    <3>2. event[b] # t
        BY <1>1, <2>2, <3>1 DEF NoStaleEvent
    <3> QED
        BY <1>1, <2>2, <3>1, <3>2 DEF NoStaleEvent, ThreadTypeOK
  <2>3. ASSUME NEW s \in Threads
        PROVE  /\ pc'[s] = "ask" => event'[hand'[s]] = s /\ ~ woken'[s]
               /\ pc'[s] \in {"ctrl", "cursor"} => event'[hand'[s]] = NoThread
    <3>1. CASE s = t
        BY <1>1, <1>2, <3>1 DEF PoolTypeOK, ThreadTypeOK
    <3>2. CASE s # t
      <4>1. pc'[s] = pc[s] /\ woken'[s] = woken[s] /\ hand'[s] = hand[s]
          BY <1>1, <3>2 DEF ThreadTypeOK
      <4>2. Holds(s) => hand[s] # b0
          BY <1>4 DEF InHand
      <4> QED
          BY <1>1, <4>1, <4>2 DEF NoStaleEvent, Holds, PoolTypeOK, ThreadTypeOK
    <3> QED
        BY <3>1, <3>2
  <2> QED
      BY <1>1, <2>1, <2>2, <2>3 DEF NoStaleEvent
<1> QED
    BY <1>8, <1>9, <1>10, <1>11 DEF OnePlace

(* QueueBuffer and QueueCursor: the vbuf leaves the thread's hand.          *)
LEMMA HandOverKeepsOwned ==
    ASSUME Owned, NEW t \in Threads, NEW p \in {"ctrl", "cursor", "lost"},
           pc[t] \in {"ctrl", "ask", "cursor"}, Queued(t),
           UNCHANGED <<ctrlUsed, crsrUsed>>,
           ctrlDev' = IF p = "ctrl" THEN ctrlDev \cup {hand[t]} ELSE ctrlDev,
           crsrDev' = IF p = "cursor" THEN crsrDev \cup {hand[t]} ELSE crsrDev,
           lost' = IF p = "lost" THEN lost \cup {hand[t]} ELSE lost,
           p = "cursor" => pc[t] = "cursor"
    PROVE  OnePlace' /\ NoStaleEvent'
<1> DEFINE b0 == hand[t]
<1> USE DEF Owned, TypeOK
<1>1. /\ UNCHANGED <<freeBufs, event, dpcBuf, woken>>
      /\ pc' = [pc EXCEPT ![t] = IF pc[t] = "ask" THEN "wait" ELSE "idle"]
      /\ hand' = [hand EXCEPT ![t] = IF pc[t] = "ask" THEN hand[t] ELSE NoBuf]
    BY DEF Queued, dpcVars
<1>2. b0 \in Bufs /\ Holds(t) /\ ~ Holds(t)'
    BY <1>1 DEF Holds, ThreadTypeOK, NoStaleEvent
<1>3. At(b0, "hand")
    BY <1>2 DEF At, InHand
<1>4. /\ b0 \notin Elems(freeBufs) /\ b0 \notin ctrlDev /\ b0 \notin Elems(ctrlUsed)
      /\ b0 \notin crsrDev /\ b0 \notin Elems(crsrUsed)
      /\ b0 # dpcBuf /\ b0 \notin lost /\ b0 \notin InQueues
  <2>1. "hand" \in Place
      BY DEF Place
  <2> QED
      BY ZenonT(30), <1>2, <1>3, <2>1, OnlyThere DEF InQueues
<1>5. \A s \in Threads \ {t} : /\ hand'[s] = hand[s] /\ (Holds(s)' <=> Holds(s))
                               /\ Holds(s) => hand[s] # b0
    BY <1>1, <1>2 DEF Holds, ThreadTypeOK, OnePlace, OneHolder
<1>6. \A b \in Bufs : InHand(b)' <=> b # b0 /\ InHand(b)
    BY <1>2, <1>5 DEF InHand
<1>7. Moves({b0}, p)
  <2> SUFFICES ASSUME NEW b \in Bufs, NEW q \in Place
               PROVE  At(b, q)' <=> IF b = b0 THEN q = p ELSE At(b, q)
      BY DEF Moves
  <2>1. UNCHANGED <<Elems(freeBufs), Elems(ctrlUsed), Elems(crsrUsed)>>
      BY <1>1
  <2>2. b # b0 => (At(b, q)' <=> At(b, q))
      BY <1>1, <1>6, <2>1 DEF At
  <2>3. b = b0 => (At(b, q)' <=> q = p)
      BY ZenonT(30), <1>1, <1>4, <1>6, <2>1 DEF At, Place
  <2> QED
      BY <2>2, <2>3
<1>8. NoneTwice'
    BY <1>1 DEF OnePlace, NoneTwice, Distinct
<1>9. OneHolder'
    BY <1>2, <1>5 DEF OnePlace, OneHolder
<1>10. Placed'
  <2>1. p \in Place
      BY DEF Place
  <2> QED
      BY <1>7, <2>1, MovesKeepPlaced DEF OnePlace
<1>11. NoStaleEvent'
  <2>1. /\ InQueues' \subseteq InQueues \cup {b0}
        /\ p = "lost" => InQueues' = InQueues
      BY <1>1 DEF InQueues
  <2>2. ASSUME NEW b \in Bufs, b \in InQueues' \/ b = dpcBuf, event[b] # NoThread
        PROVE  pc'[event[b]] = "wait" /\ hand'[event[b]] = b /\ ~ woken[event[b]]
    <3>1. event[b] \in Threads
        BY <2>2 DEF PoolTypeOK
    <3>2. CASE b = b0
      <4>1. pc[t] = "ask" /\ event[b] = t
          BY <1>4, <2>1, <2>2, <3>2 DEF NoStaleEvent
      <4> QED
          BY <1>1, <3>2, <4>1 DEF NoStaleEvent, ThreadTypeOK
    <3>3. CASE b # b0
      <4>1. pc[event[b]] = "wait" /\ hand[event[b]] = b /\ ~ woken[event[b]]
          BY <2>1, <2>2, <3>3 DEF NoStaleEvent
      <4> QED
          BY <1>1, <3>1, <4>1 DEF ThreadTypeOK
    <3> QED
        BY <3>2, <3>3
  <2>3. ASSUME NEW s \in Threads
        PROVE  /\ pc'[s] = "ask" => event[hand'[s]] = s /\ ~ woken[s]
               /\ pc'[s] \in {"ctrl", "cursor"} => event[hand'[s]] = NoThread
      BY <1>1 DEF NoStaleEvent, ThreadTypeOK
  <2> QED
      BY <1>1, <2>2, <2>3 DEF NoStaleEvent
<1> QED
    BY <1>8, <1>9, <1>10, <1>11 DEF OnePlace

LEMMA QueueKeepsOwned ==
    ASSUME Owned, NEW t \in Threads, QueueBuffer(t) \/ QueueCursor(t)
    PROVE  OnePlace' /\ NoStaleEvent'
<1>1. CASE QueueBuffer(t) /\ lost' = lost
  <2>1. PICK n \in CommandCosts(pc[t]) :
          Ctrl!Submit(hand[t], n) \/ (n > ctrlRoom /\ lost' = lost \cup {hand[t]}
                                        /\ UNCHANGED ctrlVars)
      BY <1>1 DEF QueueBuffer
  <2>2. hand[t] \in lost => FALSE
    <3>1. At(hand[t], "hand") /\ hand[t] \in Bufs
        BY <1>1 DEF QueueBuffer, At, InHand, Holds, Owned, TypeOK, ThreadTypeOK
    <3> QED
        BY <3>1, OnlyThere DEF Place
  <2>3. ctrlDev' = ctrlDev \cup {hand[t]} /\ ctrlUsed' = ctrlUsed
      BY <1>1, <2>1, <2>2 DEF Ctrl!Submit
  <2>4. Queued(t) /\ pc[t] \in {"ctrl", "ask"} /\ crsrDev' = crsrDev /\ crsrUsed' = crsrUsed
      BY <1>1 DEF QueueBuffer, crsrVars
  <2> QED
      BY <1>1, <2>3, <2>4, HandOverKeepsOwned
<1>2. CASE QueueBuffer(t) /\ lost' # lost
  <2>1. lost' = lost \cup {hand[t]} /\ ctrlDev' = ctrlDev /\ ctrlUsed' = ctrlUsed
      BY <1>2 DEF QueueBuffer, ctrlVars
  <2>2. Queued(t) /\ pc[t] \in {"ctrl", "ask"} /\ crsrDev' = crsrDev /\ crsrUsed' = crsrUsed
      BY <1>2 DEF QueueBuffer, crsrVars
  <2> QED
      BY <2>1, <2>2, HandOverKeepsOwned
<1>3. CASE QueueCursor(t)
  <2>1. Queued(t) /\ pc[t] = "cursor" /\ ctrlDev' = ctrlDev /\ ctrlUsed' = ctrlUsed
      BY <1>3 DEF QueueCursor, ctrlVars
  <2>2. CASE Crsr!Submit(hand[t], 1) /\ UNCHANGED lost
    <3>1. crsrDev' = crsrDev \cup {hand[t]} /\ crsrUsed' = crsrUsed
        BY <2>2 DEF Crsr!Submit
    <3> QED
        BY <2>1, <2>2, <3>1, HandOverKeepsOwned
  <2>3. CASE lost' = lost \cup {hand[t]} /\ UNCHANGED crsrVars
    <3>1. crsrDev' = crsrDev /\ crsrUsed' = crsrUsed
        BY <2>3 DEF crsrVars
    <3> QED
        BY <2>1, <2>3, <3>1, HandOverKeepsOwned
  <2> QED
      BY <1>3, <2>2, <2>3 DEF QueueCursor
<1> QED
    BY <1>1, <1>2, <1>3

(* The asker releases its vbuf.                                            *)
LEMMA ReturnKeepsOwned ==
    ASSUME Owned, NEW t \in Threads, AskReturns(t)
    PROVE  OnePlace' /\ NoStaleEvent'
<1> DEFINE b0 == hand[t]
<1> USE DEF Owned, TypeOK
<1>1. /\ freeBufs' = Append(freeBufs, b0)
      /\ UNCHANGED <<event, lost, ctrlDev, ctrlUsed>>
      /\ UNCHANGED <<crsrDev, crsrUsed, dpcBuf, woken>>
      /\ hand' = [hand EXCEPT ![t] = NoBuf]
      /\ pc' = [pc EXCEPT ![t] = IF t = Worker THEN "clear" ELSE "idle"]
      /\ pc[t] = "wait" /\ woken[t]
    BY DEF AskReturns, FreeBuf, ctrlVars, crsrVars, dpcVars
<1>2. b0 \in Bufs /\ Holds(t) /\ ~ Holds(t)'
    BY <1>1 DEF Holds, ThreadTypeOK
<1>3. At(b0, "hand")
    BY <1>2 DEF At, InHand
<1>4. /\ b0 \notin Elems(freeBufs) /\ b0 \notin ctrlDev /\ b0 \notin Elems(ctrlUsed)
      /\ b0 \notin crsrDev /\ b0 \notin Elems(crsrUsed)
      /\ b0 # dpcBuf /\ b0 \notin lost /\ b0 \notin InQueues
  <2>1. "hand" \in Place
      BY DEF Place
  <2> QED
      BY ZenonT(30), <1>2, <1>3, <2>1, OnlyThere DEF InQueues
<1>5. \A s \in Threads \ {t} : /\ hand'[s] = hand[s] /\ (Holds(s)' <=> Holds(s))
                               /\ Holds(s) => hand[s] # b0
    BY <1>1, <1>2 DEF Holds, ThreadTypeOK, OnePlace, OneHolder
<1>6. \A b \in Bufs : InHand(b)' <=> b # b0 /\ InHand(b)
    BY <1>2, <1>5 DEF InHand
<1>7. Elems(Append(freeBufs, b0)) = Elems(freeBufs) \cup {b0} /\ Distinct(Append(freeBufs, b0))
    BY <1>2, <1>4, ElemsAppend, DistinctAppend DEF PoolTypeOK, OnePlace, NoneTwice
<1>8. Moves({b0}, "free")
  <2> SUFFICES ASSUME NEW b \in Bufs, NEW q \in Place
               PROVE  At(b, q)' <=> IF b = b0 THEN q = "free" ELSE At(b, q)
      BY DEF Moves
  <2>1. /\ Elems(freeBufs)' = Elems(freeBufs) \cup {b0}
        /\ UNCHANGED <<Elems(ctrlUsed), Elems(crsrUsed)>>
      BY <1>1, <1>7
  <2>2. b # b0 => (At(b, q)' <=> At(b, q))
      BY <1>1, <1>6, <2>1 DEF At
  <2>3. b = b0 => (At(b, q)' <=> q = "free")
      BY <1>1, <1>4, <1>6, <2>1 DEF At, Place
  <2> QED
      BY <2>2, <2>3
<1>9. NoneTwice'
    BY <1>1, <1>7 DEF OnePlace, NoneTwice, Distinct
<1>10. OneHolder'
    BY <1>2, <1>5 DEF OnePlace, OneHolder
<1>11. Placed'
  <2>1. "free" \in Place
      BY DEF Place
  <2> QED
      BY <1>8, <2>1, MovesKeepPlaced DEF OnePlace
<1>12. NoStaleEvent'
  <2>1. UNCHANGED InQueues
      BY <1>1 DEF InQueues
  <2>2. ASSUME NEW b \in Bufs, b \in InQueues \/ b = dpcBuf, event[b] # NoThread
        PROVE  pc'[event[b]] = "wait" /\ hand'[event[b]] = b /\ ~ woken[event[b]]
    <3>1. /\ event[b] \in Threads /\ ~ woken[event[b]]
          /\ pc[event[b]] = "wait" /\ hand[event[b]] = b
        BY <2>2 DEF NoStaleEvent, PoolTypeOK
    <3> QED
        BY <1>1, <3>1 DEF ThreadTypeOK
  <2>3. ASSUME NEW s \in Threads
        PROVE  /\ pc'[s] = "ask" => event[hand'[s]] = s /\ ~ woken[s]
               /\ pc'[s] \in {"ctrl", "cursor"} => event[hand'[s]] = NoThread
      BY <1>1 DEF NoStaleEvent, ThreadTypeOK
  <2> QED
      BY <1>1, <2>1, <2>2, <2>3 DEF NoStaleEvent
<1> QED
    BY <1>9, <1>10, <1>11, <1>12 DEF OnePlace

(* A step that touches no thread keeps what the threads hold.              *)
LEMMA HandsFrame ==
    ASSUME Owned, UNCHANGED <<pc, hand, woken>>
    PROVE  (\A b : InHand(b)' <=> InHand(b)) /\ OneHolder'
BY DEF Owned, OnePlace, InHand, Holds, OneHolder

LEMMA CompleteKeepsOwned ==
    ASSUME Owned, NEW b0 \in Bufs, DevCompletes(b0)
    PROVE  OnePlace' /\ NoStaleEvent'
<1> USE DEF Owned, TypeOK
<1>1. /\ UNCHANGED <<freeBufs, lost, event>> /\ UNCHANGED <<pc, hand, woken>>
      /\ UNCHANGED dpcBuf
    BY DEF DevCompletes, poolVars, threadVars, dpcVars
<1>2. (\A b : InHand(b)' <=> InHand(b)) /\ OneHolder'
    BY <1>1, HandsFrame
<1>3. ASSUME NEW p \in Place, Moves({b0}, p), Distinct(ctrlUsed'), Distinct(crsrUsed'),
             InQueues' = InQueues
      PROVE  OnePlace' /\ NoStaleEvent'
  <2>1. Placed'
      BY <1>3, MovesKeepPlaced DEF OnePlace
  <2>2. NoneTwice'
      BY <1>1, <1>3 DEF OnePlace, NoneTwice, Distinct
  <2>3. NoStaleEvent'
      BY <1>1, <1>3 DEF NoStaleEvent
  <2> QED
      BY <1>2, <2>1, <2>2, <2>3 DEF OnePlace
<1>4. CASE Ctrl!Complete(b0) /\ UNCHANGED crsrVars
  <2>1. /\ b0 \in ctrlDev /\ ctrlDev' = ctrlDev \ {b0} /\ ctrlUsed' = Append(ctrlUsed, b0)
        /\ crsrDev' = crsrDev /\ crsrUsed' = crsrUsed
      BY <1>4 DEF Ctrl!Complete, crsrVars
  <2>2. At(b0, "ctrl") /\ "ctrl" \in Place
      BY <2>1 DEF At, Place
  <2>3. /\ b0 \notin Elems(freeBufs) /\ b0 \notin Elems(ctrlUsed) /\ b0 \notin crsrDev
        /\ b0 \notin Elems(crsrUsed) /\ ~ InHand(b0) /\ b0 # dpcBuf /\ b0 \notin lost
      BY ZenonT(30), <2>2, OnlyThere
  <2>4. /\ Elems(Append(ctrlUsed, b0)) = Elems(ctrlUsed) \cup {b0}
        /\ Distinct(Append(ctrlUsed, b0))
      BY <2>3, ElemsAppend, DistinctAppend DEF CtrlTypeOK, OnePlace, NoneTwice
  <2>5. /\ Elems(ctrlUsed)' = Elems(ctrlUsed) \cup {b0}
        /\ UNCHANGED <<Elems(freeBufs), Elems(crsrUsed)>>
      BY <1>1, <2>1, <2>4
  <2>6. ASSUME NEW b \in Bufs, NEW q \in Place
        PROVE  At(b, q)' <=> IF b = b0 THEN q = "ctrl used" ELSE At(b, q)
    <3>1. b # b0 => (At(b, q)' <=> At(b, q))
        BY <1>1, <1>2, <2>1, <2>5 DEF At
    <3>2. b = b0 => (At(b, q)' <=> q = "ctrl used")
        BY <1>1, <1>2, <2>1, <2>3, <2>5 DEF At, Place
    <3> QED
        BY <3>1, <3>2
  <2>7. Moves({b0}, "ctrl used")
      BY <2>6 DEF Moves
  <2>10. "ctrl used" \in Place
      BY DEF Place
  <2>8. InQueues' = InQueues
      BY <2>1, <2>5 DEF InQueues
  <2>9. Distinct(ctrlUsed') /\ Distinct(crsrUsed')
      BY <2>1, <2>4 DEF OnePlace, NoneTwice
  <2> QED
      BY <1>3, <2>7, <2>8, <2>9, <2>10
<1>5. CASE Crsr!Complete(b0) /\ UNCHANGED ctrlVars
  <2>1. /\ b0 \in crsrDev /\ crsrDev' = crsrDev \ {b0} /\ crsrUsed' = Append(crsrUsed, b0)
        /\ ctrlDev' = ctrlDev /\ ctrlUsed' = ctrlUsed
      BY <1>5 DEF Crsr!Complete, ctrlVars
  <2>2. At(b0, "cursor") /\ "cursor" \in Place
      BY <2>1 DEF At, Place
  <2>3. /\ b0 \notin Elems(freeBufs) /\ b0 \notin Elems(crsrUsed) /\ b0 \notin ctrlDev
        /\ b0 \notin Elems(ctrlUsed) /\ ~ InHand(b0) /\ b0 # dpcBuf /\ b0 \notin lost
      BY ZenonT(30), <2>2, OnlyThere
  <2>4. /\ Elems(Append(crsrUsed, b0)) = Elems(crsrUsed) \cup {b0}
        /\ Distinct(Append(crsrUsed, b0))
      BY <2>3, ElemsAppend, DistinctAppend DEF CrsrTypeOK, OnePlace, NoneTwice
  <2>5. /\ Elems(crsrUsed)' = Elems(crsrUsed) \cup {b0}
        /\ UNCHANGED <<Elems(freeBufs), Elems(ctrlUsed)>>
      BY <1>1, <2>1, <2>4
  <2>6. ASSUME NEW b \in Bufs, NEW q \in Place
        PROVE  At(b, q)' <=> IF b = b0 THEN q = "cursor used" ELSE At(b, q)
    <3>1. b # b0 => (At(b, q)' <=> At(b, q))
        BY <1>1, <1>2, <2>1, <2>5 DEF At
    <3>2. b = b0 => (At(b, q)' <=> q = "cursor used")
        BY <1>1, <1>2, <2>1, <2>3, <2>5 DEF At, Place
    <3> QED
        BY <3>1, <3>2
  <2>7. Moves({b0}, "cursor used")
      BY <2>6 DEF Moves
  <2>10. "cursor used" \in Place
      BY DEF Place
  <2>8. InQueues' = InQueues
      BY <2>1, <2>5 DEF InQueues
  <2>9. Distinct(ctrlUsed') /\ Distinct(crsrUsed')
      BY <2>1, <2>4 DEF OnePlace, NoneTwice
  <2> QED
      BY <1>3, <2>7, <2>8, <2>9, <2>10
<1> QED
    BY <1>4, <1>5 DEF DevCompletes

LEMMA TakeKeepsOwned ==
    ASSUME Owned, DpcTakes
    PROVE  OnePlace' /\ NoStaleEvent'
<1> USE DEF Owned, TypeOK
<1>1. /\ UNCHANGED <<freeBufs, lost, event>> /\ UNCHANGED <<pc, hand, woken>>
      /\ dpcBuf = NoBuf
    BY DEF DpcTakes, poolVars, threadVars
<1>2. (\A b : InHand(b)' <=> InHand(b)) /\ OneHolder'
    BY <1>1, HandsFrame
<1>3. ASSUME NEW b0 \in Bufs, Moves({b0}, "dpc"),
             Distinct(ctrlUsed'), Distinct(crsrUsed'),
             InQueues' \subseteq InQueues, b0 \in InQueues, dpcBuf' = b0
      PROVE  OnePlace' /\ NoStaleEvent'
  <2>1. "dpc" \in Place
      BY DEF Place
  <2>2. Placed'
      BY <1>3, <2>1, MovesKeepPlaced DEF OnePlace
  <2>3. NoneTwice'
      BY <1>1, <1>3 DEF OnePlace, NoneTwice, Distinct
  <2>4. NoStaleEvent'
      BY <1>1, <1>3 DEF NoStaleEvent
  <2> QED
      BY <1>2, <2>2, <2>3, <2>4 DEF OnePlace
<1>4. CASE Ctrl!Return /\ dpcBuf' = Head(ctrlUsed) /\ UNCHANGED crsrVars
  <2> DEFINE b0 == Head(ctrlUsed)
  <2>1. /\ ctrlUsed # <<>> /\ ctrlUsed' = Tail(ctrlUsed)
        /\ ctrlDev' = ctrlDev /\ crsrDev' = crsrDev /\ crsrUsed' = crsrUsed
      BY <1>4 DEF Ctrl!Return, crsrVars
  <2>2. /\ b0 \in Elems(ctrlUsed) /\ Elems(Tail(ctrlUsed)) = Elems(ctrlUsed) \ {b0}
        /\ Distinct(Tail(ctrlUsed))
      BY <2>1, TailOfDistinct DEF CtrlTypeOK, OnePlace, NoneTwice
  <2>3. b0 \in Bufs
      BY <2>1 DEF CtrlTypeOK
  <2>4. At(b0, "ctrl used")
      BY <2>2 DEF At
  <2>5. "ctrl used" \in Place
      BY DEF Place
  <2>6. /\ b0 \notin Elems(freeBufs) /\ b0 \notin ctrlDev /\ b0 \notin crsrDev
        /\ b0 \notin Elems(crsrUsed) /\ ~ InHand(b0) /\ b0 \notin lost
      BY ZenonT(30), <2>3, <2>4, <2>5, OnlyThere
  <2>7. /\ Elems(ctrlUsed)' = Elems(ctrlUsed) \ {b0}
        /\ UNCHANGED <<Elems(freeBufs), Elems(crsrUsed)>>
      BY <1>1, <2>1, <2>2
  <2>8. ASSUME NEW b \in Bufs, NEW q \in Place
        PROVE  At(b, q)' <=> IF b = b0 THEN q = "dpc" ELSE At(b, q)
    <3>1. b # b0 => (At(b, q)' <=> At(b, q))
        BY <1>1, <1>2, <1>4, <2>1, <2>7, BufsAssumption DEF At
    <3>2. b = b0 => (At(b, q)' <=> q = "dpc")
        BY <1>1, <1>2, <1>4, <2>1, <2>6, <2>7 DEF At, Place
    <3> QED
        BY <3>1, <3>2
  <2>9. Moves({b0}, "dpc")
      BY <2>8 DEF Moves
  <2>10. InQueues' \subseteq InQueues /\ b0 \in InQueues
      BY <2>1, <2>2, <2>7 DEF InQueues
  <2>11. Distinct(ctrlUsed') /\ Distinct(crsrUsed')
      BY <2>1, <2>2 DEF OnePlace, NoneTwice
  <2> QED
      BY <1>3, <1>4, <2>3, <2>9, <2>10, <2>11
<1>5. CASE Crsr!Return /\ dpcBuf' = Head(crsrUsed) /\ UNCHANGED ctrlVars
  <2> DEFINE b0 == Head(crsrUsed)
  <2>1. /\ crsrUsed # <<>> /\ crsrUsed' = Tail(crsrUsed)
        /\ crsrDev' = crsrDev /\ ctrlDev' = ctrlDev /\ ctrlUsed' = ctrlUsed
      BY <1>5 DEF Crsr!Return, ctrlVars
  <2>2. /\ b0 \in Elems(crsrUsed) /\ Elems(Tail(crsrUsed)) = Elems(crsrUsed) \ {b0}
        /\ Distinct(Tail(crsrUsed))
      BY <2>1, TailOfDistinct DEF CrsrTypeOK, OnePlace, NoneTwice
  <2>3. b0 \in Bufs
      BY <2>1 DEF CrsrTypeOK
  <2>4. At(b0, "cursor used")
      BY <2>2 DEF At
  <2>5. "cursor used" \in Place
      BY DEF Place
  <2>6. /\ b0 \notin Elems(freeBufs) /\ b0 \notin crsrDev /\ b0 \notin ctrlDev
        /\ b0 \notin Elems(ctrlUsed) /\ ~ InHand(b0) /\ b0 \notin lost
      BY ZenonT(30), <2>3, <2>4, <2>5, OnlyThere
  <2>7. /\ Elems(crsrUsed)' = Elems(crsrUsed) \ {b0}
        /\ UNCHANGED <<Elems(freeBufs), Elems(ctrlUsed)>>
      BY <1>1, <2>1, <2>2
  <2>8. ASSUME NEW b \in Bufs, NEW q \in Place
        PROVE  At(b, q)' <=> IF b = b0 THEN q = "dpc" ELSE At(b, q)
    <3>1. b # b0 => (At(b, q)' <=> At(b, q))
        BY <1>1, <1>2, <1>5, <2>1, <2>7, BufsAssumption DEF At
    <3>2. b = b0 => (At(b, q)' <=> q = "dpc")
        BY <1>1, <1>2, <1>5, <2>1, <2>6, <2>7 DEF At, Place
    <3> QED
        BY <3>1, <3>2
  <2>9. Moves({b0}, "dpc")
      BY <2>8 DEF Moves
  <2>10. InQueues' \subseteq InQueues /\ b0 \in InQueues
      BY <2>1, <2>2, <2>7 DEF InQueues
  <2>11. Distinct(crsrUsed') /\ Distinct(ctrlUsed')
      BY <2>1, <2>2 DEF OnePlace, NoneTwice
  <2> QED
      BY <1>3, <1>5, <2>3, <2>9, <2>10, <2>11
<1> QED
    BY <1>4, <1>5 DEF DpcTakes

LEMMA DisposeKeepsOwned ==
    ASSUME Owned, DpcDisposes
    PROVE  OnePlace' /\ NoStaleEvent'
<1> DEFINE b0 == dpcBuf
<1> USE DEF Owned, TypeOK
<1>1. /\ UNCHANGED <<event, lost, pc, hand>>
      /\ UNCHANGED <<ctrlDev, ctrlUsed, crsrDev, crsrUsed>>
      /\ dpcBuf' = NoBuf /\ b0 \in Bufs /\ NoBuf \notin Bufs
    BY BufsAssumption DEF DpcDisposes, ctrlVars, crsrVars, DpcTypeOK
<1>2. At(b0, "dpc")
    BY DEF At
<1>3. /\ b0 \notin Elems(freeBufs) /\ b0 \notin ctrlDev /\ b0 \notin Elems(ctrlUsed)
      /\ b0 \notin crsrDev /\ b0 \notin Elems(crsrUsed)
      /\ ~ InHand(b0) /\ b0 \notin lost /\ b0 \notin InQueues
  <2>1. "dpc" \in Place
      BY DEF Place
  <2> QED
      BY <1>1, <1>2, <2>1, OnlyThere DEF InQueues
<1>4. UNCHANGED <<InQueues, Elems(ctrlUsed), Elems(crsrUsed)>>
    BY <1>1 DEF InQueues
<1>5. CASE dpcPc = "ctrl" /\ event[dpcBuf] # NoThread
  <2>11. PICK t \in Threads : t = event[b0]
      BY <1>1, <1>5 DEF PoolTypeOK
  <2>1. woken' = [woken EXCEPT ![t] = TRUE] /\ freeBufs' = freeBufs
      BY <1>5, <2>11 DEF DpcDisposes
  <2>2. pc[t] = "wait" /\ hand[t] = b0 /\ ~ woken[t]
      BY <1>1, <1>5, <2>11 DEF NoStaleEvent
  <2>3. /\ Holds(t)' /\ ~ Holds(t) /\ hand'[t] = b0
        /\ \A s \in Threads \ {t} : hand'[s] = hand[s] /\ (Holds(s)' <=> Holds(s))
      BY <1>1, <2>1, <2>2 DEF Holds, ThreadTypeOK
  <2>4. \A b \in Bufs : InHand(b)' <=> b = b0 \/ InHand(b)
      BY <2>2, <2>3 DEF InHand
  <2>5. UNCHANGED Elems(freeBufs)
      BY <2>1
  <2>6. ASSUME NEW b \in Bufs, NEW q \in Place
        PROVE  At(b, q)' <=> IF b = b0 THEN q = "hand" ELSE At(b, q)
    <3>1. b # b0 => (At(b, q)' <=> At(b, q))
        BY <1>1, <1>4, <2>4, <2>5 DEF At
    <3>2. b = b0 => (At(b, q)' <=> q = "hand")
        BY <1>1, <1>3, <1>4, <2>4, <2>5 DEF At, Place
    <3> QED
        BY <3>1, <3>2
  <2>7. Placed'
    <3>1. Moves({b0}, "hand")
        BY <2>6 DEF Moves
    <3>2. "hand" \in Place
        BY DEF Place
    <3> QED
        BY <3>1, <3>2, MovesKeepPlaced DEF OnePlace
  <2>8. NoneTwice'
      BY <1>1, <2>1 DEF OnePlace, NoneTwice, Distinct
  <2>9. OneHolder'
      BY <1>3, <2>2, <2>3 DEF OnePlace, OneHolder, InHand
  <2>10. NoStaleEvent'
    <3>1. ASSUME NEW b \in Bufs, b \in InQueues, event[b] # NoThread
          PROVE  pc[event[b]] = "wait" /\ hand[event[b]] = b /\ ~ woken'[event[b]]
      <4>1. /\ event[b] \in Threads /\ ~ woken[event[b]]
            /\ pc[event[b]] = "wait" /\ hand[event[b]] = b
          BY <3>1 DEF NoStaleEvent, PoolTypeOK
      <4>2. event[b] # t
          BY <1>3, <2>2, <3>1, <4>1
      <4> QED
          BY <2>1, <4>1, <4>2 DEF ThreadTypeOK
    <3>2. ASSUME NEW s \in Threads
          PROVE  /\ pc[s] = "ask" => event[hand[s]] = s /\ ~ woken'[s]
                 /\ pc[s] \in {"ctrl", "cursor"} => event[hand[s]] = NoThread
        BY <2>1, <2>2 DEF NoStaleEvent, ThreadTypeOK
    <3> QED
        BY <1>1, <1>4, <3>1, <3>2 DEF NoStaleEvent
  <2> QED
      BY <2>7, <2>8, <2>9, <2>10 DEF OnePlace
<1>6. CASE ~ (dpcPc = "ctrl" /\ event[dpcBuf] # NoThread)
  <2>1. freeBufs' = Append(freeBufs, b0) /\ woken' = woken
      BY <1>6 DEF DpcDisposes, FreeBuf
  <2>2. (\A b : InHand(b)' <=> InHand(b)) /\ OneHolder'
      BY <1>1, <2>1, HandsFrame
  <2>3. /\ Elems(Append(freeBufs, b0)) = Elems(freeBufs) \cup {b0}
        /\ Distinct(Append(freeBufs, b0))
      BY <1>1, <1>3, ElemsAppend, DistinctAppend DEF PoolTypeOK, OnePlace, NoneTwice
  <2>4. Elems(freeBufs)' = Elems(freeBufs) \cup {b0}
      BY <2>1, <2>3
  <2>5. ASSUME NEW b \in Bufs, NEW q \in Place
        PROVE  At(b, q)' <=> IF b = b0 THEN q = "free" ELSE At(b, q)
    <3>1. b # b0 => (At(b, q)' <=> At(b, q))
        BY <1>1, <1>4, <2>2, <2>4 DEF At
    <3>2. b = b0 => (At(b, q)' <=> q = "free")
        BY <1>1, <1>3, <1>4, <2>2, <2>4 DEF At, Place
    <3> QED
        BY <3>1, <3>2
  <2>6. Placed'
    <3>1. Moves({b0}, "free")
        BY <2>5 DEF Moves
    <3>2. "free" \in Place
        BY DEF Place
    <3> QED
        BY <3>1, <3>2, MovesKeepPlaced DEF OnePlace
  <2>7. NoneTwice'
      BY <1>1, <2>1, <2>3 DEF OnePlace, NoneTwice, Distinct
  <2>8. NoStaleEvent'
      BY <1>1, <1>4, <2>1 DEF NoStaleEvent
  <2> QED
      BY <2>2, <2>6, <2>7, <2>8 DEF OnePlace
<1> QED
    BY <1>5, <1>6

(* CloseEnds and InitEnds: the device and the queues forget everything.     *)
LEMMA ForgetKeepsOwned ==
    ASSUME Owned, ForgetQueues, UNCHANGED <<freeBufs, event, threadVars, dpcVars>>
    PROVE  OnePlace' /\ NoStaleEvent'
<1> USE DEF Owned, TypeOK
<1>1. /\ UNCHANGED <<freeBufs, event, dpcBuf>> /\ UNCHANGED <<pc, hand, woken>>
      /\ ctrlDev' = {} /\ ctrlUsed' = <<>> /\ crsrDev' = {} /\ crsrUsed' = <<>>
      /\ lost' = lost \cup InQueues
    BY DEF ForgetQueues, Ctrl!Forget, Crsr!Forget, threadVars, dpcVars
<1>2. (\A b : InHand(b)' <=> InHand(b)) /\ OneHolder'
    BY <1>1, HandsFrame
<1>3. Elems(<<>>) = {} /\ Distinct(<<>>)
    BY DEF Elems, Distinct
<1>4. /\ Elems(ctrlUsed)' = {} /\ Elems(crsrUsed)' = {} /\ InQueues' = {}
      /\ UNCHANGED Elems(freeBufs)
    BY <1>1, <1>3 DEF InQueues
<1>5. ASSUME NEW b \in Bufs, NEW q \in Place
      PROVE  At(b, q)' <=> IF b \in InQueues THEN q = "lost" ELSE At(b, q)
  <2>1. b \notin InQueues => (At(b, q)' <=> At(b, q))
      BY <1>1, <1>2, <1>4 DEF At, InQueues
  <2>2. b \in InQueues => b \notin Elems(freeBufs) /\ ~ InHand(b) /\ b # dpcBuf
    <3>1. SUFFICES ASSUME NEW p \in {"ctrl", "ctrl used", "cursor", "cursor used"},
                          At(b, p)
                   PROVE  b \notin Elems(freeBufs) /\ ~ InHand(b) /\ b # dpcBuf
        BY DEF At, InQueues
    <3>2. p \in Place
        BY DEF Place
    <3> QED
        BY <3>1, <3>2, OnlyThere
  <2>3. b \in InQueues => (At(b, q)' <=> q = "lost")
      BY <1>1, <1>2, <1>4, <2>2 DEF At, Place
  <2> QED
      BY <2>1, <2>3
<1>6. Placed'
  <2>1. Moves(InQueues, "lost")
      BY <1>5 DEF Moves
  <2>2. "lost" \in Place
      BY DEF Place
  <2> QED
      BY <2>1, <2>2, MovesKeepPlaced DEF OnePlace
<1>7. NoneTwice'
    BY <1>1, <1>3 DEF OnePlace, NoneTwice, Distinct
<1>8. NoStaleEvent'
  <2>1. ASSUME NEW b \in Bufs, b = dpcBuf, event[b] # NoThread
        PROVE  pc[event[b]] = "wait" /\ hand[event[b]] = b /\ ~ woken[event[b]]
      BY <2>1 DEF NoStaleEvent
  <2> QED
      BY <1>1, <1>4, <2>1 DEF NoStaleEvent
<1> QED
    BY <1>2, <1>6, <1>7, <1>8 DEF OnePlace

(* The steps in the order of Next.                                         *)
LEMMA OwnedStep ==
    ASSUME Owned, Next
    PROVE  OnePlace' /\ NoStaleEvent'
<1>1. CASE \E t \in Threads : Issues(t)
  <2>1. PICK t \in Threads : Issues(t)
      BY <1>1
  <2>2. CASE \E kind \in {"ctrl", "ask", "cursor"} : AllocBuf(t, kind)
      BY <2>2, AllocKeepsOwned
  <2>3. CASE (\E kind \in {"ctrl", "ask", "cursor"} : AllocNothing(t, kind)) \/ QueueNothing(t)
      BY <2>3, CrashKeepsOwned DEF AllocNothing, QueueNothing
  <2>4. CASE QueueBuffer(t) \/ QueueCursor(t)
      BY <2>4, QueueKeepsOwned
  <2>5. CASE AskReturns(t)
      BY <2>5, ReturnKeepsOwned
  <2> QED
      BY <2>1, <2>2, <2>3, <2>4, <2>5 DEF Issues
<1>2. CASE WorkerStep
  <2>1. CASE WorkerFaults
      BY <2>1, CrashKeepsOwned DEF WorkerFaults
  <2>2. CASE WorkerWakes
    <3>1. UNCHANGED placeVars
        BY <2>2 DEF WorkerWakes, placeVars, poolVars, ctrlVars, crsrVars, dpcVars
    <3>2. ASSUME NEW t \in Threads
          PROVE  pc'[t] = pc[t] \/ (pc[t] \in Resting /\ pc'[t] \in Resting)
        BY <2>2 DEF WorkerWakes, Owned, TypeOK, ThreadTypeOK, Resting
    <3> QED
        BY <3>1, <3>2, PlacesFrame
  <2>3. CASE WorkerClears
    <3>1. UNCHANGED placeVars
        BY <2>3 DEF WorkerClears, placeVars, poolVars, ctrlVars, crsrVars, dpcVars
    <3>2. ASSUME NEW t \in Threads
          PROVE  pc'[t] = pc[t] \/ (pc[t] \in Resting /\ pc'[t] \in Resting)
        BY <2>3 DEF WorkerClears, Owned, TypeOK, ThreadTypeOK, Resting
    <3> QED
        BY <3>1, <3>2, PlacesFrame
  <2> QED
      BY <1>2, <2>1, <2>2, <2>3 DEF WorkerStep
<1>3. CASE DeviceStep
  <2>1. CASE \E b \in Bufs : DevCompletes(b)
      BY <2>1, CompleteKeepsOwned
  <2>2. CASE DevInterrupts \/ DevConfigChanges
      BY <2>2, ThreadsStandStill
         DEF DevInterrupts, DevConfigChanges, placeVars, poolVars, ctrlVars, crsrVars,
             threadVars, dpcVars
  <2> QED
      BY <1>3, <2>1, <2>2 DEF DeviceStep
<1>4. CASE IsrStep
  <2>1. CASE IsrFaults
      BY <2>1, CrashKeepsOwned DEF IsrFaults
  <2>2. CASE IsrReads \/ IsrOrs \/ IsrQueuesDpc
      BY <2>2, ThreadsStandStill
         DEF IsrReads, IsrOrs, IsrQueuesDpc, placeVars, poolVars, ctrlVars, crsrVars,
             threadVars, dpcVars
  <2> QED
      BY <1>4, <2>1, <2>2 DEF IsrStep
<1>5. CASE DpcStep
  <2>1. CASE DpcFaults
      BY <2>1, CrashKeepsOwned DEF DpcFaults
  <2>2. CASE DpcTakes
      BY <2>2, TakeKeepsOwned
  <2>3. CASE DpcDisposes
      BY <2>3, DisposeKeepsOwned
  <2>4. CASE DpcStarts \/ DpcExchanges \/ DpcGoesOn \/ DpcSignals
      BY <2>4, ThreadsStandStill
         DEF DpcStarts, DpcExchanges, DpcGoesOn, DpcSignals, placeVars, poolVars,
             ctrlVars, crsrVars, threadVars, dpcVars
  <2> QED
      BY <1>5, <2>1, <2>2, <2>3, <2>4 DEF DpcStep
<1>6. CASE CloseBegins \/ InitStep
  <2>1. CASE CloseEnds \/ InitEnds
      BY <2>1, ForgetKeepsOwned DEF CloseEnds, InitEnds
  <2>2. CASE CloseBegins \/ InitBegins \/ HwCloseStops \/ HwCloseJoins
      BY <2>2, ThreadsStandStill
         DEF CloseBegins, InitBegins, HwCloseStops, HwCloseJoins, placeVars, poolVars,
             ctrlVars, crsrVars, threadVars, dpcVars
  <2> QED
      BY <1>6, <2>1, <2>2 DEF InitStep
<1> QED
    BY <1>1, <1>2, <1>3, <1>4, <1>5, <1>6 DEF Next

LEMMA InitOwned == Init => OnePlace /\ NoStaleEvent
<1> SUFFICES ASSUME Init
             PROVE  OnePlace /\ NoStaleEvent
    OBVIOUS
<1>1. /\ Elems(freeBufs) = Bufs /\ Distinct(freeBufs)
      /\ ctrlDev = {} /\ ctrlUsed = <<>> /\ crsrDev = {} /\ crsrUsed = <<>>
      /\ lost = {} /\ dpcBuf = NoBuf
      /\ event = [b \in Bufs |-> NoThread] /\ pc = [t \in Threads |-> "idle"]
    BY DEF Init, Ctrl!QInit, Crsr!QInit, Distinct
<1>2. Elems(<<>>) = {} /\ Distinct(<<>>)
    BY DEF Elems, Distinct
<1>3. Elems(ctrlUsed) = {} /\ Elems(crsrUsed) = {}
    BY <1>1, <1>2
<1>4. \A t \in Threads : ~ Holds(t)
    BY <1>1 DEF Holds
<1>5. NoneTwice
    BY <1>1, <1>2 DEF NoneTwice
<1>6. OneHolder
    BY <1>4 DEF OneHolder
<1>7. Placed
  <2>1. ASSUME NEW b \in Bufs, NEW q \in Place
        PROVE  At(b, q) <=> q = "free"
      BY <1>1, <1>3, <1>4, BufsAssumption DEF At, Place, InHand
  <2>2. "free" \in Place
      BY DEF Place
  <2> QED
      BY <2>1, <2>2 DEF Placed
<1>8. NoStaleEvent
    BY <1>1 DEF NoStaleEvent
<1> QED
    BY <1>5, <1>6, <1>7, <1>8 DEF OnePlace

LEMMA OwnedInvariant == Spec => []Owned
<1>1. Init => Owned
    BY InitType, InitOwned DEF Owned
<1>2. Owned /\ [Next]_vars => Owned'
  <2>1. ASSUME Owned, Next
        PROVE  Owned'
      BY <2>1, OwnedStep, TypeStep DEF Owned
  <2>2. ASSUME Owned, UNCHANGED vars
        PROVE  Owned'
    <3>1. TypeOK'
        BY <2>2, TypeStutter DEF Owned
    <3>2. UNCHANGED placeVars /\ UNCHANGED pc
        BY <2>2 DEF vars, placeVars, poolVars, ctrlVars, crsrVars, threadVars, dpcVars
    <3> QED
        BY <2>2, <3>1, <3>2, ThreadsStandStill DEF Owned
  <2> QED
      BY <2>1, <2>2
<1> QED
    BY <1>1, <1>2, PTL DEF Spec

(* Every vbuf is in exactly one place at any time, whatever the numbers of  *)
(* vbufs, threads and descriptors: OnePlace of GpuCommand.                  *)
THEOREM OwnershipCorrect == Spec => []OnePlace
<1>1. Owned => OnePlace
    BY DEF Owned
<1> QED
    BY <1>1, OwnedInvariant, PTL

(* KeSetEvent in the DPC always finds the asking thread still waiting:      *)
(* NoStaleEvent of GpuCommand.                                             *)
THEOREM EventsCorrect == Spec => []NoStaleEvent
<1>1. Owned => NoStaleEvent
    BY DEF Owned
<1> QED
    BY <1>1, OwnedInvariant, PTL

-----------------------------------------------------------------------------
(* Completions.  DISPLAY and CURSOR stand for the two queues; the DPC looks *)
(* at the cursor queue after the control queue.                            *)
Serving(w) ==
    \/ w = "DISPLAY" /\ dpcPc = "ctrl" /\ "DISPLAY" \in reason
    \/ w = "CURSOR" /\ dpcPc \in {"ctrl", "cursor"} /\ "CURSOR" \in reason

UsedOf(w) == IF w = "DISPLAY" THEN ctrlUsed ELSE crsrUsed

Accounted(w) == UsedOf(w) # <<>> => OnTheWay(w) \/ Serving(w)
AllAccounted == hwInit /\ ~ swallowed => Accounted("DISPLAY") /\ Accounted("CURSOR")

wayVars == <<owed, isr, isrWork, isrDpc, pending, dpcQueued, dpcPc, reason>>

(* What OnTheWay and Serving look at is unchanged, and nothing was posted.  *)
LEMMA WayFrame ==
    ASSUME NEW w, Accounted(w), UNCHANGED wayVars, UsedOf(w)' # <<>> => UsedOf(w) # <<>>
    PROVE  Accounted(w)'
    BY DEF Accounted, wayVars, OnTheWay, Serving

(* The threads, the worker and a closing device post nothing.              *)
LEMMA OthersKeepAccounted ==
    ASSUME AllAccounted, Next, ~ DeviceStep, ~ IsrStep, ~ DpcStep
    PROVE  AllAccounted'
<1>1. CASE CloseEnds \/ InitEnds
    BY <1>1 DEF CloseEnds, InitEnds, ForgetQueues, Ctrl!Forget, Crsr!Forget,
       AllAccounted, Accounted, UsedOf
<1>2. CASE hwInit' = FALSE
    BY <1>2 DEF AllAccounted
<1>3. CASE UNCHANGED <<wayVars, ctrlUsed, crsrUsed, hwInit, swallowed>>
    BY <1>3, WayFrame DEF AllAccounted, UsedOf
<1>4. ASSUME NEW t \in Threads, Issues(t)
      PROVE  UNCHANGED <<wayVars, ctrlUsed, crsrUsed, hwInit, swallowed>>
    BY <1>4 DEF Issues, AllocBuf, AllocNothing, QueueBuffer, QueueCursor, QueueNothing,
       Queued, AskReturns, Crash, Ctrl!Submit, Crsr!Submit, wayVars, ctrlVars, crsrVars,
       deviceVars, isrVars, dpcVars, stateVars
<1>5. WorkerStep => UNCHANGED <<wayVars, ctrlUsed, crsrUsed, hwInit, swallowed>>
    BY DEF WorkerStep, WorkerWakes, WorkerClears, WorkerFaults, Crash, wayVars, ctrlVars,
       crsrVars, deviceVars, isrVars, dpcVars, stateVars
<1>6. CloseBegins \/ HwCloseStops => hwInit' = FALSE
    BY DEF CloseBegins, HwCloseStops
<1>7. InitBegins \/ HwCloseJoins => UNCHANGED <<wayVars, ctrlUsed, crsrUsed, hwInit, swallowed>>
    BY DEF InitBegins, HwCloseJoins, wayVars, ctrlVars, crsrVars, deviceVars, isrVars, dpcVars
<1> QED
    BY <1>1, <1>2, <1>3, <1>4, <1>5, <1>6, <1>7 DEF Next, InitStep

(* A completion that is posted owes an interrupt.                          *)
LEMMA DeviceKeepsAccounted ==
    ASSUME AllAccounted, DeviceStep
    PROVE  AllAccounted'
<1>1. ASSUME NEW b \in Bufs, DevCompletes(b)
      PROVE  AllAccounted'
    BY <1>1 DEF DevCompletes, AllAccounted, Accounted, OnTheWay
<1>2. CASE DevInterrupts
    BY <1>2 DEF DevInterrupts, AllAccounted, Accounted, UsedOf, OnTheWay, Serving,
       ctrlVars, crsrVars, dpcVars, isrVars, stateVars
<1>3. CASE DevConfigChanges
    BY <1>3 DEF DevConfigChanges, AllAccounted, Accounted, UsedOf, OnTheWay, Serving,
       ctrlVars, crsrVars, dpcVars, isrVars, stateVars
<1> QED
    BY <1>1, <1>2, <1>3 DEF DeviceStep

(* The interrupt routine drops nothing it does not write down in swallowed. *)
LEMMA IsrKeepsAccounted ==
    ASSUME TypeOK, AllAccounted, IsrStep
    PROVE  AllAccounted'
<1>1. CASE IsrReads
  <2>1. /\ UNCHANGED <<ctrlUsed, crsrUsed, hwInit, dpcPc, reason>>
        /\ UNCHANGED <<owed, isrDpc, pending, dpcQueued>>
      BY <1>1 DEF IsrReads, ctrlVars, crsrVars, dpcVars, stateVars
  <2>2. CASE isr = {"queue"}
    <3>1. isrWork' = {"DISPLAY", "CURSOR"}
        BY <1>1, <2>2 DEF IsrReads, WorkOf
    <3> QED
        BY <3>1 DEF AllAccounted, Accounted, OnTheWay
  <2>3. CASE "queue" \in isr /\ isr # {"queue"}
      BY <1>1, <2>3, <2>1 DEF IsrReads, Unreaped, AllAccounted, Accounted, UsedOf
  <2>4. CASE "queue" \notin isr
    <3>1. ~ swallowed' => ~ swallowed
        BY <1>1, <2>4 DEF IsrReads
    <3>2. isrWork = {} /\ ~ isrDpc
        BY <1>1 DEF IsrReads
    <3>3. ASSUME NEW w \in {"DISPLAY", "CURSOR"}, Accounted(w)
          PROVE  Accounted(w)'
        BY <2>1, <2>4, <3>2, <3>3 DEF Accounted, UsedOf, OnTheWay, Serving
    <3> QED
        BY <2>1, <3>1, <3>3 DEF AllAccounted
  <2> QED
      BY <2>2, <2>3, <2>4
<1>2. CASE IsrFaults
    BY <1>2, WayFrame DEF IsrFaults, Crash, AllAccounted, UsedOf, wayVars, ctrlVars, crsrVars,
       deviceVars, isrVars, dpcVars, stateVars
<1>3. CASE IsrOrs
    BY <1>3 DEF IsrOrs, AllAccounted, Accounted, UsedOf, OnTheWay, Serving, ctrlVars, crsrVars,
       deviceVars, dpcVars, stateVars
<1>4. CASE IsrQueuesDpc
    BY <1>4 DEF IsrQueuesDpc, AllAccounted, Accounted, UsedOf, OnTheWay, Serving, ctrlVars,
       crsrVars, deviceVars, stateVars
<1> QED
    BY <1>1, <1>2, <1>3, <1>4 DEF IsrStep

(* The DPC takes the works before it looks at the rings, and leaves a ring   *)
(* only when it is empty.                                                  *)
LEMMA DpcKeepsAccounted ==
    ASSUME TypeOK, AllAccounted, DpcStep
    PROVE  AllAccounted'
<1> USE DEF AllAccounted, Accounted, UsedOf, OnTheWay, Serving, ctrlVars, crsrVars,
            deviceVars, isrVars, stateVars
<1>1. CASE DpcStarts
    BY <1>1 DEF DpcStarts
<1>2. CASE DpcExchanges
    BY <1>2 DEF DpcExchanges
<1>3. CASE DpcTakes
    BY <1>3 DEF DpcTakes, Ctrl!Return, Crsr!Return
<1>4. CASE DpcDisposes
    BY <1>4 DEF DpcDisposes
<1>5. CASE DpcGoesOn
    BY <1>5 DEF DpcGoesOn
<1>6. CASE DpcSignals
    BY <1>6 DEF DpcSignals
<1>7. CASE DpcFaults
    BY <1>7 DEF DpcFaults, Crash, dpcVars
<1> QED
    BY <1>1, <1>2, <1>3, <1>4, <1>5, <1>6, <1>7 DEF DpcStep

(* No wakeup is lost between the interrupt routine, m_PendingWorks and the   *)
(* DPC: CompletionAccounted of GpuCommand.                                  *)
THEOREM CompletionsCorrect == Spec => []CompletionAccounted
<1>1. Init => AllAccounted
    BY DEF Init, Ctrl!QInit, Crsr!QInit, AllAccounted, Accounted, UsedOf
<1>2. TypeOK /\ AllAccounted /\ [Next]_vars => AllAccounted'
  <2>1. ASSUME TypeOK, AllAccounted, Next
        PROVE  AllAccounted'
      BY <2>1, OthersKeepAccounted, DeviceKeepsAccounted, IsrKeepsAccounted, DpcKeepsAccounted
  <2>2. ASSUME AllAccounted, UNCHANGED vars
        PROVE  AllAccounted'
      BY <2>2, WayFrame DEF vars, wayVars, ctrlVars, crsrVars, deviceVars, isrVars, dpcVars,
         stateVars, AllAccounted, UsedOf
  <2> QED
      BY <2>1, <2>2
<1>3. AllAccounted => CompletionAccounted
    BY DEF AllAccounted, Accounted, UsedOf, Serving, CompletionAccounted
<1> QED
    BY <1>1, <1>2, <1>3, TypeCorrect, PTL DEF Spec

=============================================================================
