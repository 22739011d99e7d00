---------------------------- MODULE GpuResources ----------------------------
(***************************************************************************)
(* The two host resources of the display driver, the frame buffer of the    *)
(* one scanout and the cursor image: their ids (VioGpuIdr), the memory that  *)
(* backs them (VioGpuObj) and the commands that make, show and drop them on  *)
(* the host (GpuDevice in viogpudo.cpp, CtrlQueue in viogpu_queue.cpp).      *)
(* The driver never waits for these commands: the host works them off in    *)
(* order, later, while the driver already frees memory and reuses ids.  A    *)
(* call of dxgkrnl runs alone; what it queues is taken (GpuCommand has the   *)
(* refused command).                                                       *)
(***************************************************************************)
EXTENDS Integers, Sequences, FiniteSets

CONSTANTS
    MaxId,          (* the last bit of the id bitmap                        *)
    Modes,          (* geometries of a frame buffer                         *)
    Pointer,        (* the geometry of a cursor image                       *)
    Blocks, NoBlock,    (* memory for the objects; a NULL pointer           *)
    NoObj,          (* a NULL m_pFrameBuf or m_pCursorBuf                   *)
    Bytes,          (* the size of each geometry                           *)
    Outcomes,       (* SUBSET of Results: how allocations may turn out      *)
    CtrlBound, CrsrBound,   (* bounds on the commands under way             *)
    PowerCycles     (* dxgkrnl takes the adapter to D3 and back             *)

Results == {"done", "no memory", "no lock", "no entries"}
Ids == 0 .. MaxId
NoId == MaxId + 1   (* RtlFindClearBitsAndSet found none: 0xFFFFFFFF        *)
Obj == [id : Ids \cup {NoId}, block : Blocks, mode : Modes \cup {Pointer}]

ASSUME MaxIdAssumption == MaxId \in Nat /\ MaxId >= 2     (* 8 * PAGE_SIZE - 1 *)
ASSUME NullAssumption ==
    NoObj \notin Obj \cup Modes \cup {Pointer} /\ NoBlock \notin Blocks
ASSUME BytesAssumption == \A m \in Modes \cup {Pointer} : Bytes[m] \in Nat \ {0}
ASSUME OutcomesAssumption == Outcomes \subseteq Results
ASSUME BoundAssumption == CtrlBound \in Nat /\ CrsrBound \in Nat
ASSUME PowerCyclesAssumption == PowerCycles \in BOOLEAN

VARIABLES
    idr,            (* the set bits of m_IdBitMap                           *)
    frameBuf,       (* m_pFrameBuf                                          *)
    cursorBuf,      (* m_pCursorBuf                                         *)
    fbPtr,          (* FrameBuffer.Ptr of m_CurrentModes[0]                 *)
    fbActive,       (* its FrameBufferIsActive                              *)
    visible,        (* not its SourceNotVisible                             *)
    power,          (* the state dxgkrnl set last, "gone" after ~GpuDevice  *)
    adapterPower,   (* m_AdapterPowerState                                  *)
    ctrlQ, crsrQ,   (* commands the host has not worked off                 *)
    host,           (* the host's resources, scanout, and refusals          *)
    committed, shaped,  (* what dxgkrnl did before: a mode, a cursor shape   *)
    leaked,         (* history: ids that were taken and given to no object   *)
    stale,          (* history: objects older than the last device reset    *)
    failed,         (* history: what failed, "no", "other" or (ever) "lock"  *)
    mdls,           (* blocks whose MDL is allocated                        *)
    freedTwice,     (* history: an MDL was freed that was free              *)
    wasReset,       (* history: the device was reset                        *)
    blue,           (* SystemDisplayEnable: "no", or its result             *)
    fault           (* a NULL object or a bit outside the bitmap was used   *)

mdlVars == <<mdls, freedTwice>>
objVars == <<idr, frameBuf, cursorBuf, leaked, failed, mdlVars>>
modeVars == <<fbPtr, fbActive, visible>>
powerVars == <<power, adapterPower, wasReset, stale>>
askedVars == <<committed, shaped>>
vars == <<objVars, modeVars, powerVars, askedVars, ctrlQ, crsrQ, host, blue, fault>>

-----------------------------------------------------------------------------
(* The host (outside the repository).                                      *)

HostIds == Ids \cup {NoId}
NoResource == [mode |-> NoObj, block |-> NoBlock]
EmptyHost == [res |-> [i \in HostIds |-> NoResource], scanout |-> 0,
              filled |-> {}, refused |-> FALSE]

Known(h, i) == h.res[i] # NoResource
Refuse(h) == [h EXCEPT !.refused = TRUE]

(* The host after a command.                                               *)
HostAfter(h, c) ==
    LET i == c[2]
    IN  IF c[1] = "create"
        THEN IF Known(h, i) \/ i = 0 THEN Refuse(h)
             ELSE [h EXCEPT !.res[i] = [mode |-> c[3], block |-> NoBlock]]
        ELSE IF ~ Known(h, i) THEN Refuse(h)
        ELSE CASE c[1] = "attach" ->
               IF h.res[i].block # NoBlock THEN Refuse(h)
               ELSE [h EXCEPT !.res[i].block = c[3]]
          [] c[1] = "detach" ->
               IF h.res[i].block = NoBlock THEN Refuse(h)
               ELSE [h EXCEPT !.res[i].block = NoBlock]
          [] c[1] = "unref" ->
               [h EXCEPT !.res[i] = NoResource, !.filled = @ \ {i},
                         !.scanout = IF @ = i THEN 0 ELSE @]
          [] c[1] = "scanout" -> [h EXCEPT !.scanout = i]
          [] c[1] = "transfer" ->
               IF h.res[i].block = NoBlock THEN Refuse(h)
               ELSE [h EXCEPT !.filled = @ \cup {i}]
          [] c[1] = "flush" -> h

-----------------------------------------------------------------------------
(* Ids, memory and commands.                                               *)

Running == ~ fault /\ blue = "no" /\ power = "D0"
Room == Len(ctrlQ) <= CtrlBound

(* VioGpuIdr::GetId: the first clear bit.                                  *)
FirstFree(bits) ==
    IF Ids \subseteq bits THEN NoId
    ELSE CHOOSE i \in Ids \ bits : \A j \in Ids \ bits : i <= j

(* Deviation: PutId is forgotten.                                          *)
WithoutIdKept(o) == idr

(* VioGpuIdr::PutId, of the id of a destroyed object.                      *)
WithoutId(o) == IF o = NoObj THEN idr ELSE idr \ {o.id}

(* The commands, <<name, resource, argument>>, of CtrlQueue and CrsrQueue.    *)
CreateResource(i, mode) == <<"create", i, mode>>
AttachBacking(i, block) == <<"attach", i, block>>
InvalBacking(i) == <<"detach", i, NoBlock>>
UnrefResource(i) == <<"unref", i, NoBlock>>
SetScanout(i) == <<"scanout", i, NoBlock>>
TransferToHost2D(i) == <<"transfer", i, NoBlock>>
ResFlush(i) == <<"flush", i, NoBlock>>
UpdateCursor(i) == <<"update", i>>
MoveCursor(i) == <<"move", i>>

Live == {o.block : o \in {frameBuf, cursorBuf} \ {NoObj}}

(* Deviations: the resource is only dropped; it is dropped before its        *)
(* backing is detached.                                                    *)
DropCommandsUnref(o) ==
    IF o = NoObj THEN <<>> ELSE <<UnrefResource(o.id)>>

DropCommandsSwapped(o) ==
    IF o = NoObj THEN <<>> ELSE <<UnrefResource(o.id), InvalBacking(o.id)>>

(* What DestroyFrameBuffer and DestroyCursor queue.                        *)
DropCommands(o) ==
    IF o = NoObj THEN <<>> ELSE <<InvalBacking(o.id), UnrefResource(o.id)>>

(* Deviation: the backing is attached before there is a resource.           *)
MakeCommandsSwapped(i, mode, block, result) ==
    (IF result = "done" THEN <<AttachBacking(i, block)>> ELSE <<>>) \o <<CreateResource(i, mode)>>

(* What CreateFrameBuffer and CreateCursor queue up to GpuObjectAttach.     *)
MakeCommands(i, mode, block, result) ==
    <<CreateResource(i, mode)>> \o (IF result = "done" THEN <<AttachBacking(i, block)>> ELSE <<>>)

(* VioGpuObj::Init and Close.  Where the pages cannot be locked Init frees     *)
(* the MDL, and Close, which finds m_pMdl set, frees it again.               *)
Initialised(result) == result \in {"done", "no entries"}
FailedAfter(result) ==
    IF result = "no lock" \/ failed = "lock" THEN "lock"
    ELSE IF result # "done" THEN "other" ELSE failed

(* Deviation: Close forgets the MDL.                                        *)
ClosedKept(o) == mdls
Closed(o) == IF o = NoObj THEN mdls ELSE mdls \ {o.block}

InitObj(old, block, result, kept) ==
    /\ mdls' = IF kept THEN Closed(old) \cup {block} ELSE Closed(old)
    /\ freedTwice' = (freedTwice \/ result = "no lock")

(* QueueBuffer of an AttachBacking: the command, a descriptor for each page of *)
(* its entries, one entry per page of the object, and the response.         *)
Pages(bytes) == (bytes + 4095) \div 4096
MemEntrySize == 16
Descriptors(o) == 1 + Pages(MemEntrySize * Pages(Bytes[o.mode])) + 1

(* PutId with an id that is no bit of the map.                             *)
Corrupts(o) == o # NoObj /\ o.id = NoId

Crash ==
    /\ fault' = TRUE
    /\ UNCHANGED <<objVars, modeVars, powerVars, askedVars, ctrlQ, crsrQ, host, blue>>

Init ==
    /\ idr = {0} /\ frameBuf = NoObj /\ cursorBuf = NoObj /\ leaked = {}
    /\ failed = "no" /\ mdls = {} /\ freedTwice = FALSE
    /\ fbPtr = NoBlock /\ fbActive = FALSE /\ visible = TRUE
    /\ power = "D0" /\ adapterPower = "D0" /\ wasReset = FALSE /\ stale = {}
    /\ committed = FALSE /\ shaped = FALSE
    /\ ctrlQ = <<>> /\ crsrQ = <<>> /\ host = EmptyHost
    /\ blue = "no" /\ fault = FALSE

-----------------------------------------------------------------------------
(* Calls of dxgkrnl.                                                       *)

(* Deviation: FrameBufferIsActive is not cleared first.                     *)
ActiveAfterKept(result) == fbActive \/ Initialised(result)

(* The frame buffer in CURRENT_BDD_MODE after SetCurrentMode.               *)
PtrAfter(block, result) == IF Initialised(result) THEN block ELSE fbPtr
ActiveAfter(result) == Initialised(result)

(* CommitVidPn that finds the mode: SetCurrentMode destroys the frame       *)
(* buffer and creates one.  GpuObjectAttach is what gives the object its id, *)
(* and its failure is not looked at.                                       *)
SetCurrentMode(mode, block, result) ==
    LET kept == WithoutId(frameBuf)
        i == FirstFree(kept)
    IN  /\ Running /\ Room
        /\ ~ Corrupts(frameBuf)
        /\ block \notin Live \/ (frameBuf # NoObj /\ block = frameBuf.block)
        /\ idr' = kept \cup ({i} \cap Ids)
        /\ frameBuf' = IF Initialised(result)
                       THEN [id |-> IF result = "done" THEN i ELSE 0,
                             block |-> block, mode |-> mode]
                       ELSE NoObj
        /\ InitObj(frameBuf, block, result, Initialised(result))
        /\ leaked' = leaked \cup IF result = "done" THEN {} ELSE {i}
        /\ failed' = FailedAfter(result)
        /\ ctrlQ' = ctrlQ \o DropCommands(frameBuf)
                      \o MakeCommands(i, mode, block, result)
                      \o IF Initialised(result)
                         THEN <<SetScanout(i), TransferToHost2D(i), ResFlush(i)>>
                         ELSE <<>>
        /\ fbPtr' = PtrAfter(block, result)
        /\ fbActive' = ActiveAfter(result)
        /\ stale' = stale \ {"frame"}
        /\ committed' = TRUE
        /\ UNCHANGED <<cursorBuf, visible, power, adapterPower, wasReset, shaped,
                       crsrQ, host, blue, fault>>

(* SetPointerShape: the old cursor is destroyed, a new one created; an      *)
(* invalid colour is noticed after the object was attached.                *)
SetPointerShape(block, result, colour) ==
    LET kept == WithoutId(cursorBuf)
        i == FirstFree(kept)
        ok == result = "done"
    IN  /\ Running /\ Room /\ Len(crsrQ) < CrsrBound
        /\ ~ Corrupts(cursorBuf)
        /\ block \notin Live \/ (cursorBuf # NoObj /\ block = cursorBuf.block)
        /\ idr' = kept \cup ({i} \cap Ids)
        /\ cursorBuf' = IF ok THEN [id |-> i, block |-> block, mode |-> Pointer] ELSE NoObj
        /\ leaked' = leaked \cup IF ok THEN {} ELSE {i}
        /\ failed' = FailedAfter(result)
        /\ InitObj(cursorBuf, block, result, ok)
        /\ ctrlQ' = ctrlQ \o DropCommands(cursorBuf)
                      \o MakeCommands(i, Pointer, block, result)
                      \o IF ok /\ colour THEN <<TransferToHost2D(i)>> ELSE <<>>
        /\ crsrQ' = IF ok /\ colour THEN Append(crsrQ, UpdateCursor(i)) ELSE crsrQ
        /\ shaped' = (shaped \/ (ok /\ colour))
        /\ stale' = stale \ {"cursor"}
        /\ UNCHANGED <<frameBuf, modeVars, power, adapterPower, wasReset, committed,
                       host, blue, fault>>

(* SetPointerPosition of a visible pointer.                                *)
SetPointerPosition ==
    /\ Running /\ shaped /\ Len(crsrQ) < CrsrBound
    /\ cursorBuf # NoObj
    /\ crsrQ' = Append(crsrQ, MoveCursor(cursorBuf.id))
    /\ UNCHANGED <<objVars, modeVars, powerVars, askedVars, ctrlQ, host, blue, fault>>

(* PresentDisplayOnly of a source with a committed mode.                   *)
PresentDisplayOnly ==
    /\ Running /\ Room /\ committed
    /\ visible
    /\ frameBuf # NoObj
    /\ ctrlQ' = ctrlQ \o <<TransferToHost2D(frameBuf.id), ResFlush(frameBuf.id)>>
    /\ UNCHANGED <<objVars, modeVars, powerVars, askedVars, crsrQ, host, blue, fault>>

(* Neither call looks whether there is an object.                          *)
UsesNoObject ==
    /\ Running
    /\ \/ shaped /\ cursorBuf = NoObj
       \/ committed /\ visible /\ frameBuf = NoObj
    /\ Crash

(* SetCurrentMode or SetPointerShape with an object that got no id.         *)
PutsNoId ==
    /\ Running
    /\ Corrupts(frameBuf) \/ Corrupts(cursorBuf)
    /\ Crash

SetVidPnSourceVisibility(v) ==
    /\ Running
    /\ visible' = v
    /\ UNCHANGED <<objVars, fbPtr, fbActive, powerVars, askedVars, ctrlQ, crsrQ,
                   host, blue, fault>>

(* A reset device forgets its resources and its queues.                    *)
ResetDevice ==
    /\ ctrlQ' = <<>> /\ crsrQ' = <<>>
    /\ host' = EmptyHost
    /\ wasReset' = TRUE

(* SetPowerState with D3: GpuDeviceClose; the objects stay as they are.     *)
PowerDown ==
    /\ Running /\ PowerCycles
    /\ power' = "D3"
    /\ ResetDevice
    /\ stale' = {x \in {"frame", "cursor"} :
                   IF x = "frame" THEN frameBuf # NoObj ELSE cursorBuf # NoObj}
    /\ UNCHANGED <<objVars, modeVars, adapterPower, askedVars, blue, fault>>

(* SetPowerState with D0.                                                  *)
PowerUp ==
    /\ ~ fault /\ blue = "no"
    /\ power = "D3"
    /\ power' = "D0"
    /\ visible' = (visible /\ adapterPower # "D3")
    /\ adapterPower' = "D0"
    /\ UNCHANGED <<objVars, fbPtr, fbActive, wasReset, stale, askedVars, ctrlQ,
                   crsrQ, host, blue, fault>>

(* ~GpuDevice up to GpuDeviceClose: DestroyCursor, DestroyFrameBuffer.      *)
DestroyDevice ==
    /\ Running
    /\ ~ Corrupts(frameBuf) /\ ~ Corrupts(cursorBuf)
    /\ power' = "gone"
    /\ idr' = WithoutId(frameBuf) \cap WithoutId(cursorBuf)
    /\ frameBuf' = NoObj /\ cursorBuf' = NoObj
    /\ mdls' = Closed(frameBuf) \cap Closed(cursorBuf)
    /\ ResetDevice
    /\ stale' = {}
    /\ UNCHANGED <<leaked, failed, freedTwice, modeVars, adapterPower, askedVars, blue, fault>>

(* SystemDisplayEnable: the system is about to show a bugcheck.            *)
SystemDisplayEnable ==
    /\ Running
    /\ blue' = IF fbPtr # NoBlock THEN "enabled" ELSE "unsuccessful"
    /\ UNCHANGED <<objVars, modeVars, powerVars, askedVars, ctrlQ, crsrQ, host, fault>>

(* The host works off the control queue and the cursor queue, each in       *)
(* order, neither ahead of the other by any rule.                          *)
HostControl ==
    /\ ctrlQ # <<>>
    /\ host' = HostAfter(host, Head(ctrlQ))
    /\ ctrlQ' = Tail(ctrlQ)
    /\ UNCHANGED <<objVars, modeVars, powerVars, askedVars, crsrQ, blue, fault>>

HostCursor ==
    /\ crsrQ # <<>>
    /\ crsrQ' = Tail(crsrQ)
    /\ UNCHANGED <<objVars, modeVars, powerVars, askedVars, ctrlQ, host, blue, fault>>

Next ==
    \/ \E mode \in Modes, block \in Blocks, result \in Outcomes :
          SetCurrentMode(mode, block, result)
    \/ \E block \in Blocks, result \in Outcomes, colour \in BOOLEAN :
          SetPointerShape(block, result, colour)
    \/ SetPointerPosition \/ PresentDisplayOnly \/ UsesNoObject \/ PutsNoId
    \/ \E v \in BOOLEAN : SetVidPnSourceVisibility(v)
    \/ PowerDown \/ PowerUp \/ DestroyDevice \/ SystemDisplayEnable
    \/ HostControl \/ HostCursor

Spec == Init /\ [][Next]_vars

-----------------------------------------------------------------------------
Held == {o.id : o \in {frameBuf, cursorBuf} \ {NoObj}}
Proper == Ids \ {0}

(* The id bitmap agrees with the objects whatever fails along the way: a    *)
(* set bit belongs to the frame buffer, to the cursor or to a resource that *)
(* was leaked, never to two of them, and no object holds a clear one.  (0   *)
(* is left out: an object whose entries could not be allocated holds it.)   *)
IdAccounting ==
    /\ idr \cap Proper = (Held \cup leaked) \cap Proper
    /\ Held \cap leaked \cap Proper = {}
    /\ frameBuf # NoObj /\ cursorBuf # NoObj /\ frameBuf.id = cursorBuf.id
          => frameBuf.id \notin Proper

(* The frame buffer and the cursor never share memory, and the pointer that *)
(* BlackOutScreen and SystemDisplayWrite write through is the frame         *)
(* buffer's as long as FrameBufferIsActive is set, also after a mode set    *)
(* that failed halfway.                                                    *)
ActiveIsLive ==
    /\ frameBuf # NoObj /\ cursorBuf # NoObj => frameBuf.block # cursorBuf.block
    /\ fbActive /\ power # "gone" => frameBuf # NoObj /\ fbPtr = frameBuf.block

(* The host when it will have worked off the control queue.                *)
Settled ==
    LET after[k \in 0 .. Len(ctrlQ)] ==
          IF k = 0 THEN host ELSE HostAfter(after[k - 1], ctrlQ[k])
    IN  after[Len(ctrlQ)]

Backs(h, o) == h.res[o.id] = [mode |-> o.mode, block |-> o.block]

(* What is queued brings the host to the driver's view: the frame buffer is *)
(* the scanout, filled and backed by the live object, so is the cursor, and *)
(* besides them only leaked ids are resources.  An object that lived        *)
(* through a device reset or has no proper id is excepted.                  *)
HostFollows ==
    LET h == Settled
    IN  /\ frameBuf # NoObj /\ "frame" \notin stale /\ frameBuf.id \in Proper =>
              Backs(h, frameBuf) /\ h.scanout = frameBuf.id /\ frameBuf.id \in h.filled
        /\ cursorBuf # NoObj /\ "cursor" \notin stale /\ cursorBuf.id \in Proper =>
              Backs(h, cursorBuf)
        /\ \A i \in Proper : Known(h, i) => i \in Held \cup leaked

(* Memory is freed while the host may still be attached to it (nobody waits *)
(* for the detach), but then the detach is already on its way, whatever      *)
(* else was queued around it.                                              *)
FreedIsDetached ==
    \A i \in HostIds :
        host.res[i].block \notin Live \cup {NoBlock} =>
            \E k \in 1 .. Len(ctrlQ) : ctrlQ[k][1] = "detach" /\ ctrlQ[k][2] = i

(* No command the driver queues is one the host has to refuse, unless an    *)
(* allocation failed or the device was reset under living objects; and      *)
(* presents and pointer moves find their objects unless an allocation failed. *)
(* The control queue and the cursor queue are not ordered: a cursor command  *)
(* that is worked off late still names the cursor, or an id that went to     *)
(* nobody else; what the cursor gave back never is the frame buffer's.       *)
HostAccepts ==
    /\ Settled.refused => failed # "no" \/ wasReset
    /\ fault => failed # "no"
    /\ \A k \in 1 .. Len(crsrQ) :
          LET i == crsrQ[k][2]
          IN  i \in Proper => ~ (frameBuf # NoObj /\ i = frameBuf.id) /\ i \in idr

(* The MDL of an object is freed with it, whatever else fails, and only with  *)
(* it; but one whose pages could not be locked is freed twice, so that it     *)
(* may be another's by then (viogpu_queue.cpp:662).                          *)
MdlsFollowObjects ==
    /\ mdls = Live
    /\ freedTwice <=> failed = "lock"

(* ASSERT((outcnt + incnt) <= 16), viogpu_queue.cpp:230: the descriptors of   *)
(* an attached frame buffer fit into sg[16].                                *)
DescriptorsFit == frameBuf # NoObj /\ frameBuf.id # 0 => Descriptors(frameBuf) <= 16
=============================================================================
