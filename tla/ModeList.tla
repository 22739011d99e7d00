------------------------------ MODULE ModeList ------------------------------
(***************************************************************************)
(* The mode list of GpuDevice (m_ModeInfo): four fixed modes and two slots  *)
(* that take turns to hold the size the host's display has.  A change of    *)
(* that size is written by the configuration worker, field after field and  *)
(* without a lock, while dxgkrnl's thread reads the list to offer its modes *)
(* (AddSingleSourceMode), to look a committed mode up in it                 *)
(* (SetSourceModeAndPath) and to create the frame buffer (SetCurrentMode).  *)
(* The thread of StartDevice fills the list when the worker already runs.   *)
(***************************************************************************)
EXTENDS Integers, Sequences

CONSTANTS
    HostSizes,      (* sizes of the host's display, <<0, 0>> for none       *)
    MaxChanges      (* bound on the changes of that size                    *)

ASSUME HostSizesAssumption == HostSizes \subseteq Nat \X Nat
ASSUME MaxChangesAssumption == MaxChanges \in Nat

VARIABLES
    modeInfo,       (* m_ModeInfo: width and height of each slot            *)
    stride,         (* and its ScreenStride                                 *)
    modeCount,      (* m_ModeCount                                          *)
    customMode,     (* m_CustomMode                                         *)
    host,           (* the size of the host's display                       *)
    changed,        (* VIRTIO_GPU_EVENT_DISPLAY in events_read              *)
    announced,      (* its interrupt or m_ConfigUpdateEvent is on its way   *)
    changes,        (* how often the size changed                           *)
    pc, asked, slot,    (* of the two threads in GetDisplayInfo: the size    *)
                    (* they pass on, the slot they choose and write         *)
    dxg,            (* what dxgkrnl's thread does                           *)
    reading, width, (* the slot it reads, and the width it read there       *)
    offered,        (* the modes dxgkrnl knows                              *)
    disp,           (* DispInfo.Width, .Height of m_CurrentModes[0]         *)
    frameBytes,     (* the size of m_pFrameBuf's memory                     *)
    frameBuf,       (* the width and height of its resource                 *)
    newest,         (* history: the host's size in the list at enumeration  *)
    writes,         (* history: SetCustomDisplay calls begun since then     *)
    spoiled,        (* history: the last commit predates the enumeration,   *)
                    (* or the slot it matched was written meanwhile         *)
    raced,          (* history: the size changed after the worker had asked *)
    clash,          (* history: both threads were writing the list          *)
    early,          (* history: the worker chose a slot of no list          *)
    slept,          (* history: a power cycle dropped the last announcement  *)
    fault           (* a slot outside the list was written                  *)

listVars == <<modeInfo, stride, modeCount, customMode>>
hostVars == <<host, changed, announced, changes>>
threadVars == <<pc, asked, slot>>
dxgVars == <<dxg, reading, width, offered, disp, frameBytes, frameBuf, newest>>
pastVars == <<writes, spoiled, raced, clash, early, slept, fault>>
vars == <<listVars, hostVars, threadVars, dxgVars, pastVars>>

Threads == {"start", "worker"}
NoSize == <<0, 0>>

(* gpu_disp_modes                                                          *)
DispModes == <<<<1024, 768>>, <<1280, 1024>>, <<1920, 1080>>, <<2560, 1600>>>>
MinSize == DispModes[1]

(* The modes GetModeList takes, at least as large as the POST frame buffer. *)
Suitable(post) ==
    LET least == IF post[1] = 0 \/ post[2] = 0 THEN MinSize ELSE post
        taken[i \in 0 .. Len(DispModes)] ==
            IF i = 0 THEN <<>>
            ELSE IF DispModes[i][1] >= least[1] /\ DispModes[i][2] >= least[2]
            THEN Append(taken[i - 1], DispModes[i]) ELSE taken[i - 1]
    IN  taken[Len(DispModes)]

(* HWInit passes a DispInfo that StartDevice has just zeroed.              *)
Fixed == Suitable(NoSize)
FixedCount == Len(Fixed)
FixedModes == {Fixed[i] : i \in 1 .. FixedCount}
Slots == 0 .. FixedCount + 1
FreshList == [s \in Slots |-> IF s < FixedCount THEN Fixed[s + 1] ELSE Fixed[1]]

(* ScreenStride, in bytes: a pixel has four, rows begin at multiples of     *)
(* four.                                                                   *)
Stride(w) == ((w * 4 + 3) \div 4) * 4

(* The size of a frame buffer, the product of two ULONGs in a UINT; counted  *)
(* in pixels of four bytes until the end.                                  *)
Memory(bytes, h) == 4 * (((bytes \div 4) * h) % 2^30)
MemoryOf(size) == Memory(Stride(size[1]), size[2])

Larger(a, b) == IF a > b THEN a ELSE b

(* A cast to USHORT.                                                       *)
Ushort(n) == n % 65536

(* Deviation: the minimum is only warned of.                               *)
ClampNot(size) == <<Ushort(size[1]), Ushort(size[2])>>

(* SetCustomDisplay takes USHORTs and raises them to the minimum.           *)
Clamp(size) == <<Larger(MinSize[1], Ushort(size[1])), Larger(MinSize[2], Ushort(size[2]))>>

NextCustomMode == IF customMode = modeCount - 1 THEN modeCount - 2 ELSE modeCount - 1

(* In StartDevice: the device is up, the worker runs, the list is empty.    *)
Init ==
    /\ modeInfo = [s \in Slots |-> NoSize] /\ stride = [s \in Slots |-> 0]
    /\ modeCount = 0 /\ customMode = 0
    /\ host \in HostSizes /\ changes = 0
    /\ changed \in BOOLEAN /\ announced = changed
    /\ pc = [t \in Threads |-> IF t = "start" THEN "fill" ELSE "idle"]
    /\ asked = [t \in Threads |-> NoSize] /\ slot = [t \in Threads |-> 0]
    /\ dxg = "starting" /\ reading = 0 /\ width = 0 /\ offered = {}
    /\ disp = NoSize /\ frameBytes = 0 /\ frameBuf = NoSize /\ newest = NoSize
    /\ writes = 0 /\ spoiled = FALSE /\ raced = FALSE /\ clash = FALSE
    /\ early = FALSE /\ slept = FALSE /\ fault = FALSE

(* The steps of SetCustomDisplay and SetVideoModeInfo, and those of them     *)
(* after a slot was chosen.                                                *)
Writing == {"pick", "store", "take", "width", "height", "stride"}
Filling == Writing \ {"pick"}
HalfWritten(s) == \E t \in Threads : pc[t] \in {"height", "stride"} /\ slot[t] = s

-----------------------------------------------------------------------------
(* The host changes the size and announces it.                             *)
HostResizes ==
    /\ ~ fault
    /\ changes < MaxChanges
    /\ \E size \in HostSizes \ {host} : host' = size
    /\ changed' = TRUE /\ announced' = TRUE /\ slept' = FALSE
    /\ changes' = changes + 1
    /\ raced' = (raced \/ pc["worker"] \in Writing \cup {"clear"})
    /\ UNCHANGED <<listVars, threadVars, dxgVars, writes, spoiled, clash, early, fault>>

(* GetModeList, up to GetDisplayInfo.  It takes several steps that a worker  *)
(* in SetCustomDisplay may come between: that is a clash of the two.        *)
FillList ==
    /\ ~ fault
    /\ pc["start"] = "fill"
    /\ modeInfo' = FreshList
    /\ stride' = [s \in Slots |-> Stride(FreshList[s][1])]
    /\ customMode' = FixedCount
    /\ modeCount' = FixedCount + 2
    /\ pc' = [pc EXCEPT !["start"] = "ask"]
    /\ clash' = (clash \/ pc["worker"] \in Filling)
    /\ UNCHANGED <<hostVars, asked, slot, dxgVars, writes, spoiled, raced, early, slept, fault>>

WorkerWakes ==
    /\ ~ fault
    /\ pc["worker"] = "idle" /\ announced
    /\ announced' = FALSE
    /\ pc' = [pc EXCEPT !["worker"] = IF changed THEN "ask" ELSE "idle"]
    /\ UNCHANGED <<listVars, host, changed, changes, asked, slot, dxgVars, pastVars>>

(* D3 and back, which dxgkrnl asks for between its other calls.  The reset   *)
(* takes back an interrupt that was not served, and nobody looks at          *)
(* events_read again until the next change.  GpuCommand has the worker that  *)
(* waits for an answer meanwhile.                                          *)
PowerCycle ==
    /\ ~ fault
    /\ dxg = "idle" /\ pc["worker"] # "ask"
    /\ announced
    /\ announced' = FALSE /\ slept' = TRUE
    /\ UNCHANGED <<listVars, host, changed, changes, threadVars, dxgVars, writes, spoiled,
                   raced, clash, early, fault>>

AfterCustom(t) == IF t = "start" THEN "done" ELSE "clear"

(* Deviation: an answer that is there already is taken.                    *)
AskDisplayInfoOnce(t) ==
    /\ ~ fault
    /\ pc[t] = "ask"
    /\ asked' = [asked EXCEPT ![t] = IF @ = NoSize THEN host ELSE @]
    /\ pc' = [pc EXCEPT ![t] =
                IF host[1] = 0 \/ host[2] = 0 THEN AfterCustom(t) ELSE "pick"]
    /\ raced' = (raced /\ t = "start")
    /\ UNCHANGED <<listVars, hostVars, slot, dxgVars, writes, spoiled, clash, early, slept, fault>>

(* GetDisplayInfo; a display of no size changes nothing.                    *)
AskDisplayInfo(t) ==
    /\ ~ fault
    /\ pc[t] = "ask"
    /\ asked' = [asked EXCEPT ![t] = host]
    /\ pc' = [pc EXCEPT ![t] =
                IF host[1] = 0 \/ host[2] = 0 THEN AfterCustom(t) ELSE "pick"]
    /\ raced' = (raced /\ t = "start")
    /\ UNCHANGED <<listVars, hostVars, slot, dxgVars, writes, spoiled, clash, early, slept, fault>>

(* SetCustomDisplay reads m_CustomMode and m_ModeCount, which choose the     *)
(* slot...                                                                 *)
PickSlot(t) ==
    /\ ~ fault
    /\ pc[t] = "pick"
    /\ slot' = [slot EXCEPT ![t] = Ushort(NextCustomMode)]
    /\ pc' = [pc EXCEPT ![t] = "store"]
    /\ clash' = (clash \/ \A u \in Threads : pc[u] \in Writing)
    /\ early' = IF t = "worker" THEN modeCount = 0 ELSE early
    /\ UNCHANGED <<listVars, hostVars, asked, dxgVars, writes, spoiled, raced, slept, fault>>

(* ... and stores it in m_CustomMode.                                      *)
StoreSlot(t) ==
    /\ ~ fault
    /\ pc[t] = "store"
    /\ customMode' = slot[t]
    /\ pc' = [pc EXCEPT ![t] = "take"]
    /\ writes' = writes + 1
    /\ UNCHANGED <<modeInfo, stride, modeCount, hostVars, asked, slot, dxgVars, spoiled, raced,
                   clash, early, slept, fault>>

(* The index passed to SetVideoModeInfo is m_CustomMode, read again or not.  *)
TakeSlot(t) ==
    /\ ~ fault
    /\ pc[t] = "take"
    /\ \E index \in {slot[t], customMode} : slot' = [slot EXCEPT ![t] = index]
    /\ pc' = [pc EXCEPT ![t] = "width"]
    /\ UNCHANGED <<listVars, hostVars, asked, dxgVars, pastVars>>

(* A write of the slot dxgkrnl's thread makes the frame buffer from.        *)
Spoils(t) == dxg \in {"create", "resource"} /\ slot[t] = reading

(* SetVideoModeInfo, the three of the fields it writes that are read again.  *)
WriteWidth(t) ==
    /\ ~ fault
    /\ pc[t] = "width"
    /\ fault' = (modeCount = 0 \/ slot[t] \notin Slots)
    /\ modeInfo' = IF fault' THEN modeInfo
                   ELSE [modeInfo EXCEPT ![slot[t]][1] = Clamp(asked[t])[1]]
    /\ pc' = [pc EXCEPT ![t] = "height"]
    /\ spoiled' = (spoiled \/ Spoils(t))
    /\ UNCHANGED <<stride, modeCount, customMode, hostVars, asked, slot, dxgVars, writes,
                   raced, clash, early, slept>>

WriteHeight(t) ==
    /\ ~ fault
    /\ pc[t] = "height"
    /\ modeInfo' = [modeInfo EXCEPT ![slot[t]][2] = Clamp(asked[t])[2]]
    /\ pc' = [pc EXCEPT ![t] = "stride"]
    /\ spoiled' = (spoiled \/ Spoils(t))
    /\ UNCHANGED <<stride, modeCount, customMode, hostVars, asked, slot, dxgVars, writes,
                   raced, clash, early, slept, fault>>

WriteStride(t) ==
    /\ ~ fault
    /\ pc[t] = "stride"
    /\ stride' = [stride EXCEPT ![slot[t]] = Stride(Clamp(asked[t])[1])]
    /\ pc' = [pc EXCEPT ![t] = AfterCustom(t)]
    /\ spoiled' = (spoiled \/ Spoils(t))
    /\ UNCHANGED <<modeInfo, modeCount, customMode, hostVars, asked, slot, dxgVars, writes,
                   raced, clash, early, slept, fault>>

(* ConfigChanged writes events_clear; only then is the child unplugged and   *)
(* plugged in again, which makes dxgkrnl enumerate.                        *)
WorkerClears ==
    /\ ~ fault
    /\ pc["worker"] = "clear"
    /\ changed' = FALSE /\ slept' = FALSE
    /\ pc' = [pc EXCEPT !["worker"] = "idle"]
    /\ UNCHANGED <<listVars, host, announced, changes, asked, slot, dxgVars, writes, spoiled,
                   raced, clash, early, fault>>

(* StartDevice returns.                                                    *)
Started ==
    /\ ~ fault
    /\ dxg = "starting" /\ pc["start"] = "done"
    /\ dxg' = "idle"
    /\ UNCHANGED <<listVars, hostVars, threadVars, reading, width, offered, disp,
                   frameBytes, frameBuf, newest, pastVars>>

-----------------------------------------------------------------------------
(* dxgkrnl's thread.  A slot is read width first.                          *)

ReadWidth ==
    /\ ~ fault
    /\ dxg \in {"enum_width", "match_width"}
    /\ width' = modeInfo[reading][1]
    /\ dxg' = IF dxg = "enum_width" THEN "enum_height" ELSE "match_height"
    /\ UNCHANGED <<listVars, hostVars, threadVars, reading, offered, disp, frameBytes,
                   frameBuf, newest, pastVars>>

(* EnumVidPnCofuncModality replaces the modes dxgkrnl knows.               *)
EnumBegins ==
    /\ ~ fault
    /\ dxg = "idle"
    /\ dxg' = "enum_width" /\ reading' = 0
    /\ offered' = {}
    /\ newest' = IF \E t \in Threads : pc[t] \in Filling THEN NoSize
                 ELSE modeInfo[customMode]
    /\ writes' = 0
    /\ spoiled' = TRUE
    /\ UNCHANGED <<listVars, hostVars, threadVars, width, disp, frameBytes, frameBuf,
                   raced, clash, early, slept, fault>>

(* AddSingleSourceMode                                                     *)
EnumOffers ==
    /\ ~ fault
    /\ dxg = "enum_height"
    /\ offered' = offered \cup {<<width, modeInfo[reading][2]>>}
    /\ IF reading = modeCount - 1
       THEN dxg' = "idle" /\ UNCHANGED reading
       ELSE dxg' = "enum_width" /\ reading' = reading + 1
    /\ UNCHANGED <<listVars, hostVars, threadVars, width, disp, frameBytes, frameBuf,
                   newest, pastVars>>

(* SetSourceModeAndPath for any mode dxgkrnl knows, up to its loop.         *)
CommitBegins ==
    /\ ~ fault
    /\ dxg = "idle"
    /\ \E size \in offered : disp' = size
    /\ dxg' = "match_width" /\ reading' = 0
    /\ spoiled' = FALSE
    /\ UNCHANGED <<listVars, hostVars, threadVars, width, offered, frameBytes, frameBuf,
                   newest, writes, raced, clash, early, slept, fault>>

(* Deviation: a mode that is wide enough will do.                          *)
CommitMatchesWide ==
    /\ ~ fault
    /\ dxg = "match_height"
    /\ IF width >= disp[1] /\ modeInfo[reading][2] >= disp[2]
       THEN dxg' = "create" /\ UNCHANGED reading
       ELSE IF reading = modeCount - 1 THEN dxg' = "idle" /\ UNCHANGED reading
       ELSE dxg' = "match_width" /\ reading' = reading + 1
    /\ spoiled' = (dxg' = "create" /\ HalfWritten(reading))
    /\ UNCHANGED <<listVars, hostVars, threadVars, width, offered, disp, frameBytes,
                   frameBuf, newest, writes, raced, clash, early, slept, fault>>

(* Where no slot matches, the commit succeeds and nothing else is done.     *)
CommitMatches ==
    /\ ~ fault
    /\ dxg = "match_height"
    /\ IF <<width, modeInfo[reading][2]>> = disp
       THEN dxg' = "create" /\ UNCHANGED reading
       ELSE IF reading = modeCount - 1 THEN dxg' = "idle" /\ UNCHANGED reading
       ELSE dxg' = "match_width" /\ reading' = reading + 1
    /\ spoiled' = (dxg' = "create" /\ (modeInfo[reading] # disp \/ HalfWritten(reading)))
    /\ UNCHANGED <<listVars, hostVars, threadVars, width, offered, disp, frameBytes,
                   frameBuf, newest, writes, raced, clash, early, slept, fault>>

(* SetCurrentMode reads the slot again: stride and height for the memory of  *)
(* the frame buffer...                                                     *)
CommitSizes ==
    /\ ~ fault
    /\ dxg = "create"
    /\ frameBytes' = Memory(stride[reading], modeInfo[reading][2])
    /\ dxg' = "resource"
    /\ UNCHANGED <<listVars, hostVars, threadVars, reading, width, offered, disp, frameBuf,
                   newest, pastVars>>

(* ... and width and height for its resource.                              *)
CommitCreates ==
    /\ ~ fault
    /\ dxg = "resource"
    /\ frameBuf' = modeInfo[reading]
    /\ dxg' = "idle"
    /\ UNCHANGED <<listVars, hostVars, threadVars, reading, width, offered, disp, frameBytes,
                   newest, pastVars>>

Next ==
    \/ HostResizes \/ FillList \/ WorkerWakes \/ WorkerClears \/ PowerCycle \/ Started
    \/ \E t \in Threads : \/ AskDisplayInfo(t) \/ PickSlot(t) \/ StoreSlot(t) \/ TakeSlot(t)
                          \/ WriteWidth(t) \/ WriteHeight(t) \/ WriteStride(t)
    \/ ReadWidth \/ EnumBegins \/ EnumOffers
    \/ CommitBegins \/ CommitMatches \/ CommitSizes \/ CommitCreates

Spec == Init /\ [][Next]_vars

-----------------------------------------------------------------------------
(* A commit has ended.                                                     *)
Committed == dxg = "idle" /\ disp # NoSize

(* Whatever the worker is writing meanwhile, a fixed mode that dxgkrnl        *)
(* commits gets a frame buffer of exactly its size, resource and memory, and *)
(* only a worker that began before GetModeList filled the list writes a slot *)
(* outside it.  The two custom slots take turns: the host's newest size, as  *)
(* it was in the list when dxgkrnl began to enumerate, is offered, and a      *)
(* commit of it gets a frame buffer of its size, also when one more change    *)
(* was begun meanwhile, unless the slot that matched was just being written;  *)
(* the memory may be of another size where both threads wrote the list at    *)
(* start-up and left a slot with the width of one and the stride of the other. *)
NewestFits ==
    /\ fault => early
    /\ Committed /\ disp \in FixedModes => frameBuf = disp /\ frameBytes = MemoryOf(disp)
    /\ newest # NoSize /\ writes <= 1 =>
          /\ dxg = "idle" => newest \in offered
          /\ Committed /\ disp = newest /\ ~ spoiled =>
                frameBuf = newest /\ (clash \/ frameBytes = MemoryOf(newest))

(* No mode is offered that is smaller than the minimum, whatever the host's  *)
(* size, its truncation to USHORT and the half-written slots amount to.     *)
OfferedLargeEnough == \A size \in offered : size[1] >= MinSize[1] /\ size[2] >= MinSize[2]

(* When the worker has handled a change, the slot of the newest size has    *)
(* the size of the host's display, unless that changed between the question *)
(* and events_clear, or start-up interfered.  A change that events_read still *)
(* tells of is on its way to the worker, unless a power cycle dropped it.    *)
NewestListed ==
    pc["worker"] = "idle" =>
        /\ ~ changed /\ ~ raced /\ ~ clash /\ dxg # "starting" /\ host[1] # 0 /\ host[2] # 0 =>
              modeInfo[customMode] = Clamp(host)
        /\ changed => announced \/ slept
=============================================================================
