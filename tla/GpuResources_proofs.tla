------------------------ MODULE GpuResources_proofs ------------------------
(***************************************************************************)
(* Whatever allocations fail, whatever is presented and however far behind  *)
(* the host is: ids and memory belong to the objects that hold them, and    *)
(* what is queued keeps the host in step with the driver.                   *)
(***************************************************************************)
EXTENDS GpuResources, WellFoundedInduction, SequenceTheorems, TLAPS

-----------------------------------------------------------------------------
(* Induction over the natural numbers, stated for sets.                     *)
(* A set of natural numbers has a least element.                            *)
LEMMA LeastOf ==
    ASSUME NEW T, T \subseteq Nat, T # {}
    PROVE  \E n \in T : \A m \in T : n <= m
<1> DEFINE Less == OpToRel(<, Nat)
<1>1. PICK n \in T : \A m \in T : ~ (<<m, n>> \in Less)
    BY WFMin, NatLessThanWellFounded
<1>2. \A m \in Nat : m < n => <<m, n>> \in Less
    BY <1>1 DEF OpToRel
<1> HIDE DEF Less
<1>3. \A m \in T : ~ (m < n)
    BY <1>1, <1>2
<1> QED
    BY <1>1, <1>3

(* Induction up to a bound.                                                *)
LEMMA UpTo ==
    ASSUME NEW T, NEW n \in Nat, 0 \in T, \A k \in 0 .. n - 1 : k \in T => k + 1 \in T
    PROVE  0 .. n \subseteq T
<1> SUFFICES ASSUME NEW U, U = (0 .. n) \ T, U # {}
             PROVE  FALSE
    OBVIOUS
<1>1. U \subseteq Nat
    OBVIOUS
<1>2. PICK m \in U : \A k \in U : m <= k
    BY <1>1, LeastOf
<1>3. m \in 0 .. n /\ m \notin T /\ m - 1 \notin U
    BY <1>1, <1>2
<1> QED
    BY <1>3


USE MaxIdAssumption, NullAssumption, OutcomesAssumption

Objects == Obj \cup {NoObj}

Typed ==
    /\ idr \subseteq Ids /\ leaked \subseteq HostIds
    /\ frameBuf \in Objects /\ cursorBuf \in Objects
    /\ mdls \subseteq Blocks
    /\ freedTwice \in BOOLEAN /\ failed \in {"no", "other", "lock"}
    /\ power \in {"D0", "D3", "gone"}

(* The bitmap has no hole: an id that is given back is the only clear bit    *)
(* below the others, and the same call takes it again.                      *)
NoHole == power # "gone" => \E n \in Ids : idr = 0 .. n

(* As long as nothing failed no id was lost, and the two ids are proper.     *)
NoneLost == failed = "no" => leaked = {} /\ Held \subseteq Proper

IdInv == Typed /\ NoHole /\ NoneLost /\ IdAccounting /\ ActiveIsLive /\ MdlsFollowObjects

-----------------------------------------------------------------------------
(* VioGpuIdr                                                               *)

LEMMA FirstFreeIs ==
    ASSUME NEW bits, bits \subseteq Ids
    PROVE  /\ FirstFree(bits) \in HostIds \ bits
           /\ \A j \in Ids \ bits : FirstFree(bits) <= j
<1>1. CASE Ids \subseteq bits
    BY <1>1 DEF FirstFree, Ids, NoId, HostIds
<1>2. CASE Ids \ bits # {}
  <2>1. Ids \ bits \subseteq Nat
      BY DEF Ids
  <2>2. \E i \in Ids \ bits : \A j \in Ids \ bits : i <= j
      BY <1>2, <2>1, LeastOf
  <2> QED
      BY <1>2, <2>2 DEF FirstFree, HostIds
<1> QED
    BY <1>1, <1>2

(* In a bitmap without a hole the next id follows the last one.             *)
LEMMA NextIdFollows ==
    ASSUME NEW n \in Ids
    PROVE  FirstFree(0 .. n) = n + 1
<1>1. 0 .. n \subseteq Ids
    BY DEF Ids
<1>2. FirstFree(0 .. n) \in HostIds \ (0 .. n)
    BY <1>1, FirstFreeIs
<1>3. n + 1 \in Ids => FirstFree(0 .. n) <= n + 1
  <2>1. n + 1 \notin 0 .. n
      BY DEF Ids
  <2> QED
      BY <2>1, <1>1, FirstFreeIs
<1> QED
    BY <1>2, <1>3 DEF HostIds, Ids, NoId

(* The id that was given back is the one that is found.                     *)
LEMMA SameIdAgain ==
    ASSUME NEW n \in Ids, NEW i \in 0 .. n
    PROVE  FirstFree((0 .. n) \ {i}) = i
<1> DEFINE bits == (0 .. n) \ {i}
<1>1. bits \subseteq Ids /\ i \in Ids \ bits
    BY DEF Ids
<1>2. FirstFree(bits) \in HostIds \ bits /\ FirstFree(bits) <= i
    BY <1>1, FirstFreeIs
<1> QED
    BY <1>2 DEF HostIds, Ids, NoId

(* What PutId and GetId do for an object o that is replaced while the other  *)
(* object is p.                                                            *)
Replaces(o, p) ==
    /\ power = "D0" /\ ~ Corrupts(o)
    /\ {o, p} = {frameBuf, cursorBuf}

LEMMA NewId ==
    ASSUME IdInv, NEW o \in Objects, NEW p \in Objects, Replaces(o, p)
    PROVE  LET i == FirstFree(WithoutId(o))
               bits == WithoutId(o) \cup ({i} \cap Ids)
           IN  /\ i \in HostIds
               /\ \E n \in Ids : bits = 0 .. n
               /\ o # NoObj => i = o.id /\ bits = idr
               /\ o = NoObj => i # 0 /\ i \notin idr /\ bits = idr \cup ({i} \cap Ids)
               /\ i \in Proper => i \notin leaked /\ (p # NoObj => i # p.id)
               /\ failed = "no" => i \in Proper
<1> DEFINE i == FirstFree(WithoutId(o))
           bits == WithoutId(o) \cup ({i} \cap Ids)
<1>1. PICK n \in Ids : idr = 0 .. n
    BY DEF IdInv, NoHole, Replaces
<1>2. /\ idr \cap Proper = (Held \cup leaked) \cap Proper
      /\ Held \cap leaked \cap Proper = {}
      /\ o # NoObj /\ p # NoObj /\ o.id = p.id => o.id \notin Proper
    BY DEF IdInv, IdAccounting, Replaces
<1>3. Held = {x.id : x \in {o, p} \ {NoObj}}
    BY DEF Held, Replaces
<1>4. /\ o # NoObj => o.id \in Ids /\ o.id \in Held
      /\ p # NoObj => p.id \in HostIds /\ p.id \in Held
    BY <1>3, NullAssumption DEF Objects, Obj, Corrupts, Replaces, HostIds
<1>5. CASE o # NoObj
  <2>1. o.id \in 0 .. n
    <3>1. CASE o.id = 0
        BY <3>1, <1>1 DEF Ids
    <3>2. CASE o.id # 0
        BY <3>2, <1>1, <1>2, <1>4, <1>5 DEF Proper
    <3> QED
        BY <3>1, <3>2
  <2>2. WithoutId(o) = (0 .. n) \ {o.id}
      BY <1>1, <1>5 DEF WithoutId
  <2>3. i = o.id
      BY <2>1, <2>2, SameIdAgain
  <2>4. bits = 0 .. n
      BY <2>1, <2>2, <2>3, <1>4, <1>5
  <2>5. failed = "no" => i \in Proper
      BY <2>3, <1>4, <1>5 DEF IdInv, NoneLost
  <2>6. i \in Proper => i \notin leaked /\ (p # NoObj => i # p.id)
      BY <2>3, <1>2, <1>4, <1>5
  <2> QED
      BY <1>1, <1>4, <1>5, <2>3, <2>4, <2>5, <2>6 DEF HostIds
<1>6. CASE o = NoObj
  <2>1. WithoutId(o) = 0 .. n
      BY <1>1, <1>6 DEF WithoutId
  <2>2. i = n + 1
      BY <2>1, NextIdFollows
  <2>3. \E m \in Ids : bits = 0 .. m
    <3>1. CASE n = MaxId
        BY <3>1, <2>1, <2>2 DEF Ids
    <3>2. CASE n # MaxId
        BY <3>2, <2>1, <2>2 DEF Ids
    <3> QED
        BY <3>1, <3>2
  <2>4. i \notin idr /\ i # 0 /\ i \in HostIds
      BY <2>2, <1>1 DEF Ids, HostIds, NoId
  <2>5. i \in Proper => i \notin leaked /\ (p # NoObj => i # p.id)
      BY <2>4, <1>2, <1>4
  <2>6. failed = "no" => i \in Proper
    <3>1. SUFFICES ASSUME failed = "no"
                   PROVE  i \in Proper
        OBVIOUS
    <3>2. leaked = {} /\ idr \cap Proper = Held \cap Proper
        BY <3>1, <1>2 DEF IdInv, NoneLost
    <3>3. n <= 1
      <4>1. SUFFICES ASSUME n >= 2
                     PROVE  FALSE
          BY DEF Ids
      <4>2. 1 \in idr \cap Proper /\ 2 \in idr \cap Proper
          BY <4>1, <1>1 DEF Proper, Ids
      <4> QED
          BY <4>2, <3>2, <1>3, <1>6
    <3> QED
        BY <3>3, <2>2 DEF Proper, Ids
  <2> QED
      BY <1>6, <2>1, <2>3, <2>4, <2>5, <2>6, <1>1
<1> QED
    BY <1>5, <1>6

(* SetCurrentMode and SetPointerShape as far as ids and memory go: o is      *)
(* destroyed, new is created in its place, p stays.                         *)
Renews(o, p, new, block, result) ==
    LET i == FirstFree(WithoutId(o))
    IN  /\ Replaces(o, p)
        /\ {frameBuf', cursorBuf'} = {new, p}
        /\ idr' = WithoutId(o) \cup ({i} \cap Ids)
        /\ result = "done" => new # NoObj
        /\ new # NoObj => new.id = (IF result = "done" THEN i ELSE 0) /\ new.block = block
        /\ leaked' = leaked \cup IF result = "done" THEN {} ELSE {i}
        /\ failed' = FailedAfter(result)
        /\ power' = power
        /\ block \notin Live \/ (o # NoObj /\ block = o.block)
        /\ InitObj(o, block, result, new # NoObj)

LEMMA HeldAfter ==
    ASSUME NEW new, NEW p, {frameBuf', cursorBuf'} = {new, p}
    PROVE  /\ Held' = {x.id : x \in {new, p} \ {NoObj}}
           /\ Live' = {x.block : x \in {new, p} \ {NoObj}}
    BY DEF Held, Live

LEMMA RenewKeepsIds ==
    ASSUME IdInv, NEW o \in Objects, NEW p \in Objects, NEW new \in Objects,
           NEW block \in Blocks, NEW result \in Results, Renews(o, p, new, block, result)
    PROVE  NoHole' /\ NoneLost' /\ IdAccounting' /\ idr' \subseteq Ids /\ leaked' \subseteq HostIds
<1> DEFINE i == FirstFree(WithoutId(o))
<1>1. /\ i \in HostIds
      /\ \E n \in Ids : idr' = 0 .. n
      /\ o # NoObj => i = o.id /\ idr' = idr
      /\ o = NoObj => i \notin idr /\ idr' = idr \cup ({i} \cap Ids)
      /\ i \in Proper => i \notin leaked /\ (p # NoObj => i # p.id)
      /\ failed = "no" => i \in Proper
    BY NewId DEF Renews
<1>2. /\ Held = {x.id : x \in {o, p} \ {NoObj}}
      /\ Held' = {x.id : x \in {new, p} \ {NoObj}}
    BY HeldAfter DEF Renews, Replaces, Held
<1>3. /\ idr \cap Proper = (Held \cup leaked) \cap Proper
      /\ Held \cap leaked \cap Proper = {}
    BY DEF IdInv, IdAccounting
<1>4. /\ leaked' = leaked \cup IF result = "done" THEN {} ELSE {i}
      /\ result = "done" => new # NoObj
      /\ new # NoObj => new.id = IF result = "done" THEN i ELSE 0
    BY DEF Renews
<1>5. Proper \subseteq Ids /\ 0 \notin Proper /\ Ids \subseteq HostIds
    BY DEF Proper, HostIds
<1>6. (Held' \cup leaked') \cap Proper = ((Held \cup leaked) \cup {i}) \cap Proper
  <2>1. o # NoObj => i \in Held
      BY <1>1, <1>2
  <2>2. p # NoObj => p.id \in Held /\ p.id \in Held'
      BY <1>2
  <2>3. ASSUME NEW x \in Proper, x \in Held
        PROVE  x = i \/ x \in Held'
      BY <2>3, <1>1, <1>2
  <2>4. ASSUME NEW x \in Proper, x \in Held'
        PROVE  x = i \/ x \in Held
      BY <2>4, <1>2, <1>4, <1>5
  <2>5. i \in Held' \cup leaked'
      BY <1>2, <1>4
  <2> QED
      BY <2>3, <2>4, <2>5, <1>4
<1>7. idr' \cap Proper = (Held' \cup leaked') \cap Proper
    BY ZenonT(30), <1>1, <1>2, <1>3, <1>5, <1>6
<1>8. Held' \cap leaked' \cap Proper = {}
  <2>1. ASSUME NEW x \in Proper, x \in Held'
        PROVE  x \notin leaked'
    <3>1. CASE p # NoObj /\ x = p.id
      <4>1. x \in Held /\ x \notin leaked /\ x # i
          BY <3>1, <1>1, <1>2, <1>3
      <4> QED
          BY <4>1, <1>4
    <3>2. CASE new # NoObj /\ x = new.id
        BY <3>2, <1>1, <1>4, <1>5
    <3> QED
        BY <2>1, <3>1, <3>2, <1>2
  <2> QED
      BY <2>1
<1>9. frameBuf' # NoObj /\ cursorBuf' # NoObj /\ frameBuf'.id = cursorBuf'.id
         => frameBuf'.id \notin Proper
  <2>1. SUFFICES ASSUME frameBuf' # NoObj, cursorBuf' # NoObj, frameBuf'.id = cursorBuf'.id,
                        frameBuf'.id \in Proper
                 PROVE  FALSE
      OBVIOUS
  <2>2. new # NoObj /\ p # NoObj /\ new.id = p.id /\ p.id \in Proper
      BY <2>1, Zenon DEF Renews
  <2> QED
      BY <2>2, <1>1, <1>4, <1>5
<1>10. NoneLost'
  <2>1. SUFFICES ASSUME failed' = "no"
                 PROVE  leaked' = {} /\ Held' \subseteq Proper
      BY DEF NoneLost
  <2>2. result = "done" /\ failed = "no"
      BY <2>1 DEF Renews, FailedAfter, IdInv, Typed
  <2>3. leaked = {} /\ Held \subseteq Proper
      BY <2>2 DEF IdInv, NoneLost
  <2> QED
      BY <2>2, <2>3, <1>1, <1>2, <1>4
<1> QED
    BY <1>1, <1>4, <1>7, <1>8, <1>9, <1>10 DEF NoHole, IdAccounting, IdInv, Typed, Renews, HostIds

LEMMA RenewKeepsMdls ==
    ASSUME IdInv, NEW o \in Objects, NEW p \in Objects, NEW new \in Objects,
           NEW block \in Blocks, NEW result \in Results, Renews(o, p, new, block, result)
    PROVE  /\ MdlsFollowObjects' /\ mdls' \subseteq Blocks
           /\ freedTwice' \in BOOLEAN /\ failed' \in {"no", "other", "lock"}
           /\ new # NoObj /\ p # NoObj => new.block # p.block
<1>1. /\ Live = {x.block : x \in {o, p} \ {NoObj}}
      /\ Live' = {x.block : x \in {new, p} \ {NoObj}}
    BY HeldAfter DEF Renews, Replaces, Live
<1>2. /\ mdls = Live /\ (freedTwice <=> failed = "lock")
      /\ o # NoObj /\ p # NoObj => o.block # p.block
  <2>1. frameBuf # NoObj /\ cursorBuf # NoObj => frameBuf.block # cursorBuf.block
      BY DEF IdInv, ActiveIsLive
  <2>2. o # NoObj /\ p # NoObj => o.block # p.block
      BY <2>1, Zenon DEF Renews, Replaces
  <2> QED
      BY <2>2 DEF IdInv, MdlsFollowObjects
<1>3. new # NoObj => new.block = block
    BY DEF Renews
<1>4. new # NoObj /\ p # NoObj => new.block # p.block
    BY <1>1, <1>2, <1>3 DEF Renews
<1>5. Closed(o) = {x.block : x \in {p} \ {NoObj}}
    BY <1>1, <1>2 DEF Closed
<1>6. mdls' = Live'
    BY <1>1, <1>3, <1>5 DEF Renews, InitObj
<1>7. freedTwice' = (freedTwice \/ result = "no lock") /\ failed' = FailedAfter(result)
    BY DEF Renews, InitObj
<1>8. (freedTwice' <=> failed' = "lock") /\ failed' \in {"no", "other", "lock"}
    BY <1>2, <1>7 DEF FailedAfter, IdInv, Typed
<1>9. Live' \subseteq Blocks
    BY <1>1 DEF Objects, Obj
<1> QED
    BY <1>4, <1>6, <1>7, <1>8, <1>9 DEF MdlsFollowObjects, IdInv, Typed

LEMMA ModeRenews ==
    ASSUME IdInv, NEW mode \in Modes, NEW block \in Blocks, NEW result \in Outcomes,
           SetCurrentMode(mode, block, result)
    PROVE  frameBuf' \in Objects /\ Renews(frameBuf, cursorBuf, frameBuf', block, result)
<1>1. FirstFree(WithoutId(frameBuf)) \in HostIds
    BY FirstFreeIs DEF IdInv, Typed, WithoutId
<1>2. frameBuf' \in Objects
    BY <1>1 DEF SetCurrentMode, Objects, Obj, HostIds, Ids
<1>3. Replaces(frameBuf, cursorBuf)
    BY DEF SetCurrentMode, Replaces, Running
<1>4. frameBuf' = NoObj <=> ~ Initialised(result)
    BY <1>1 DEF SetCurrentMode, Obj, HostIds, Ids
<1> QED
    BY <1>2, <1>3, <1>4 DEF SetCurrentMode, Renews, Initialised, InitObj

LEMMA ShapeRenews ==
    ASSUME IdInv, NEW block \in Blocks, NEW result \in Outcomes, NEW colour \in BOOLEAN,
           SetPointerShape(block, result, colour)
    PROVE  cursorBuf' \in Objects /\ Renews(cursorBuf, frameBuf, cursorBuf', block, result)
<1>1. FirstFree(WithoutId(cursorBuf)) \in HostIds
    BY FirstFreeIs DEF IdInv, Typed, WithoutId
<1>2. cursorBuf' \in Objects
    BY <1>1 DEF SetPointerShape, Objects, Obj, HostIds, Ids
<1>3. Replaces(cursorBuf, frameBuf)
    BY DEF SetPointerShape, Replaces, Running
<1>4. cursorBuf' = NoObj <=> result # "done"
    BY <1>1 DEF SetPointerShape, Obj, HostIds, Ids
<1> QED
    BY <1>2, <1>3, <1>4 DEF SetPointerShape, Renews, InitObj

(* Every other step leaves the objects alone, and the removed device stays   *)
(* removed.                                                                *)
Aside == <<objVars, fbPtr, fbActive>>

LEMMA OthersStandAside ==
    ASSUME Next,
           ~ \E mode \in Modes, block \in Blocks, result \in Outcomes :
                SetCurrentMode(mode, block, result),
           ~ \E block \in Blocks, result \in Outcomes, colour \in BOOLEAN :
                SetPointerShape(block, result, colour),
           ~ DestroyDevice
    PROVE  UNCHANGED Aside /\ (power' = power \/ (power # "gone" /\ power' \in {"D0", "D3"}))
<1> USE DEF Aside, modeVars, powerVars
<1>1. SetPointerPosition \/ PresentDisplayOnly => UNCHANGED Aside /\ power' = power
    BY DEF SetPointerPosition, PresentDisplayOnly
<1>2. UsesNoObject \/ PutsNoId \/ SystemDisplayEnable => UNCHANGED Aside /\ power' = power
    BY DEF UsesNoObject, PutsNoId, SystemDisplayEnable, Crash
<1>3. ASSUME NEW v \in BOOLEAN, SetVidPnSourceVisibility(v)
      PROVE  UNCHANGED Aside /\ power' = power
    BY <1>3 DEF SetVidPnSourceVisibility
<1>4. PowerDown \/ PowerUp => UNCHANGED Aside /\ power # "gone" /\ power' \in {"D0", "D3"}
    BY DEF PowerDown, PowerUp, Running
<1>5. HostControl \/ HostCursor => UNCHANGED Aside /\ power' = power
    BY DEF HostControl, HostCursor
<1> QED
    BY <1>1, <1>2, <1>3, <1>4, <1>5 DEF Next

LEMMA AsideKeepsIds ==
    ASSUME IdInv, UNCHANGED Aside,
           power' = power \/ (power # "gone" /\ power' \in {"D0", "D3"})
    PROVE  IdInv'
<1>1. UNCHANGED <<idr, frameBuf, cursorBuf, leaked, failed, mdls, freedTwice, fbPtr, fbActive>>
    BY DEF Aside, objVars, mdlVars
<1>2. UNCHANGED <<Held, Live>>
    BY <1>1 DEF Held, Live
<1>3. Typed' /\ NoHole' /\ NoneLost'
    BY <1>1, <1>2 DEF IdInv, Typed, NoHole, NoneLost
<1>4. IdAccounting' /\ ActiveIsLive' /\ MdlsFollowObjects'
    BY <1>1, <1>2 DEF IdInv, IdAccounting, ActiveIsLive, MdlsFollowObjects
<1> QED
    BY <1>3, <1>4 DEF IdInv

LEMMA ModeKeepsIds ==
    ASSUME IdInv, NEW mode \in Modes, NEW block \in Blocks, NEW result \in Outcomes,
           SetCurrentMode(mode, block, result)
    PROVE  IdInv'
<1>1. frameBuf' \in Objects /\ Renews(frameBuf, cursorBuf, frameBuf', block, result)
    BY ModeRenews
<1>2. frameBuf \in Objects /\ cursorBuf \in Objects
    BY DEF IdInv, Typed
<1>3. NoHole' /\ NoneLost' /\ IdAccounting' /\ idr' \subseteq Ids /\ leaked' \subseteq HostIds
    BY <1>1, <1>2, RenewKeepsIds
<1>4. /\ MdlsFollowObjects' /\ mdls' \subseteq Blocks
      /\ freedTwice' \in BOOLEAN /\ failed' \in {"no", "other", "lock"}
      /\ frameBuf' # NoObj /\ cursorBuf # NoObj => frameBuf'.block # cursorBuf.block
    BY <1>1, <1>2, RenewKeepsMdls
<1>5. UNCHANGED <<cursorBuf, power>> /\ fbActive' = Initialised(result)
    BY DEF SetCurrentMode, ActiveAfter
<1>6. fbActive' => frameBuf' # NoObj /\ fbPtr' = frameBuf'.block
  <2>1. SUFFICES ASSUME Initialised(result)
                 PROVE  frameBuf' # NoObj /\ fbPtr' = frameBuf'.block
      BY <1>5
  <2>2. fbPtr' = block
      BY <2>1 DEF SetCurrentMode, PtrAfter
  <2>3. frameBuf' # NoObj
    <3>1. FirstFree(WithoutId(frameBuf)) \in HostIds
        BY FirstFreeIs DEF IdInv, Typed, WithoutId
    <3> QED
        BY <2>1, <3>1 DEF SetCurrentMode, Obj, HostIds, Ids
  <2> QED
      BY <2>2, <2>3, <1>1 DEF Renews
<1>7. ActiveIsLive'
    BY <1>4, <1>5, <1>6 DEF ActiveIsLive
<1>8. Typed'
    BY <1>1, <1>2, <1>3, <1>4, <1>5 DEF Typed, IdInv
<1> QED
    BY <1>3, <1>4, <1>7, <1>8 DEF IdInv

LEMMA ShapeKeepsIds ==
    ASSUME IdInv, NEW block \in Blocks, NEW result \in Outcomes, NEW colour \in BOOLEAN,
           SetPointerShape(block, result, colour)
    PROVE  IdInv'
<1>1. cursorBuf' \in Objects /\ Renews(cursorBuf, frameBuf, cursorBuf', block, result)
    BY ShapeRenews
<1>2. frameBuf \in Objects /\ cursorBuf \in Objects
    BY DEF IdInv, Typed
<1>3. NoHole' /\ NoneLost' /\ IdAccounting' /\ idr' \subseteq Ids /\ leaked' \subseteq HostIds
    BY <1>1, <1>2, RenewKeepsIds
<1>4. /\ MdlsFollowObjects' /\ mdls' \subseteq Blocks
      /\ freedTwice' \in BOOLEAN /\ failed' \in {"no", "other", "lock"}
      /\ cursorBuf' # NoObj /\ frameBuf # NoObj => cursorBuf'.block # frameBuf.block
    BY <1>1, <1>2, RenewKeepsMdls
<1>5. UNCHANGED <<frameBuf, power, fbPtr, fbActive>>
    BY DEF SetPointerShape, modeVars
<1>6. ActiveIsLive'
    BY <1>4, <1>5 DEF ActiveIsLive, IdInv
<1>7. Typed'
    BY <1>1, <1>2, <1>3, <1>4, <1>5 DEF Typed, IdInv
<1> QED
    BY <1>3, <1>4, <1>6, <1>7 DEF IdInv

LEMMA DestroyKeepsIds ==
    ASSUME IdInv, DestroyDevice
    PROVE  IdInv'
<1>1. /\ frameBuf' = NoObj /\ cursorBuf' = NoObj /\ power' = "gone"
      /\ idr' = WithoutId(frameBuf) \cap WithoutId(cursorBuf)
      /\ mdls' = Closed(frameBuf) \cap Closed(cursorBuf)
      /\ UNCHANGED <<leaked, failed, freedTwice, fbPtr, fbActive>>
    BY DEF DestroyDevice, modeVars
<1>2. Held' = {} /\ Live' = {}
    BY <1>1 DEF Held, Live
<1>3. Typed' /\ NoHole' /\ NoneLost' /\ ActiveIsLive'
    BY <1>1, <1>2 DEF IdInv, Typed, NoHole, NoneLost, ActiveIsLive, Objects, WithoutId, Closed
<1>4. idr' \cap Proper = (idr \ Held) \cap Proper
    BY <1>1 DEF WithoutId, Held
<1>5. IdAccounting'
    BY <1>1, <1>2, <1>4 DEF IdInv, IdAccounting
<1>6. mdls' = mdls \ Live
    BY <1>1 DEF Closed, Live
<1>7. MdlsFollowObjects'
    BY <1>1, <1>2, <1>6 DEF IdInv, MdlsFollowObjects
<1> QED
    BY <1>3, <1>5, <1>7 DEF IdInv

LEMMA IdInvariant == Spec => []IdInv
<1>1. Init => IdInv
  <2>1. SUFFICES ASSUME Init
                 PROVE  IdInv
      OBVIOUS
  <2>2. Held = {} /\ Live = {} /\ idr = 0 .. 0
      BY <2>1 DEF Init, Held, Live
  <2>3. 0 \in Ids
      BY DEF Ids
  <2>4. Typed /\ NoHole /\ NoneLost
      BY <2>1, <2>2, <2>3 DEF Init, Typed, NoHole, NoneLost, Objects
  <2>5. IdAccounting /\ ActiveIsLive /\ MdlsFollowObjects
      BY <2>1, <2>2 DEF Init, IdAccounting, ActiveIsLive, MdlsFollowObjects, Proper
  <2> QED
      BY <2>4, <2>5 DEF IdInv
<1>2. IdInv /\ [Next]_vars => IdInv'
  <2>1. ASSUME IdInv, Next
        PROVE  IdInv'
      BY <2>1, ModeKeepsIds, ShapeKeepsIds, DestroyKeepsIds, OthersStandAside, AsideKeepsIds
  <2>2. ASSUME IdInv, UNCHANGED vars
        PROVE  IdInv'
    <3>1. UNCHANGED Aside /\ power' = power
        BY <2>2 DEF vars, Aside, modeVars, powerVars
    <3> QED
        BY <2>2, <3>1, AsideKeepsIds
  <2> QED
      BY <2>1, <2>2
<1> QED
    BY <1>1, <1>2, PTL DEF Spec

(* The id bitmap agrees with the objects and the leaked ids, for any bitmap,  *)
(* number of modes and blocks, and whatever allocations fail: IdAccounting   *)
(* of GpuResources.                                                        *)
THEOREM IdsCorrect == Spec => []IdAccounting
<1>1. IdInv => IdAccounting
    BY DEF IdInv
<1> QED
    BY <1>1, IdInvariant, PTL

(* The pointer BlackOutScreen writes through is the frame buffer's:           *)
(* ActiveIsLive of GpuResources.                                           *)
THEOREM PointerCorrect == Spec => []ActiveIsLive
<1>1. IdInv => ActiveIsLive
    BY DEF IdInv
<1> QED
    BY <1>1, IdInvariant, PTL

(* Exactly the living objects have an MDL, and one is freed twice exactly if *)
(* its pages could not be locked: MdlsFollowObjects of GpuResources.        *)
THEOREM MdlsCorrect == Spec => []MdlsFollowObjects
<1>1. IdInv => MdlsFollowObjects
    BY DEF IdInv
<1> QED
    BY <1>1, IdInvariant, PTL

-----------------------------------------------------------------------------
(* The host when it will have worked off a queue of commands.               *)
Steps(h, q) ==
    LET after[k \in 0 .. Len(q)] == IF k = 0 THEN h ELSE HostAfter(after[k - 1], q[k])
    IN  after

AfterAll(h, q) == Steps(h, q)[Len(q)]

LEMMA StepsOf ==
    ASSUME NEW S, NEW q \in Seq(S), NEW h
    PROVE  \A k \in 0 .. Len(q) :
              Steps(h, q)[k] = IF k = 0 THEN h ELSE HostAfter(Steps(h, q)[k - 1], q[k])
<1> DEFINE Upto(f, n) ==
             f = [k \in 0 .. n |-> IF k = 0 THEN h ELSE HostAfter(f[k - 1], q[k])]
           T == {n \in Nat : \E f : Upto(f, n)}
<1>1. Len(q) \in Nat
    OBVIOUS
<1>2. 0 \in T
  <2>1. Upto([k \in 0 .. 0 |-> h], 0)
      OBVIOUS
  <2> QED
      BY <2>1
<1>3. ASSUME NEW n \in 0 .. Len(q) - 1, n \in T
      PROVE  n + 1 \in T
  <2>1. PICK f : Upto(f, n)
      BY <1>3
  <2> DEFINE g == [k \in 0 .. n + 1 |-> IF k = n + 1 THEN HostAfter(f[n], q[n + 1]) ELSE f[k]]
  <2>2. \A k \in 0 .. n : g[k] = f[k]
      BY <1>1
  <2>3. ASSUME NEW k \in 0 .. n + 1
        PROVE  g[k] = IF k = 0 THEN h ELSE HostAfter(g[k - 1], q[k])
    <3>1. CASE k = n + 1
        BY <3>1, <1>1
    <3>2. CASE k # n + 1
      <4>1. k \in 0 .. n /\ (k # 0 => k - 1 \in 0 .. n)
          BY <3>2, <1>1
      <4>2. f[k] = IF k = 0 THEN h ELSE HostAfter(f[k - 1], q[k])
          BY <4>1, <2>1
      <4> HIDE DEF g
      <4> QED
          BY <4>1, <4>2, <2>2
    <3> QED
        BY <3>1, <3>2
  <2>4. Upto(g, n + 1)
      BY <2>3
  <2>5. \E e : Upto(e, n + 1)
    <3> HIDE DEF Upto, g
    <3> QED
        BY <2>4
  <2> QED
      BY <2>5, <1>1
<1>4. \E f : Upto(f, Len(q))
  <2> HIDE DEF T
  <2>1. 0 .. Len(q) \subseteq T
      BY <1>1, <1>2, <1>3, UpTo
  <2> QED
      BY <1>1, <2>1 DEF T
<1>5. Upto(Steps(h, q), Len(q))
  <2>1. Steps(h, q) = CHOOSE f : Upto(f, Len(q))
      BY DEF Steps
  <2> HIDE DEF Upto
  <2> QED
      BY <1>4, <2>1
<1> QED
    BY <1>5

LEMMA AfterNone == ASSUME NEW h PROVE AfterAll(h, <<>>) = h
<1> DEFINE q == <<>>
<1>1. q \in Seq({}) /\ Len(q) = 0
    OBVIOUS
<1> HIDE DEF q
<1>2. \A k \in 0 .. Len(q) :
         Steps(h, q)[k] = IF k = 0 THEN h ELSE HostAfter(Steps(h, q)[k - 1], q[k])
    BY <1>1, StepsOf
<1>3. Steps(h, q)[Len(q)] = h
    BY <1>1, <1>2
<1> QED
    BY <1>3 DEF AfterAll, q

(* One more command.                                                       *)
LEMMA AfterAppend ==
    ASSUME NEW S, NEW q \in Seq(S), NEW c \in S, NEW h
    PROVE  AfterAll(h, Append(q, c)) = HostAfter(AfterAll(h, q), c)
<1> DEFINE r == Append(q, c)
           n == Len(q)
           f == Steps(h, q)
           g == Steps(h, r)
           T == {k \in 0 .. n : g[k] = f[k]}
<1>1. r \in Seq(S) /\ n \in Nat /\ Len(r) = n + 1 /\ r[n + 1] = c
    OBVIOUS
<1>2. \A k \in 1 .. n : r[k] = q[k]
    OBVIOUS
<1>3. \A k \in 0 .. n : f[k] = IF k = 0 THEN h ELSE HostAfter(f[k - 1], q[k])
    BY StepsOf
<1> HIDE DEF r
<1>4. \A k \in 0 .. n + 1 : g[k] = IF k = 0 THEN h ELSE HostAfter(g[k - 1], r[k])
  <2>1. \A k \in 0 .. Len(r) : g[k] = IF k = 0 THEN h ELSE HostAfter(g[k - 1], r[k])
      BY <1>1, StepsOf
  <2> QED
      BY <1>1, <2>1
<1> HIDE DEF f, g, n
<1>5. 0 \in T
  <2>1. 0 \in 0 .. n /\ 0 \in 0 .. n + 1
      BY <1>1
  <2>2. f[0] = h /\ g[0] = h
      BY <2>1, <1>3, <1>4
  <2> QED
      BY <2>1, <2>2
<1>6. ASSUME NEW k \in 0 .. n - 1, k \in T
      PROVE  k + 1 \in T
  <2>1. k + 1 \in 1 .. n /\ k + 1 \in 0 .. n /\ k + 1 \in 0 .. n + 1 /\ (k + 1) - 1 = k /\ k + 1 # 0
      BY <1>1
  <2>2. g[k + 1] = HostAfter(g[k], r[k + 1])
      BY <2>1, <1>4
  <2>3. f[k + 1] = HostAfter(f[k], q[k + 1])
      BY <2>1, <1>3
  <2> QED
      BY <1>6, <2>1, <2>2, <2>3, <1>2
<1>7. n \in T
  <2> HIDE DEF T
  <2>1. 0 .. n \subseteq T
      BY <1>1, <1>5, <1>6, UpTo
  <2> QED
      BY <1>1, <2>1
<1>8. g[n + 1] = HostAfter(g[n], c)
  <2>1. n + 1 \in 0 .. n + 1 /\ (n + 1) - 1 = n /\ n + 1 # 0
      BY <1>1
  <2> QED
      BY <1>1, <1>4, <2>1
<1>9. g[Len(r)] = HostAfter(f[n], c)
    BY <1>1, <1>7, <1>8
<1> QED
    BY <1>9 DEF AfterAll, r, f, g, n

(* More than one: what is queued last is worked off last.                   *)
LEMMA AfterConcat ==
    ASSUME NEW S, NEW q \in Seq(S), NEW s \in Seq(S), NEW h
    PROVE  AfterAll(h, q \o s) = AfterAll(AfterAll(h, q), s)
<1> DEFINE Front(k) == [j \in 1 .. k |-> s[j]]
           T == {k \in 0 .. Len(s) : AfterAll(h, q \o Front(k)) = AfterAll(AfterAll(h, q), Front(k))}
<1>1. \A k \in 0 .. Len(s) : Front(k) \in Seq(S) /\ Len(Front(k)) = k
    OBVIOUS
<1>2. 0 \in T
  <2>1. Front(0) = <<>> /\ q \o <<>> = q
      OBVIOUS
  <2> QED
      BY <2>1, AfterNone
<1>3. ASSUME NEW k \in 0 .. Len(s) - 1, k \in T
      PROVE  k + 1 \in T
  <2>1. k \in 0 .. Len(s) /\ k + 1 \in 0 .. Len(s) /\ s[k + 1] \in S
      OBVIOUS
  <2>2. Front(k + 1) = Append(Front(k), s[k + 1])
      BY <2>1
  <2>3. q \o Front(k + 1) = Append(q \o Front(k), s[k + 1]) /\ q \o Front(k) \in Seq(S)
      BY <2>1, <2>2, <1>1
  <2> HIDE DEF Front
  <2>4. AfterAll(h, q \o Front(k + 1)) = HostAfter(AfterAll(h, q \o Front(k)), s[k + 1])
      BY <2>1, <2>3, AfterAppend
  <2>5. AfterAll(AfterAll(h, q), Front(k + 1)) = HostAfter(AfterAll(AfterAll(h, q), Front(k)), s[k + 1])
      BY <2>1, <2>2, <1>1, AfterAppend
  <2> QED
      BY <1>3, <2>1, <2>4, <2>5
<1>4. Len(s) \in T
  <2>1. Len(s) \in Nat
      OBVIOUS
  <2> HIDE DEF T
  <2>2. 0 .. Len(s) \subseteq T
      BY <2>1, <1>2, <1>3, UpTo
  <2> QED
      BY <2>1, <2>2
<1>5. Front(Len(s)) = s
    OBVIOUS
<1> QED
    BY <1>4, <1>5

LEMMA AfterOne == ASSUME NEW h, NEW a PROVE AfterAll(h, <<a>>) = HostAfter(h, a)
<1> DEFINE S == {a}
           q == <<>>
<1>1. q \in Seq(S) /\ a \in S /\ <<a>> = Append(q, a)
    OBVIOUS
<1>2. AfterAll(h, q) = h
    BY AfterNone
<1> HIDE DEF S, q
<1> QED
    BY <1>1, <1>2, AfterAppend

LEMMA AfterTwo ==
    ASSUME NEW h, NEW a, NEW b
    PROVE  AfterAll(h, <<a, b>>) = HostAfter(HostAfter(h, a), b)
<1> DEFINE S == {a, b}
           q == <<a>>
<1>1. q \in Seq(S) /\ b \in S /\ <<a, b>> = Append(q, b)
    OBVIOUS
<1>2. AfterAll(h, q) = HostAfter(h, a)
    BY AfterOne
<1> HIDE DEF S, q
<1> QED
    BY <1>1, <1>2, AfterAppend

LEMMA AfterThree ==
    ASSUME NEW h, NEW a, NEW b, NEW c
    PROVE  AfterAll(h, <<a, b, c>>) = HostAfter(HostAfter(HostAfter(h, a), b), c)
<1> DEFINE S == {a, b, c}
           q == <<a, b>>
<1>1. q \in Seq(S) /\ c \in S /\ <<a, b, c>> = Append(q, c)
    OBVIOUS
<1>2. AfterAll(h, q) = HostAfter(HostAfter(h, a), b)
    BY AfterTwo
<1> HIDE DEF S, q
<1> QED
    BY <1>1, <1>2, AfterAppend

(* The host takes the oldest command: nothing changes in the end.           *)
LEMMA AfterHead ==
    ASSUME NEW S, NEW q \in Seq(S), q # <<>>, NEW h
    PROVE  AfterAll(HostAfter(h, Head(q)), Tail(q)) = AfterAll(h, q)
<1> DEFINE s == <<Head(q)>>
           r == Tail(q)
<1>1. s \in Seq(S) /\ r \in Seq(S) /\ q = s \o r
    OBVIOUS
<1>2. AfterAll(h, s) = HostAfter(h, Head(q))
    BY AfterOne
<1> HIDE DEF s, r
<1>3. AfterAll(h, s \o r) = AfterAll(AfterAll(h, s), r)
    BY <1>1, AfterConcat
<1> QED
    BY <1>1, <1>2, <1>3 DEF r

-----------------------------------------------------------------------------
(* What a command does to a host.                                          *)
Resource == [mode : Modes \cup {Pointer}, block : Blocks \cup {NoBlock}] \cup {NoResource}
Host == [res : [HostIds -> Resource], scanout : HostIds, filled : SUBSET HostIds,
         refused : BOOLEAN]

Plain == {"detach", "unref", "scanout", "transfer", "flush"}
Command == ({"create"} \X HostIds \X (Modes \cup {Pointer}))
              \cup ({"attach"} \X HostIds \X Blocks)
              \cup (Plain \X HostIds \X {NoBlock})

(* g differs from h in what belongs to resource i.                          *)
SameBut(h, g, i) ==
    \A j \in HostIds \ {i} : g.res[j] = h.res[j] /\ (j \in h.filled => j \in g.filled)

SameScanout(h, g, i) == h.scanout # i => g.scanout = h.scanout

LEMMA RefusalDoes ==
    ASSUME NEW h \in Host, NEW i \in HostIds
    PROVE  Refuse(h) \in Host /\ SameBut(h, Refuse(h), i) /\ SameScanout(h, Refuse(h), i)
    BY DEF Host, Refuse, SameBut, SameScanout

LEMMA ChangeDoes ==
    ASSUME NEW h \in Host, NEW i \in HostIds, NEW r \in Resource
    PROVE  LET g == [h EXCEPT !.res[i] = r]
           IN  /\ g \in Host /\ SameBut(h, g, i) /\ SameScanout(h, g, i)
               /\ g.res[i] = r /\ g.refused = h.refused
<1> HIDE DEF Resource
<1> QED
    BY DEF Host, SameBut, SameScanout

LEMMA CreateDoes ==
    ASSUME NEW h \in Host, NEW i \in HostIds, NEW mode \in Modes \cup {Pointer}
    PROVE  LET g == HostAfter(h, CreateResource(i, mode))
           IN  /\ g \in Host /\ SameBut(h, g, i) /\ SameScanout(h, g, i)
               /\ ~ Known(h, i) /\ i # 0 =>
                     g.res[i] = [mode |-> mode, block |-> NoBlock] /\ g.refused = h.refused
<1> DEFINE r == [mode |-> mode, block |-> NoBlock]
<1>1. r \in Resource
    BY DEF Resource
<1>2. CASE Known(h, i) \/ i = 0
  <2>1. HostAfter(h, CreateResource(i, mode)) = Refuse(h)
      BY <1>2 DEF HostAfter, CreateResource
  <2> QED
      BY <1>2, <2>1, RefusalDoes
<1>3. CASE ~ (Known(h, i) \/ i = 0)
  <2>1. HostAfter(h, CreateResource(i, mode)) = [h EXCEPT !.res[i] = r]
      BY <1>3 DEF HostAfter, CreateResource
  <2> HIDE DEF r
  <2> QED
      BY <1>1, <2>1, ChangeDoes DEF r
<1> QED
    BY <1>2, <1>3

LEMMA AttachDoes ==
    ASSUME NEW h \in Host, NEW i \in HostIds, NEW block \in Blocks
    PROVE  LET g == HostAfter(h, AttachBacking(i, block))
           IN  /\ g \in Host /\ SameBut(h, g, i) /\ SameScanout(h, g, i)
               /\ Known(h, i) /\ h.res[i].block = NoBlock =>
                     g.res[i] = [mode |-> h.res[i].mode, block |-> block] /\ g.refused = h.refused
<1> DEFINE r == [mode |-> h.res[i].mode, block |-> block]
<1>1. CASE ~ Known(h, i) \/ h.res[i].block # NoBlock
  <2>1. HostAfter(h, AttachBacking(i, block)) = Refuse(h)
      BY <1>1 DEF HostAfter, AttachBacking
  <2> QED
      BY <1>1, <2>1, RefusalDoes
<1>2. CASE Known(h, i) /\ h.res[i].block = NoBlock
  <2>1. h.res[i] \in [mode : Modes \cup {Pointer}, block : Blocks \cup {NoBlock}]
      BY <1>2 DEF Host, Resource, Known
  <2>2. r \in Resource /\ [h.res[i] EXCEPT !.block = block] = r
      BY <2>1 DEF Resource
  <2>3. HostAfter(h, AttachBacking(i, block)) = [h EXCEPT !.res[i] = r]
      BY <1>2, <2>2 DEF HostAfter, AttachBacking, Host
  <2> HIDE DEF r
  <2> QED
      BY <2>2, <2>3, ChangeDoes DEF r
<1> QED
    BY <1>1, <1>2

LEMMA DetachDoes ==
    ASSUME NEW h \in Host, NEW i \in HostIds
    PROVE  LET g == HostAfter(h, InvalBacking(i))
           IN  /\ g \in Host /\ SameBut(h, g, i) /\ SameScanout(h, g, i)
               /\ h.res[i].block # NoBlock => Known(g, i) /\ g.refused = h.refused
<1> DEFINE r == [mode |-> h.res[i].mode, block |-> NoBlock]
<1>1. CASE ~ Known(h, i) \/ h.res[i].block = NoBlock
  <2>1. HostAfter(h, InvalBacking(i)) = Refuse(h)
      BY <1>1 DEF HostAfter, InvalBacking
  <2>2. h.res[i].block = NoBlock
      BY <1>1 DEF Known, NoResource
  <2> QED
      BY <2>1, <2>2, RefusalDoes
<1>2. CASE Known(h, i) /\ h.res[i].block # NoBlock
  <2>1. h.res[i] \in [mode : Modes \cup {Pointer}, block : Blocks \cup {NoBlock}]
      BY <1>2 DEF Host, Resource, Known
  <2>2. r \in Resource /\ [h.res[i] EXCEPT !.block = NoBlock] = r /\ r # NoResource
      BY <2>1 DEF Resource, NoResource
  <2>3. HostAfter(h, InvalBacking(i)) = [h EXCEPT !.res[i] = r]
      BY <1>2, <2>2 DEF HostAfter, InvalBacking, Host
  <2> HIDE DEF r
  <2> QED
      BY <2>2, <2>3, ChangeDoes DEF Known
<1> QED
    BY <1>1, <1>2

LEMMA UnrefDoes ==
    ASSUME NEW h \in Host, NEW i \in HostIds
    PROVE  LET g == HostAfter(h, UnrefResource(i))
           IN  /\ g \in Host /\ SameBut(h, g, i) /\ SameScanout(h, g, i)
               /\ ~ Known(g, i)
               /\ Known(h, i) => g.refused = h.refused
<1>1. 0 \in HostIds
    BY DEF HostIds, Ids
<1> QED
    BY <1>1 DEF HostAfter, UnrefResource, Host, Resource, SameBut, SameScanout, Known, Refuse, NoResource

LEMMA ScanoutDoes ==
    ASSUME NEW h \in Host, NEW i \in HostIds
    PROVE  LET g == HostAfter(h, SetScanout(i))
           IN  /\ g \in Host /\ g.res = h.res /\ g.filled = h.filled
               /\ Known(h, i) => g.scanout = i /\ g.refused = h.refused
    BY DEF HostAfter, SetScanout, Host, Known, Refuse

LEMMA TransferDoes ==
    ASSUME NEW h \in Host, NEW i \in HostIds
    PROVE  LET g == HostAfter(h, TransferToHost2D(i))
           IN  /\ g \in Host /\ g.res = h.res /\ g.scanout = h.scanout /\ h.filled \subseteq g.filled
               /\ Known(h, i) /\ h.res[i].block # NoBlock => i \in g.filled /\ g.refused = h.refused
    BY DEF HostAfter, TransferToHost2D, Host, Known, Refuse

LEMMA FlushDoes ==
    ASSUME NEW h \in Host, NEW i \in HostIds
    PROVE  LET g == HostAfter(h, ResFlush(i))
           IN  /\ g \in Host /\ g.res = h.res /\ g.scanout = h.scanout /\ g.filled = h.filled
               /\ Known(h, i) => g.refused = h.refused
    BY DEF HostAfter, ResFlush, Host, Known, Refuse

(* The host after the commands of a destroyed and of a new object.           *)
LEMMA DropDoes ==
    ASSUME NEW h \in Host, NEW o \in Obj
    PROVE  LET g == AfterAll(h, DropCommands(o))
           IN  /\ g \in Host /\ SameBut(h, g, o.id) /\ SameScanout(h, g, o.id)
               /\ ~ Known(g, o.id)
               /\ Backs(h, o) => g.refused = h.refused
<1> DEFINE i == o.id
           a == HostAfter(h, InvalBacking(i))
           g == HostAfter(a, UnrefResource(i))
<1>1. o # NoObj /\ i \in HostIds /\ o.block # NoBlock
    BY DEF Obj, HostIds
<1>2. AfterAll(h, DropCommands(o)) = g
    BY <1>1, AfterTwo DEF DropCommands
<1>3. /\ a \in Host /\ SameBut(h, a, i) /\ SameScanout(h, a, i)
      /\ h.res[i].block # NoBlock => Known(a, i) /\ a.refused = h.refused
    BY <1>1, DetachDoes
<1>4. /\ g \in Host /\ SameBut(a, g, i) /\ SameScanout(a, g, i) /\ ~ Known(g, i)
      /\ Known(a, i) => g.refused = a.refused
    BY <1>1, <1>3, UnrefDoes
<1>5. Backs(h, o) => h.res[i].block # NoBlock
    BY <1>1 DEF Backs
<1> HIDE DEF a, g, i
<1>6. SameBut(h, g, i) /\ SameScanout(h, g, i)
    BY <1>3, <1>4 DEF SameBut, SameScanout
<1> QED
    BY <1>2, <1>3, <1>4, <1>5, <1>6 DEF i

LEMMA MakeDoes ==
    ASSUME NEW h \in Host, NEW i \in HostIds, NEW mode \in Modes \cup {Pointer},
           NEW block \in Blocks, NEW result
    PROVE  LET g == AfterAll(h, MakeCommands(i, mode, block, result))
           IN  /\ g \in Host /\ SameBut(h, g, i) /\ SameScanout(h, g, i)
               /\ result = "done" /\ ~ Known(h, i) /\ i # 0 =>
                     g.res[i] = [mode |-> mode, block |-> block] /\ g.refused = h.refused
<1> DEFINE a == HostAfter(h, CreateResource(i, mode))
           b == HostAfter(a, AttachBacking(i, block))
<1>1. /\ a \in Host /\ SameBut(h, a, i) /\ SameScanout(h, a, i)
      /\ ~ Known(h, i) /\ i # 0 =>
            a.res[i] = [mode |-> mode, block |-> NoBlock] /\ a.refused = h.refused
    BY CreateDoes
<1>2. /\ b \in Host /\ SameBut(a, b, i) /\ SameScanout(a, b, i)
      /\ Known(a, i) /\ a.res[i].block = NoBlock =>
            b.res[i] = [mode |-> a.res[i].mode, block |-> block] /\ b.refused = a.refused
    BY <1>1, AttachDoes
<1>3. CASE result = "done"
  <2> DEFINE r == <<CreateResource(i, mode)>>
             s == <<AttachBacking(i, block)>>
             S == {CreateResource(i, mode), AttachBacking(i, block)}
  <2>1. MakeCommands(i, mode, block, result) = r \o s /\ r \in Seq(S) /\ s \in Seq(S)
      BY <1>3 DEF MakeCommands
  <2>2. AfterAll(h, MakeCommands(i, mode, block, result)) = b
    <3>1. AfterAll(h, r) = a /\ AfterAll(a, s) = b
        BY AfterOne
    <3> HIDE DEF r, s, S, a, b
    <3> QED
        BY <2>1, <3>1, AfterConcat
  <2>3. ASSUME ~ Known(h, i), i # 0
        PROVE  b.res[i] = [mode |-> mode, block |-> block] /\ b.refused = h.refused
    <3>1. a.res[i] = [mode |-> mode, block |-> NoBlock] /\ a.refused = h.refused
        BY <2>3, <1>1
    <3>2. Known(a, i) /\ a.res[i].block = NoBlock /\ a.res[i].mode = mode
        BY <3>1 DEF Known, NoResource
    <3> QED
        BY <3>1, <3>2, <1>2
  <2> HIDE DEF a, b
  <2>4. SameBut(h, b, i) /\ SameScanout(h, b, i)
      BY <1>1, <1>2 DEF SameBut, SameScanout
  <2> QED
      BY <1>2, <2>2, <2>3, <2>4
<1>4. CASE result # "done"
  <2>1. MakeCommands(i, mode, block, result) = <<CreateResource(i, mode)>>
      BY <1>4 DEF MakeCommands
  <2>2. AfterAll(h, MakeCommands(i, mode, block, result)) = a
      BY <2>1, AfterOne
  <2> QED
      BY <1>1, <1>4, <2>2
<1> QED
    BY <1>3, <1>4

-----------------------------------------------------------------------------
(* HostFollows, part by part, and what a command can count on.               *)
FrameShown ==
    frameBuf # NoObj /\ "frame" \notin stale /\ frameBuf.id \in Proper =>
        /\ Backs(Settled, frameBuf)
        /\ Settled.scanout = frameBuf.id /\ frameBuf.id \in Settled.filled

CursorBacked ==
    cursorBuf # NoObj /\ "cursor" \notin stale /\ cursorBuf.id \in Proper =>
        Backs(Settled, cursorBuf)

NoOthers == \A i \in Proper : Known(Settled, i) => i \in Held \cup leaked
NoneRefused == failed = "no" /\ ~ wasReset => ~ Settled.refused
NoneStale == ~ wasReset => stale = {}

HostInv ==
    /\ ctrlQ \in Seq(Command) /\ Settled \in Host
    /\ FrameShown /\ CursorBacked /\ NoOthers /\ NoneRefused /\ NoneStale

LEMMA SettledIs == Settled = AfterAll(host, ctrlQ) /\ Settled' = AfterAll(host', ctrlQ')
    BY DEF Settled, AfterAll, Steps

LEMMA CommandsTyped ==
    ASSUME NEW i \in HostIds
    PROVE  /\ \A mode \in Modes \cup {Pointer} : CreateResource(i, mode) \in Command
           /\ \A block \in Blocks : AttachBacking(i, block) \in Command
           /\ InvalBacking(i) \in Command /\ UnrefResource(i) \in Command
           /\ SetScanout(i) \in Command /\ TransferToHost2D(i) \in Command
           /\ ResFlush(i) \in Command
    BY DEF Command, Plain, CreateResource, AttachBacking, InvalBacking, UnrefResource,
           SetScanout, TransferToHost2D, ResFlush

LEMMA ObjectCommandsTyped ==
    ASSUME NEW o \in Objects, NEW i \in HostIds, NEW mode \in Modes \cup {Pointer},
           NEW block \in Blocks, NEW result
    PROVE  DropCommands(o) \in Seq(Command) /\ MakeCommands(i, mode, block, result) \in Seq(Command)
<1>1. o # NoObj => o.id \in HostIds
    BY DEF Objects, Obj, HostIds
<1> HIDE DEF Command
<1>2. DropCommands(o) \in Seq(Command)
    BY <1>1, CommandsTyped DEF DropCommands
<1>3. MakeCommands(i, mode, block, result) \in Seq(Command)
    BY CommandsTyped DEF MakeCommands
<1> QED
    BY <1>2, <1>3

(* The host after o was destroyed and new was created: new is backed, and    *)
(* nothing happened to the other object.                                   *)
LEMMA RenewDoes ==
    ASSUME IdInv, HostInv, NEW o \in Objects, NEW p \in Objects, NEW new \in Objects,
           NEW mode \in Modes \cup {Pointer}, NEW block \in Blocks, NEW result \in Results,
           Renews(o, p, new, block, result)
    PROVE  LET i == FirstFree(WithoutId(o))
               g == AfterAll(AfterAll(Settled, DropCommands(o)), MakeCommands(i, mode, block, result))
           IN  /\ g \in Host /\ SameBut(Settled, g, i) /\ SameScanout(Settled, g, i)
               /\ result = "done" /\ i \in Proper =>
                     /\ g.res[i] = [mode |-> mode, block |-> block]
                     /\ o = NoObj \/ Backs(Settled, o) => g.refused = Settled.refused
<1> DEFINE h == Settled
           i == FirstFree(WithoutId(o))
           a == AfterAll(h, DropCommands(o))
           g == AfterAll(a, MakeCommands(i, mode, block, result))
<1>1. /\ i \in HostIds
      /\ o # NoObj => i = o.id
      /\ o = NoObj => i \notin idr
    BY NewId DEF Renews
<1>2. h \in Host /\ (\A j \in Proper : Known(h, j) => j \in Held \cup leaked)
    BY DEF HostInv, NoOthers
<1> HIDE DEF h, i
<1>3. /\ a \in Host /\ SameBut(h, a, i) /\ SameScanout(h, a, i)
      /\ i \in Proper => ~ Known(a, i)
      /\ o = NoObj \/ Backs(h, o) => a.refused = h.refused
  <2>1. CASE o = NoObj
    <3>1. a = h
        BY <2>1, AfterNone DEF DropCommands
    <3>2. i \in Proper => i \notin Held \cup leaked
        BY <1>1, <2>1 DEF IdInv, IdAccounting
    <3> HIDE DEF a
    <3> QED
        BY <3>1, <3>2, <1>2 DEF SameBut, SameScanout
  <2>2. CASE o # NoObj
    <3>1. o \in Obj
        BY <2>2 DEF Objects
    <3> QED
        BY <3>1, <2>2, <1>1, <1>2, DropDoes
  <2> QED
      BY <2>1, <2>2
<1> HIDE DEF a
<1>4. /\ g \in Host /\ SameBut(a, g, i) /\ SameScanout(a, g, i)
      /\ result = "done" /\ ~ Known(a, i) /\ i # 0 =>
            g.res[i] = [mode |-> mode, block |-> block] /\ g.refused = a.refused
    BY <1>1, <1>3, MakeDoes
<1> HIDE DEF g
<1>5. SameBut(h, g, i) /\ SameScanout(h, g, i)
    BY <1>3, <1>4 DEF SameBut, SameScanout
<1>6. i \in Proper => i # 0
    BY DEF Proper
<1>7. /\ g \in Host /\ SameBut(h, g, i) /\ SameScanout(h, g, i)
      /\ result = "done" /\ i \in Proper =>
            /\ g.res[i] = [mode |-> mode, block |-> block]
            /\ o = NoObj \/ Backs(h, o) => g.refused = h.refused
    BY <1>3, <1>4, <1>5, <1>6
<1> QED
    BY <1>7 DEF h, g, a, i

(* What is queued is worked off after what is queued already.               *)
LEMMA AfterQueued ==
    ASSUME ctrlQ \in Seq(Command),
           NEW drop \in Seq(Command), NEW make \in Seq(Command), NEW s \in Seq(Command)
    PROVE  LET q == ctrlQ \o drop \o make \o s
           IN  /\ q \in Seq(Command)
               /\ AfterAll(host, q) = AfterAll(AfterAll(AfterAll(Settled, drop), make), s)
<1> HIDE DEF Command
<1> DEFINE q == ctrlQ \o drop
           r == q \o make
<1>1. Settled = AfterAll(host, ctrlQ)
    BY SettledIs
<1>2. q \in Seq(Command) /\ AfterAll(host, q) = AfterAll(Settled, drop)
    BY <1>1, AfterConcat
<1>3. r \in Seq(Command) /\ AfterAll(host, r) = AfterAll(AfterAll(Settled, drop), make)
  <2> HIDE DEF q
  <2> QED
      BY <1>2, AfterConcat
<1> HIDE DEF r
<1>4. r \o s \in Seq(Command) /\ AfterAll(host, r \o s) = AfterAll(AfterAll(host, r), s)
    BY <1>3, AfterConcat
<1> QED
    BY <1>3, <1>4 DEF r

(* No resource appears but the renewed one.                                *)
LEMMA RenewKeepsOthers ==
    ASSUME IdInv, HostInv, NEW o \in Objects, NEW p \in Objects, NEW new \in Objects,
           NEW block \in Blocks, NEW result \in Results, Renews(o, p, new, block, result),
           SameBut(Settled, Settled', FirstFree(WithoutId(o)))
    PROVE  NoOthers'
<1> DEFINE i == FirstFree(WithoutId(o))
<1>1. o # NoObj => i = o.id
    BY NewId DEF Renews
<1>2. /\ Held = {x.id : x \in {o, p} \ {NoObj}}
      /\ Held' = {x.id : x \in {new, p} \ {NoObj}}
    BY HeldAfter DEF Renews, Replaces, Held
<1>3. i \in Held' \cup leaked' /\ leaked \subseteq leaked'
    BY <1>2 DEF Renews
<1>4. SameBut(Settled, Settled', i)
    OBVIOUS
<1> HIDE DEF i
<1>5. ASSUME NEW j \in Proper, Known(Settled', j), j # i
      PROVE  j \in Held' \cup leaked'
  <2>1. j \in HostIds
      BY DEF Proper, HostIds
  <2>2. j \in Held \cup leaked
      BY <1>4, <1>5, <2>1 DEF SameBut, Known, HostInv, NoOthers
  <2> QED
      BY <2>2, <1>1, <1>2, <1>3, <1>5
<1> QED
    BY <1>3, <1>5 DEF NoOthers

(* The object that stays is backed as before.                              *)
LEMMA RenewSpares ==
    ASSUME IdInv, NEW o \in Objects, NEW p \in Objects, Replaces(o, p),
           NEW h \in Host, NEW g, SameBut(h, g, FirstFree(WithoutId(o))),
           p # NoObj, p.id \in Proper
    PROVE  /\ p.id # FirstFree(WithoutId(o))
           /\ Backs(h, p) => Backs(g, p)
           /\ p.id \in h.filled => p.id \in g.filled
<1>1. p.id # FirstFree(WithoutId(o))
    BY NewId
<1>2. p.id \in HostIds
    BY DEF Proper, HostIds
<1> QED
    BY <1>1, <1>2 DEF SameBut, Backs

LEMMA ModeKeepsHost ==
    ASSUME IdInv, HostInv, NEW mode \in Modes, NEW block \in Blocks, NEW result \in Outcomes,
           SetCurrentMode(mode, block, result)
    PROVE  HostInv'
<1> DEFINE i == FirstFree(WithoutId(frameBuf))
           drop == DropCommands(frameBuf)
           make == MakeCommands(i, mode, block, result)
           show == IF Initialised(result)
                   THEN <<SetScanout(i), TransferToHost2D(i), ResFlush(i)>> ELSE <<>>
           g == AfterAll(AfterAll(Settled, drop), make)
           f == AfterAll(g, show)
<1>1. /\ frameBuf' \in Objects /\ Renews(frameBuf, cursorBuf, frameBuf', block, result)
      /\ frameBuf \in Objects /\ cursorBuf \in Objects /\ result \in Results
    BY ModeRenews DEF IdInv, Typed
<1>2. i \in HostIds /\ (failed = "no" => i \in Proper)
      /\ (frameBuf # NoObj => i = frameBuf.id)
    BY <1>1, NewId DEF Renews
<1>3. drop \in Seq(Command) /\ make \in Seq(Command)
    BY <1>1, <1>2, ObjectCommandsTyped
<1>4. show \in Seq(Command)
  <2> HIDE DEF i, Command
  <2> QED
      BY <1>2, CommandsTyped
<1>5. /\ g \in Host /\ SameBut(Settled, g, i)
      /\ result = "done" /\ i \in Proper =>
            /\ g.res[i] = [mode |-> mode, block |-> block]
            /\ frameBuf = NoObj \/ Backs(Settled, frameBuf) => g.refused = Settled.refused
    BY <1>1, RenewDoes
<1>6. /\ cursorBuf' = cursorBuf /\ host' = host /\ wasReset' = wasReset /\ power' = power
      /\ ctrlQ' = ctrlQ \o drop \o make \o show
      /\ stale' = stale \ {"frame"} /\ failed' = FailedAfter(result)
      /\ Initialised(result) =>
            frameBuf' = [id |-> IF result = "done" THEN i ELSE 0, block |-> block, mode |-> mode]
      /\ ~ Initialised(result) => frameBuf' = NoObj
    BY DEF SetCurrentMode
<1>7. ctrlQ' \in Seq(Command) /\ Settled' = f
  <2> HIDE DEF drop, make, show
  <2> QED
      BY <1>3, <1>4, <1>6, AfterQueued, SettledIs DEF HostInv
<1> HIDE DEF g, drop, make
<1>8. /\ f \in Host /\ f.res = g.res /\ g.filled \subseteq f.filled
      /\ result = "done" /\ Known(g, i) /\ g.res[i].block # NoBlock =>
            f.scanout = i /\ i \in f.filled /\ f.refused = g.refused
  <2> HIDE DEF i
  <2>1. CASE Initialised(result)
    <3> DEFINE a == HostAfter(g, SetScanout(i))
               b == HostAfter(a, TransferToHost2D(i))
               c == HostAfter(b, ResFlush(i))
    <3>1. f = c
        BY <2>1, AfterThree
    <3>2. /\ a \in Host /\ a.res = g.res /\ a.filled = g.filled
          /\ Known(g, i) => a.scanout = i /\ a.refused = g.refused
        BY <1>2, <1>5, ScanoutDoes
    <3> HIDE DEF a
    <3>3. /\ b \in Host /\ b.res = a.res /\ b.scanout = a.scanout /\ a.filled \subseteq b.filled
          /\ Known(a, i) /\ a.res[i].block # NoBlock => i \in b.filled /\ b.refused = a.refused
        BY <1>2, <3>2, TransferDoes
    <3> HIDE DEF b
    <3>4. /\ c \in Host /\ c.res = b.res /\ c.scanout = b.scanout /\ c.filled = b.filled
          /\ Known(b, i) => c.refused = b.refused
        BY <1>2, <3>3, FlushDoes
    <3> HIDE DEF c, f
    <3> QED
        BY <3>1, <3>2, <3>3, <3>4 DEF Known
  <2>2. CASE ~ Initialised(result)
      BY <2>2, <1>5, AfterNone DEF Initialised
  <2> QED
      BY <2>1, <2>2
<1> HIDE DEF f, show
<1>9. SameBut(Settled, f, i)
    BY <1>5, <1>8 DEF SameBut
<1>10. result = "done" /\ i \in Proper =>
          /\ f.res[i] = [mode |-> mode, block |-> block]
          /\ f.scanout = i /\ i \in f.filled
          /\ frameBuf = NoObj \/ Backs(Settled, frameBuf) => f.refused = Settled.refused
  <2> SUFFICES ASSUME result = "done", i \in Proper
               PROVE  /\ f.res[i] = [mode |-> mode, block |-> block]
                      /\ f.scanout = i /\ i \in f.filled
                      /\ frameBuf = NoObj \/ Backs(Settled, frameBuf) => f.refused = Settled.refused
      OBVIOUS
  <2> HIDE DEF i
  <2>1. Known(g, i) /\ g.res[i].block # NoBlock
      BY <1>5 DEF Known, NoResource
  <2> QED
      BY <2>1, <1>5, <1>8
<1>11. NoOthers'
    BY <1>1, <1>7, <1>9, RenewKeepsOthers
<1>12. FrameShown'
  <2> SUFFICES ASSUME frameBuf' # NoObj, frameBuf'.id \in Proper
               PROVE  /\ Backs(f, frameBuf')
                      /\ f.scanout = frameBuf'.id /\ frameBuf'.id \in f.filled
      BY <1>7 DEF FrameShown
  <2> HIDE DEF i
  <2>1. frameBuf' = [id |-> IF result = "done" THEN i ELSE 0, block |-> block, mode |-> mode]
      BY <1>6
  <2>2. result = "done" /\ frameBuf' = [id |-> i, block |-> block, mode |-> mode]
      BY <2>1 DEF Proper
  <2> QED
      BY <2>2, <1>10 DEF Backs
<1>13. CursorBacked'
  <2> SUFFICES ASSUME cursorBuf # NoObj, "cursor" \notin stale, cursorBuf.id \in Proper
               PROVE  Backs(f, cursorBuf)
      BY <1>6, <1>7 DEF CursorBacked
  <2>1. Backs(Settled, cursorBuf) /\ Settled \in Host
      BY DEF HostInv, CursorBacked
  <2> QED
      BY <2>1, <1>1, <1>9, RenewSpares DEF Renews
<1>14. NoneRefused'
  <2> SUFFICES ASSUME failed' = "no", ~ wasReset
               PROVE  ~ f.refused
      BY <1>6, <1>7 DEF NoneRefused
  <2>1. result = "done" /\ failed = "no"
      BY <1>1, <1>6 DEF FailedAfter, IdInv, Typed
  <2>2. frameBuf # NoObj => frameBuf.id \in Proper
      BY <2>1 DEF IdInv, NoneLost, Held
  <2>3. stale = {} /\ ~ Settled.refused
      BY <2>1 DEF HostInv, NoneStale, NoneRefused
  <2>4. frameBuf # NoObj => Backs(Settled, frameBuf)
      BY <2>2, <2>3 DEF HostInv, FrameShown
  <2> QED
      BY <2>1, <2>3, <2>4, <1>2, <1>10
<1>15. NoneStale'
    BY <1>6 DEF HostInv, NoneStale
<1> QED
    BY <1>7, <1>8, <1>11, <1>12, <1>13, <1>14, <1>15 DEF HostInv

LEMMA ShapeKeepsHost ==
    ASSUME IdInv, HostInv, NEW block \in Blocks, NEW result \in Outcomes, NEW colour \in BOOLEAN,
           SetPointerShape(block, result, colour)
    PROVE  HostInv'
<1> DEFINE i == FirstFree(WithoutId(cursorBuf))
           drop == DropCommands(cursorBuf)
           make == MakeCommands(i, Pointer, block, result)
           show == IF result = "done" /\ colour THEN <<TransferToHost2D(i)>> ELSE <<>>
           g == AfterAll(AfterAll(Settled, drop), make)
           f == AfterAll(g, show)
<1>1. /\ cursorBuf' \in Objects /\ Renews(cursorBuf, frameBuf, cursorBuf', block, result)
      /\ frameBuf \in Objects /\ cursorBuf \in Objects /\ result \in Results
    BY ShapeRenews DEF IdInv, Typed
<1>2. i \in HostIds /\ (failed = "no" => i \in Proper)
      /\ (cursorBuf # NoObj => i = cursorBuf.id)
    BY <1>1, NewId DEF Renews
<1>3. drop \in Seq(Command) /\ make \in Seq(Command)
    BY <1>1, <1>2, ObjectCommandsTyped
<1>4. show \in Seq(Command)
  <2> HIDE DEF i, Command
  <2> QED
      BY <1>2, CommandsTyped
<1>5. /\ g \in Host /\ SameBut(Settled, g, i) /\ SameScanout(Settled, g, i)
      /\ result = "done" /\ i \in Proper =>
            /\ g.res[i] = [mode |-> Pointer, block |-> block]
            /\ cursorBuf = NoObj \/ Backs(Settled, cursorBuf) => g.refused = Settled.refused
    BY <1>1, RenewDoes
<1>6. /\ frameBuf' = frameBuf /\ host' = host /\ wasReset' = wasReset /\ power' = power
      /\ ctrlQ' = ctrlQ \o drop \o make \o show
      /\ stale' = stale \ {"cursor"} /\ failed' = FailedAfter(result)
      /\ cursorBuf' = IF result = "done" THEN [id |-> i, block |-> block, mode |-> Pointer]
                      ELSE NoObj
    BY DEF SetPointerShape
<1>7. ctrlQ' \in Seq(Command) /\ Settled' = f
  <2> HIDE DEF drop, make, show
  <2> QED
      BY <1>3, <1>4, <1>6, AfterQueued, SettledIs DEF HostInv
<1> HIDE DEF g, drop, make
<1>8. /\ f \in Host /\ f.res = g.res /\ f.scanout = g.scanout /\ g.filled \subseteq f.filled
      /\ result = "done" /\ Known(g, i) /\ g.res[i].block # NoBlock => f.refused = g.refused
  <2> HIDE DEF i
  <2>1. CASE result = "done" /\ colour
    <3>1. f = HostAfter(g, TransferToHost2D(i))
        BY <2>1, AfterOne
    <3> HIDE DEF f
    <3> QED
        BY <3>1, <1>2, <1>5, TransferDoes
  <2>2. CASE ~ (result = "done" /\ colour)
      BY <2>2, <1>5, AfterNone
  <2> QED
      BY <2>1, <2>2
<1> HIDE DEF f, show
<1>9. SameBut(Settled, f, i) /\ SameScanout(Settled, f, i)
    BY <1>5, <1>8 DEF SameBut, SameScanout
<1>10. result = "done" /\ i \in Proper =>
          /\ f.res[i] = [mode |-> Pointer, block |-> block]
          /\ cursorBuf = NoObj \/ Backs(Settled, cursorBuf) => f.refused = Settled.refused
  <2> SUFFICES ASSUME result = "done", i \in Proper
               PROVE  /\ f.res[i] = [mode |-> Pointer, block |-> block]
                      /\ cursorBuf = NoObj \/ Backs(Settled, cursorBuf) =>
                            f.refused = Settled.refused
      OBVIOUS
  <2> HIDE DEF i
  <2>1. Known(g, i) /\ g.res[i].block # NoBlock
      BY <1>5 DEF Known, NoResource
  <2> QED
      BY <2>1, <1>5, <1>8
<1>11. NoOthers'
    BY <1>1, <1>7, <1>9, RenewKeepsOthers
<1>12. CursorBacked'
  <2> SUFFICES ASSUME cursorBuf' # NoObj, cursorBuf'.id \in Proper
               PROVE  Backs(f, cursorBuf')
      BY <1>7 DEF CursorBacked
  <2> HIDE DEF i
  <2>1. result = "done" /\ cursorBuf' = [id |-> i, block |-> block, mode |-> Pointer]
      BY <1>6
  <2> QED
      BY <2>1, <1>10 DEF Backs
<1>13. FrameShown'
  <2> SUFFICES ASSUME frameBuf # NoObj, "frame" \notin stale, frameBuf.id \in Proper
               PROVE  /\ Backs(f, frameBuf)
                      /\ f.scanout = frameBuf.id /\ frameBuf.id \in f.filled
      BY <1>6, <1>7 DEF FrameShown
  <2>1. /\ Settled \in Host /\ Backs(Settled, frameBuf)
        /\ Settled.scanout = frameBuf.id /\ frameBuf.id \in Settled.filled
      BY DEF HostInv, FrameShown
  <2>2. frameBuf.id # i /\ Backs(f, frameBuf) /\ frameBuf.id \in f.filled
      BY <2>1, <1>1, <1>9, RenewSpares DEF Renews
  <2> QED
      BY <2>1, <2>2, <1>9 DEF SameScanout
<1>14. NoneRefused'
  <2> SUFFICES ASSUME failed' = "no", ~ wasReset
               PROVE  ~ f.refused
      BY <1>6, <1>7 DEF NoneRefused
  <2>1. result = "done" /\ failed = "no"
      BY <1>1, <1>6 DEF FailedAfter, IdInv, Typed
  <2>2. cursorBuf # NoObj => cursorBuf.id \in Proper
      BY <2>1 DEF IdInv, NoneLost, Held
  <2>3. stale = {} /\ ~ Settled.refused
      BY <2>1 DEF HostInv, NoneStale, NoneRefused
  <2>4. cursorBuf # NoObj => Backs(Settled, cursorBuf)
      BY <2>2, <2>3 DEF HostInv, CursorBacked
  <2> QED
      BY <2>1, <2>3, <2>4, <1>2, <1>10
<1>15. NoneStale'
    BY <1>6 DEF HostInv, NoneStale
<1> QED
    BY <1>7, <1>8, <1>11, <1>12, <1>13, <1>14, <1>15 DEF HostInv

(* A present brings the frame buffer's contents, if the host still knows it. *)
LEMMA PresentKeepsHost ==
    ASSUME IdInv, HostInv, PresentDisplayOnly
    PROVE  HostInv'
<1> DEFINE i == frameBuf.id
           s == <<TransferToHost2D(i), ResFlush(i)>>
           a == HostAfter(Settled, TransferToHost2D(i))
           g == HostAfter(a, ResFlush(i))
<1>1. /\ frameBuf # NoObj /\ ctrlQ' = ctrlQ \o s
      /\ UNCHANGED <<frameBuf, cursorBuf, leaked, failed, host, wasReset, stale>>
    BY DEF PresentDisplayOnly, objVars, powerVars
<1>2. i \in HostIds
    BY <1>1 DEF IdInv, Typed, Objects, Obj, HostIds
<1>3. s \in Seq(Command)
  <2> HIDE DEF i, Command
  <2> QED
      BY <1>2, CommandsTyped
<1>4. ctrlQ \in Seq(Command) /\ Settled = AfterAll(host, ctrlQ) /\ Settled \in Host
    BY SettledIs DEF HostInv
<1>5. ctrlQ' \in Seq(Command) /\ Settled' = g
  <2>1. AfterAll(Settled, s) = g
      BY AfterTwo
  <2> HIDE DEF s, g, Command
  <2> QED
      BY <1>1, <1>3, <1>4, <2>1, AfterConcat, SettledIs
<1>6. /\ a \in Host /\ a.res = Settled.res /\ a.scanout = Settled.scanout
      /\ Settled.filled \subseteq a.filled
      /\ Known(Settled, i) /\ Settled.res[i].block # NoBlock => a.refused = Settled.refused
    BY <1>2, <1>4, TransferDoes
<1> HIDE DEF a
<1>7. /\ g \in Host /\ g.res = a.res /\ g.scanout = a.scanout /\ g.filled = a.filled
      /\ Known(a, i) => g.refused = a.refused
    BY <1>2, <1>6, FlushDoes
<1> HIDE DEF g
<1>8. Held' = Held
    BY <1>1 DEF Held
<1>9. NoOthers' /\ FrameShown' /\ CursorBacked' /\ NoneStale'
    BY <1>1, <1>5, <1>6, <1>7, <1>8
       DEF HostInv, NoOthers, FrameShown, CursorBacked, NoneStale, Known, Backs
<1>10. NoneRefused'
  <2> SUFFICES ASSUME failed = "no", ~ wasReset
               PROVE  ~ g.refused
      BY <1>1, <1>5 DEF NoneRefused
  <2>1. frameBuf.id \in Proper
      BY <1>1 DEF IdInv, NoneLost, Held
  <2>2. ~ Settled.refused /\ Backs(Settled, frameBuf)
      BY <2>1, <1>1 DEF HostInv, NoneStale, NoneRefused, FrameShown
  <2>3. frameBuf.block # NoBlock
      BY <1>1 DEF IdInv, Typed, Objects, Obj
  <2>4. Known(Settled, i) /\ Settled.res[i].block # NoBlock
      BY <2>2, <2>3 DEF Backs, Known, NoResource
  <2> QED
      BY <2>2, <2>4, <1>6, <1>7 DEF Known
<1> QED
    BY <1>5, <1>7, <1>9, <1>10 DEF HostInv

(* The host has nothing left to do when it was just reset.                  *)
LEMMA ResetKeepsHost ==
    ASSUME ResetDevice, frameBuf' # NoObj => "frame" \in stale',
           cursorBuf' # NoObj => "cursor" \in stale'
    PROVE  HostInv'
<1>1. Settled' = EmptyHost /\ ctrlQ' \in Seq(Command)
    BY AfterNone, SettledIs DEF ResetDevice
<1>2. 0 \in HostIds /\ NoResource \in Resource
    BY DEF HostIds, Ids, Resource
<1>3. EmptyHost \in Host /\ \A i \in HostIds : ~ Known(EmptyHost, i)
  <2> HIDE DEF Resource, NoResource
  <2> QED
      BY <1>2 DEF EmptyHost, Host, Known
<1>4. Proper \subseteq HostIds /\ wasReset'
    BY DEF Proper, HostIds, ResetDevice
<1> QED
    BY <1>1, <1>3, <1>4 DEF HostInv, FrameShown, CursorBacked, NoOthers, NoneRefused, NoneStale

(* The host works off its oldest command, or nothing happens to it.         *)
LEMMA AsideKeepsHost ==
    ASSUME HostInv,
           UNCHANGED <<frameBuf, cursorBuf, leaked, failed, wasReset, stale>>,
           HostControl \/ UNCHANGED <<host, ctrlQ>>
    PROVE  HostInv'
<1>1. ctrlQ \in Seq(Command) /\ Settled = AfterAll(host, ctrlQ) /\ Settled' = AfterAll(host', ctrlQ')
    BY SettledIs DEF HostInv
<1> HIDE DEF Command
<1>2. ctrlQ' \in Seq(Command) /\ Settled' = Settled
  <2>1. CASE HostControl
      BY <2>1, <1>1, AfterHead DEF HostControl
  <2>2. CASE UNCHANGED <<host, ctrlQ>>
      BY <2>2, <1>1
  <2> QED
      BY <2>1, <2>2
<1>3. Held' = Held
    BY DEF Held
<1> QED
    BY <1>2, <1>3 DEF HostInv, FrameShown, CursorBacked, NoOthers, NoneRefused, NoneStale

LEMMA NextKeepsHost ==
    ASSUME IdInv, HostInv, Next
    PROVE  HostInv'
<1> USE DEF objVars, powerVars
<1>1. ASSUME SetPointerPosition \/ UsesNoObject \/ PutsNoId \/ SystemDisplayEnable
      PROVE  HostInv'
  <2>1. UNCHANGED <<frameBuf, cursorBuf, leaked, failed, wasReset, stale, host, ctrlQ>>
      BY <1>1 DEF SetPointerPosition, UsesNoObject, PutsNoId, SystemDisplayEnable, Crash
  <2> QED
      BY <2>1, AsideKeepsHost
<1>2. ASSUME PowerUp \/ HostControl \/ HostCursor \/ \E v \in BOOLEAN : SetVidPnSourceVisibility(v)
      PROVE  HostInv'
  <2>1. UNCHANGED <<frameBuf, cursorBuf, leaked, failed, wasReset, stale>>
      BY <1>2 DEF PowerUp, HostControl, HostCursor, SetVidPnSourceVisibility
  <2>2. HostControl \/ UNCHANGED <<host, ctrlQ>>
      BY <1>2 DEF PowerUp, HostCursor, SetVidPnSourceVisibility
  <2> QED
      BY <2>1, <2>2, AsideKeepsHost
<1>3. ASSUME PowerDown \/ DestroyDevice
      PROVE  HostInv'
  <2>1. /\ ResetDevice
        /\ frameBuf' # NoObj => "frame" \in stale'
        /\ cursorBuf' # NoObj => "cursor" \in stale'
      BY <1>3 DEF PowerDown, DestroyDevice
  <2> QED
      BY <2>1, ResetKeepsHost
<1> QED
    BY <1>1, <1>2, <1>3, ModeKeepsHost, ShapeKeepsHost, PresentKeepsHost DEF Next

LEMMA HostInvariant == Spec => []HostInv
<1>1. Init => HostInv
  <2>1. SUFFICES ASSUME Init
                 PROVE  HostInv
      OBVIOUS
  <2>2. Settled = EmptyHost /\ ctrlQ \in Seq(Command)
      BY <2>1, AfterNone, SettledIs DEF Init
  <2>3. 0 \in HostIds /\ NoResource \in Resource /\ Proper \subseteq HostIds
      BY DEF HostIds, Ids, Resource, Proper
  <2>4. EmptyHost \in Host /\ ~ EmptyHost.refused /\ \A i \in HostIds : ~ Known(EmptyHost, i)
    <3> HIDE DEF Resource, NoResource
    <3> QED
        BY <2>3 DEF EmptyHost, Host, Known
  <2> QED
      BY <2>1, <2>2, <2>3, <2>4
         DEF Init, HostInv, FrameShown, CursorBacked, NoOthers, NoneRefused, NoneStale
<1>2. IdInv /\ HostInv /\ [Next]_vars => HostInv'
  <2>1. ASSUME HostInv, UNCHANGED vars
        PROVE  HostInv'
    <3>1. UNCHANGED <<frameBuf, cursorBuf, leaked, failed, wasReset, stale, host, ctrlQ>>
        BY <2>1 DEF vars, objVars, powerVars
    <3> QED
        BY <2>1, <3>1, AsideKeepsHost
  <2> QED
      BY <2>1, NextKeepsHost
<1> QED
    BY <1>1, <1>2, IdInvariant, PTL DEF Spec

(* However far behind the host is, what is queued brings it to the driver's  *)
(* view of the frame buffer and the cursor: HostFollows of GpuResources.     *)
THEOREM HostCorrect == Spec => []HostFollows
<1>1. HostInv => HostFollows
    BY DEF HostInv, HostFollows, FrameShown, CursorBacked, NoOthers
<1> QED
    BY <1>1, HostInvariant, PTL

-----------------------------------------------------------------------------
(* What the calls that use an object find, and what cursor commands name.    *)
ObjectsThere ==
    failed = "no" /\ power # "gone" =>
        (shaped => cursorBuf # NoObj) /\ (committed => frameBuf # NoObj)

CursorCommandsTell ==
    \A k \in 1 .. Len(crsrQ) :
        crsrQ[k][2] \in Proper =>
            crsrQ[k][2] \in leaked \/ (cursorBuf # NoObj /\ crsrQ[k][2] = cursorBuf.id)

UseInv ==
    /\ crsrQ \in Seq({"update", "move"} \X HostIds)
    /\ ObjectsThere /\ CursorCommandsTell /\ (fault => failed # "no")

LEMMA ShapeKeepsUse ==
    ASSUME IdInv, UseInv, NEW block \in Blocks, NEW result \in Outcomes, NEW colour \in BOOLEAN,
           SetPointerShape(block, result, colour)
    PROVE  UseInv'
<1> DEFINE i == FirstFree(WithoutId(cursorBuf))
           Cmd == {"update", "move"} \X HostIds
<1>1. /\ Renews(cursorBuf, frameBuf, cursorBuf', block, result)
      /\ frameBuf \in Objects /\ cursorBuf \in Objects /\ result \in Results
    BY ShapeRenews DEF IdInv, Typed
<1>2. i \in HostIds /\ (cursorBuf # NoObj => i = cursorBuf.id)
    BY <1>1, NewId DEF Renews
<1>3. /\ UNCHANGED <<frameBuf, fault, committed, power>>
      /\ shaped' = (shaped \/ (result = "done" /\ colour))
      /\ failed' = FailedAfter(result)
      /\ leaked' = leaked \cup IF result = "done" THEN {} ELSE {i}
      /\ result = "done" => cursorBuf' # NoObj /\ cursorBuf'.id = i
      /\ crsrQ' = IF result = "done" /\ colour THEN Append(crsrQ, UpdateCursor(i)) ELSE crsrQ
      /\ ~ fault
    BY <1>1 DEF SetPointerShape, Renews, Running
<1>4. crsrQ \in Seq(Cmd) /\ CursorCommandsTell /\ ObjectsThere
    BY DEF UseInv
<1>5. UpdateCursor(i) \in Cmd /\ UpdateCursor(i)[2] = i
    BY <1>2 DEF UpdateCursor
<1> HIDE DEF i, Cmd
<1>6. crsrQ' \in Seq(Cmd)
    BY <1>3, <1>4, <1>5
<1>7. ASSUME NEW k \in 1 .. Len(crsrQ'), crsrQ'[k][2] \in Proper
      PROVE  crsrQ'[k][2] \in leaked' \/ (cursorBuf' # NoObj /\ crsrQ'[k][2] = cursorBuf'.id)
  <2>1. CASE k \in 1 .. Len(crsrQ) /\ crsrQ'[k] = crsrQ[k]
    <3>1. crsrQ[k][2] \in leaked \/ (cursorBuf # NoObj /\ crsrQ[k][2] = cursorBuf.id)
        BY <2>1, <1>4, <1>7 DEF CursorCommandsTell
    <3> QED
        BY <3>1, <2>1, <1>2, <1>3
  <2>2. CASE result = "done" /\ crsrQ'[k] = UpdateCursor(i)
      BY <2>2, <1>3, <1>5
  <2>3. \/ k \in 1 .. Len(crsrQ) /\ crsrQ'[k] = crsrQ[k]
        \/ result = "done" /\ crsrQ'[k] = UpdateCursor(i)
      BY <1>3, <1>4, <1>5
  <2> QED
      BY <2>1, <2>2, <2>3
<1>8. CursorCommandsTell'
    BY <1>7 DEF CursorCommandsTell
<1>9. failed' = "no" => result = "done" /\ failed = "no"
    BY <1>1, <1>3 DEF FailedAfter, IdInv, Typed
<1>10. ObjectsThere'
    BY <1>3, <1>4, <1>9 DEF ObjectsThere
<1> QED
    BY <1>3, <1>6, <1>8, <1>10 DEF UseInv, Cmd

LEMMA ModeKeepsUse ==
    ASSUME IdInv, UseInv, NEW mode \in Modes, NEW block \in Blocks, NEW result \in Outcomes,
           SetCurrentMode(mode, block, result)
    PROVE  UseInv'
<1>1. /\ Renews(frameBuf, cursorBuf, frameBuf', block, result) /\ result \in Results
    BY ModeRenews
<1>2. /\ UNCHANGED <<cursorBuf, fault, shaped, power, crsrQ>> /\ ~ fault
      /\ failed' = FailedAfter(result) /\ leaked \subseteq leaked'
      /\ result = "done" => frameBuf' # NoObj
    BY <1>1 DEF SetCurrentMode, Renews, Running
<1>3. failed' = "no" => result = "done" /\ failed = "no"
    BY <1>1, <1>2 DEF FailedAfter, IdInv, Typed
<1>4. ObjectsThere' /\ CursorCommandsTell'
    BY <1>2, <1>3 DEF UseInv, ObjectsThere, CursorCommandsTell
<1> QED
    BY <1>2, <1>4 DEF UseInv

LEMMA PositionKeepsUse ==
    ASSUME IdInv, UseInv, SetPointerPosition
    PROVE  UseInv'
<1> DEFINE Cmd == {"update", "move"} \X HostIds
           c == MoveCursor(cursorBuf.id)
<1>1. /\ UNCHANGED <<frameBuf, cursorBuf, failed, leaked, fault, committed, shaped, power>>
      /\ cursorBuf # NoObj /\ crsrQ' = Append(crsrQ, c)
    BY DEF SetPointerPosition, objVars, askedVars, powerVars
<1>2. c \in Cmd /\ c[2] = cursorBuf.id
    BY <1>1 DEF MoveCursor, IdInv, Typed, Objects, Obj, HostIds
<1>3. crsrQ \in Seq(Cmd) /\ CursorCommandsTell /\ ObjectsThere
    BY DEF UseInv
<1> HIDE DEF Cmd, c
<1>4. crsrQ' \in Seq(Cmd)
    BY <1>1, <1>2, <1>3
<1>5. \A k \in 1 .. Len(crsrQ') : (k \in 1 .. Len(crsrQ) /\ crsrQ'[k] = crsrQ[k]) \/ crsrQ'[k] = c
    BY <1>1, <1>2, <1>3
<1>6. CursorCommandsTell'
    BY <1>1, <1>2, <1>3, <1>5 DEF CursorCommandsTell
<1> QED
    BY <1>1, <1>3, <1>4, <1>6 DEF UseInv, ObjectsThere, Cmd

(* A call that finds no object, or an object without an id, follows a         *)
(* failure.                                                                *)
LEMMA FaultKeepsUse ==
    ASSUME IdInv, UseInv, UsesNoObject \/ PutsNoId
    PROVE  UseInv'
<1>1. /\ UNCHANGED <<frameBuf, cursorBuf, failed, leaked, committed, shaped, power, crsrQ>>
      /\ power = "D0"
    BY DEF UsesNoObject, PutsNoId, Crash, Running, objVars, askedVars, powerVars
<1>2. failed # "no"
  <2>1. CASE UsesNoObject
      BY <2>1 DEF UsesNoObject, Running, UseInv, ObjectsThere
  <2>2. CASE PutsNoId
      BY <2>2 DEF PutsNoId, Corrupts, IdInv, NoneLost, Held, Proper, Ids, NoId
  <2> QED
      BY <2>1, <2>2
<1> QED
    BY <1>1, <1>2 DEF UseInv, ObjectsThere, CursorCommandsTell

LEMMA AsideKeepsUse ==
    ASSUME UseInv, UNCHANGED <<failed, leaked, committed, shaped, fault>>,
           \/ /\ UNCHANGED <<frameBuf, cursorBuf>>
              /\ power' = power \/ power # "gone"
           \/ power' = "gone",
           \/ crsrQ' = crsrQ /\ UNCHANGED cursorBuf
           \/ crsrQ # <<>> /\ crsrQ' = Tail(crsrQ) /\ UNCHANGED cursorBuf
           \/ crsrQ' = <<>>
    PROVE  UseInv'
<1> DEFINE Cmd == {"update", "move"} \X HostIds
<1>1. crsrQ \in Seq(Cmd) /\ CursorCommandsTell /\ ObjectsThere
    BY DEF UseInv
<1> HIDE DEF Cmd
<1>2. crsrQ' \in Seq(Cmd)
  <2>1. CASE crsrQ # <<>> /\ crsrQ' = Tail(crsrQ)
      BY <2>1, <1>1
  <2>2. CASE crsrQ' = crsrQ
      BY <2>2, <1>1
  <2>3. CASE crsrQ' = <<>>
      BY <2>3
  <2> QED
      BY <2>1, <2>2, <2>3
<1>3. CursorCommandsTell'
  <2>1. CASE crsrQ # <<>> /\ crsrQ' = Tail(crsrQ) /\ UNCHANGED cursorBuf
    <3>1. \A k \in 1 .. Len(crsrQ') : k + 1 \in 1 .. Len(crsrQ) /\ crsrQ'[k] = crsrQ[k + 1]
        BY <2>1, <1>1
    <3> QED
        BY <2>1, <3>1, <1>1 DEF CursorCommandsTell
  <2>2. CASE crsrQ' = crsrQ /\ UNCHANGED cursorBuf
      BY <2>2, <1>1 DEF CursorCommandsTell
  <2>3. CASE crsrQ' = <<>>
      BY <2>3 DEF CursorCommandsTell
  <2> QED
      BY <2>1, <2>2, <2>3
<1> QED
    BY <1>1, <1>2, <1>3 DEF UseInv, ObjectsThere, Cmd

LEMMA NextKeepsUse ==
    ASSUME IdInv, UseInv, Next
    PROVE  UseInv'
<1> USE DEF objVars, powerVars, askedVars
<1>1. ASSUME \/ SystemDisplayEnable \/ HostControl \/ HostCursor
             \/ PresentDisplayOnly \/ \E v \in BOOLEAN : SetVidPnSourceVisibility(v)
      PROVE  UseInv'
  <2>1. UNCHANGED <<failed, leaked, committed, shaped, fault, frameBuf, cursorBuf, power>>
      BY <1>1 DEF SystemDisplayEnable, HostControl, HostCursor, PresentDisplayOnly,
                  SetVidPnSourceVisibility
  <2>2. crsrQ' = crsrQ \/ (crsrQ # <<>> /\ crsrQ' = Tail(crsrQ))
      BY <1>1 DEF SystemDisplayEnable, HostControl, HostCursor, PresentDisplayOnly,
                  SetVidPnSourceVisibility
  <2> QED
      BY <2>1, <2>2, AsideKeepsUse
<1>2. ASSUME PowerUp \/ PowerDown
      PROVE  UseInv'
  <2>1. UNCHANGED <<failed, leaked, committed, shaped, fault, frameBuf, cursorBuf>>
      BY <1>2 DEF PowerUp, PowerDown
  <2>2. power # "gone" /\ (crsrQ' = crsrQ \/ crsrQ' = <<>>)
      BY <1>2 DEF PowerUp, PowerDown, Running, ResetDevice
  <2> QED
      BY <2>1, <2>2, AsideKeepsUse
<1>3. ASSUME DestroyDevice
      PROVE  UseInv'
  <2>1. UNCHANGED <<failed, leaked, committed, shaped, fault>> /\ power' = "gone" /\ crsrQ' = <<>>
      BY <1>3 DEF DestroyDevice, ResetDevice
  <2> QED
      BY <2>1, AsideKeepsUse
<1> QED
    BY <1>1, <1>2, <1>3, ModeKeepsUse, ShapeKeepsUse, PositionKeepsUse, FaultKeepsUse DEF Next

LEMMA UseInvariant == Spec => []UseInv
<1>1. Init => UseInv
    BY DEF Init, UseInv, ObjectsThere, CursorCommandsTell
<1>2. IdInv /\ UseInv /\ [Next]_vars => UseInv'
  <2>1. ASSUME UseInv, UNCHANGED vars
        PROVE  UseInv'
    <3>1. UNCHANGED <<failed, leaked, committed, shaped, fault, frameBuf, cursorBuf, power, crsrQ>>
        BY <2>1 DEF vars, objVars, powerVars, askedVars
    <3> QED
        BY <2>1, <3>1, AsideKeepsUse
  <2> QED
      BY <2>1, NextKeepsUse
<1> QED
    BY <1>1, <1>2, IdInvariant, PTL DEF Spec

(* The host never has to refuse a command, and no call uses an object that    *)
(* is not there, unless an allocation failed or the device was reset; a       *)
(* cursor command never names the frame buffer or a free id: HostAccepts of  *)
(* GpuResources.                                                           *)
THEOREM CommandsAccepted == Spec => []HostAccepts
<1>1. IdInv /\ HostInv /\ UseInv => HostAccepts
  <2>1. SUFFICES ASSUME IdInv, HostInv, UseInv
                 PROVE  HostAccepts
      OBVIOUS
  <2>2. Settled.refused => failed # "no" \/ wasReset
      BY <2>1 DEF HostInv, NoneRefused
  <2>3. ASSUME NEW k \in 1 .. Len(crsrQ), crsrQ[k][2] \in Proper
        PROVE  ~ (frameBuf # NoObj /\ crsrQ[k][2] = frameBuf.id) /\ crsrQ[k][2] \in idr
    <3> DEFINE i == crsrQ[k][2]
    <3>1. i \in leaked \/ (cursorBuf # NoObj /\ i = cursorBuf.id)
        BY <2>1, <2>3 DEF UseInv, CursorCommandsTell
    <3> HIDE DEF i
    <3>2. i \in Proper
        BY <2>3 DEF i
    <3>3. i \in idr
        BY <2>1, <3>1, <3>2 DEF IdInv, IdAccounting, Held
    <3>4. ~ (frameBuf # NoObj /\ i = frameBuf.id)
        BY <2>1, <3>1, <3>2 DEF IdInv, IdAccounting, Held
    <3> QED
        BY <3>3, <3>4 DEF i
  <2> QED
      BY <2>1, <2>2, <2>3 DEF HostAccepts, UseInv
<1> QED
    BY <1>1, IdInvariant, HostInvariant, UseInvariant, PTL

-----------------------------------------------------------------------------
(* Memory the host is attached to: it is an object's, or its detach is in    *)
(* the queue; and so it will be with what the queue still attaches.  B is the *)
(* relation of the ids to the memory they may be attached to.               *)
Detaches(q, j, i) == q[j][1] = "detach" /\ q[j][2] = i

Covered(h, q, B) ==
    /\ \A i \in HostIds :
          h.res[i].block = NoBlock \/ (\E j \in 1 .. Len(q) : Detaches(q, j, i))
             \/ <<i, h.res[i].block>> \in B
    /\ \A k \in 1 .. Len(q) :
          q[k][1] # "attach" \/ (\E j \in k + 1 .. Len(q) : Detaches(q, j, q[k][2]))
             \/ <<q[k][2], q[k][3]>> \in B

Owned == {<<o.id, o.block>> : o \in {frameBuf, cursorBuf} \ {NoObj}}

LEMMA CoveredMore ==
    ASSUME NEW h, NEW q, NEW B, NEW C, Covered(h, q, B), B \subseteq C
    PROVE  Covered(h, q, C)
    BY DEF Covered

(* Another command than a detach.                                          *)
LEMMA CoveredAppend ==
    ASSUME NEW h, NEW q \in Seq(Command), NEW B, NEW c \in Command, Covered(h, q, B),
           c[1] = "attach" => <<c[2], c[3]>> \in B
    PROVE  Covered(h, Append(q, c), B)
<1> DEFINE r == Append(q, c)
           n == Len(q)
<1> HIDE DEF Command
<1>1. /\ n \in Nat /\ Len(r) = n + 1 /\ r[n + 1] = c
      /\ \A k \in 1 .. n : r[k] = q[k]
    OBVIOUS
<1> HIDE DEF r
<1>2. ASSUME NEW i \in HostIds
      PROVE  h.res[i].block = NoBlock \/ (\E j \in 1 .. n + 1 : Detaches(r, j, i))
                \/ <<i, h.res[i].block>> \in B
    BY SMTT(30), <1>1 DEF Covered, Detaches
<1>3. ASSUME NEW k \in 1 .. n
      PROVE  q[k][1] # "attach" \/ (\E j \in k + 1 .. n + 1 : Detaches(r, j, q[k][2]))
                \/ <<q[k][2], q[k][3]>> \in B
    BY <1>1 DEF Covered, Detaches
<1> QED
    BY SMTT(30), <1>1, <1>2, <1>3 DEF Covered, r

(* A detach covers whatever was attached to the resource.                   *)
LEMMA CoveredDetach ==
    ASSUME NEW h, NEW q \in Seq(Command), NEW B, NEW i \in HostIds, Covered(h, q, B)
    PROVE  Covered(h, Append(q, InvalBacking(i)), {x \in B : x[1] # i})
<1> DEFINE c == InvalBacking(i)
           r == Append(q, c)
           n == Len(q)
           C == {x \in B : x[1] # i}
<1> HIDE DEF Command
<1>1. c \in Command /\ c[1] = "detach" /\ c[2] = i
    BY CommandsTyped DEF InvalBacking
<1> HIDE DEF c
<1>2. /\ n \in Nat /\ Len(r) = n + 1 /\ r[n + 1] = c
      /\ \A k \in 1 .. n : r[k] = q[k]
    BY <1>1
<1> HIDE DEF r
<1>3. ASSUME NEW j \in HostIds
      PROVE  h.res[j].block = NoBlock \/ (\E k \in 1 .. n + 1 : Detaches(r, k, j))
                \/ <<j, h.res[j].block>> \in C
    BY <1>1, <1>2 DEF Covered, Detaches
<1>4. ASSUME NEW k \in 1 .. n
      PROVE  q[k][1] # "attach" \/ (\E j \in k + 1 .. n + 1 : Detaches(r, j, q[k][2]))
                \/ <<q[k][2], q[k][3]>> \in C
    BY <1>1, <1>2 DEF Covered, Detaches
<1> QED
    BY <1>1, <1>2, <1>3, <1>4 DEF Covered, r, c

(* The host works off a command.                                           *)
LEMMA CoveredHead ==
    ASSUME NEW h \in Host, NEW q \in Seq(Command), NEW B, q # <<>>, Covered(h, q, B)
    PROVE  Covered(HostAfter(h, Head(q)), Tail(q), B)
<1> DEFINE c == Head(q)
           r == Tail(q)
           g == HostAfter(h, c)
           n == Len(q)
<1>1. /\ c \in Command /\ c = q[1] /\ n \in Nat /\ n >= 1 /\ Len(r) = n - 1
      /\ \A k \in 1 .. n - 1 : r[k] = q[k + 1]
  <2> HIDE DEF Command
  <2> QED
      OBVIOUS
<1>2. c[2] \in HostIds
    BY <1>1 DEF Command
<1> HIDE DEF c, r
<1>3. ASSUME NEW i \in HostIds
      PROVE  \/ g.res[i].block = NoBlock
             \/ g.res[i].block = h.res[i].block /\ ~ (c[1] = "detach" /\ c[2] = i)
             \/ c[1] = "attach" /\ c[2] = i /\ g.res[i].block = c[3]
    BY SMTT(30), <1>1, <1>2 DEF HostAfter, Host, Refuse, Known, NoResource, Resource, Command, Plain
<1> HIDE DEF g
<1>4. ASSUME NEW i \in HostIds, NEW k \in 1 .. n, Detaches(q, k, i),
             ~ (c[1] = "detach" /\ c[2] = i)
      PROVE  \E j \in 1 .. n - 1 : Detaches(r, j, i)
  <2>1. k - 1 \in 1 .. n - 1 /\ Detaches(r, k - 1, i)
      BY <1>1, <1>4 DEF Detaches
  <2> QED
      BY <2>1
<1>5. ASSUME NEW i \in HostIds
      PROVE  g.res[i].block = NoBlock \/ (\E j \in 1 .. n - 1 : Detaches(r, j, i))
                \/ <<i, g.res[i].block>> \in B
  <2>1. CASE g.res[i].block = h.res[i].block /\ ~ (c[1] = "detach" /\ c[2] = i)
    <3>1. h.res[i].block = NoBlock \/ (\E k \in 1 .. n : Detaches(q, k, i))
             \/ <<i, h.res[i].block>> \in B
        BY DEF Covered
    <3> QED
        BY <3>1, <2>1, <1>4
  <2>2. CASE c[1] = "attach" /\ c[2] = i /\ g.res[i].block = c[3]
    <3>1. (\E k \in 2 .. n : Detaches(q, k, i)) \/ <<i, c[3]>> \in B
        BY <2>2, <1>1 DEF Covered
    <3> QED
        BY <3>1, <2>2, <1>1, <1>4
  <2> QED
      BY <2>1, <2>2, <1>3
<1>6. ASSUME NEW k \in 1 .. n - 1
      PROVE  r[k][1] # "attach" \/ (\E j \in k + 1 .. n - 1 : Detaches(r, j, r[k][2]))
                \/ <<r[k][2], r[k][3]>> \in B
  <2>1. k + 1 \in 1 .. n /\ r[k] = q[k + 1]
      BY <1>1
  <2>2. \/ r[k][1] # "attach" \/ <<r[k][2], r[k][3]>> \in B
        \/ \E j \in (k + 1) + 1 .. n : Detaches(q, j, r[k][2])
      BY <2>1 DEF Covered
  <2>3. ASSUME NEW j \in (k + 1) + 1 .. n, Detaches(q, j, r[k][2])
        PROVE  j - 1 \in k + 1 .. n - 1 /\ Detaches(r, j - 1, r[k][2])
      BY <2>3, <1>1 DEF Detaches
  <2> QED
      BY <2>2, <2>3
<1> QED
    BY <1>1, <1>5, <1>6 DEF Covered, g, c, r

(* The commands of a destroyed and of a new object.                         *)
LEMMA CoveredDrop ==
    ASSUME NEW h, NEW q \in Seq(Command), NEW o \in Objects, NEW B, NEW C, Covered(h, q, B),
           \A x \in B : x \in C \/ (o # NoObj /\ x[1] = o.id)
    PROVE  q \o DropCommands(o) \in Seq(Command) /\ Covered(h, q \o DropCommands(o), C)
<1> HIDE DEF Command
<1>1. CASE o = NoObj
  <2>1. q \o DropCommands(o) = q /\ B \subseteq C
      BY <1>1 DEF DropCommands
  <2> QED
      BY <2>1, CoveredMore
<1>2. CASE o # NoObj
  <2> DEFINE i == o.id
             r == Append(q, InvalBacking(i))
             D == {x \in B : x[1] # i}
  <2>1. i \in HostIds
      BY <1>2 DEF Objects, Obj, HostIds
  <2>2. InvalBacking(i) \in Command /\ UnrefResource(i) \in Command
      BY <2>1, CommandsTyped
  <2>3. r \in Seq(Command) /\ Covered(h, r, D)
      BY <2>1, <2>2, CoveredDetach
  <2>4. UnrefResource(i)[1] # "attach"
      BY DEF UnrefResource
  <2>5. q \o DropCommands(o) = Append(r, UnrefResource(i))
    <3>1. DropCommands(o) = <<InvalBacking(i), UnrefResource(i)>>
        BY <1>2 DEF DropCommands
    <3> HIDE DEF i
    <3> QED
        BY <3>1, <2>2
  <2>6. D \subseteq C
      BY <1>2
  <2> DEFINE c == UnrefResource(i)
  <2> HIDE DEF r, i, D, c
  <2>7. Append(r, c) \in Seq(Command) /\ Covered(h, Append(r, c), D)
    <3>1. c \in Command /\ c[1] # "attach"
        BY <2>2, <2>4 DEF c
    <3>2. Append(r, c) \in Seq(Command)
        BY <3>1, <2>3
    <3>3. Covered(h, Append(r, c), D)
        BY <3>1, <2>3, CoveredAppend
    <3> QED
        BY <3>2, <3>3
  <2> QED
      BY <2>5, <2>6, <2>7, CoveredMore DEF c
<1> QED
    BY <1>1, <1>2

LEMMA CoveredMake ==
    ASSUME NEW h, NEW q \in Seq(Command), NEW i \in HostIds, NEW mode \in Modes \cup {Pointer},
           NEW block \in Blocks, NEW result, NEW B, Covered(h, q, B),
           result = "done" => <<i, block>> \in B
    PROVE  /\ q \o MakeCommands(i, mode, block, result) \in Seq(Command)
           /\ Covered(h, q \o MakeCommands(i, mode, block, result), B)
<1> DEFINE c == CreateResource(i, mode)
           d == AttachBacking(i, block)
           r == Append(q, c)
<1> HIDE DEF Command
<1>1. c \in Command /\ d \in Command
    BY CommandsTyped
<1>2. c[1] # "attach" /\ d[2] = i /\ d[3] = block
    BY DEF CreateResource, AttachBacking
<1> HIDE DEF c, d
<1>3. r \in Seq(Command) /\ Covered(h, r, B)
  <2>1. r \in Seq(Command)
      BY <1>1
  <2>2. Covered(h, r, B)
      BY <1>1, <1>2, CoveredAppend
  <2> QED
      BY <2>1, <2>2
<1>4. CASE result = "done"
  <2>1. q \o MakeCommands(i, mode, block, result) = Append(r, d)
    <3>1. MakeCommands(i, mode, block, result) = <<c>> \o <<d>>
        BY <1>4 DEF MakeCommands, c, d
    <3>2. <<c>> \in Seq(Command) /\ <<d>> \in Seq(Command)
        BY <1>1
    <3>3. q \o (<<c>> \o <<d>>) = (q \o <<c>>) \o <<d>>
        BY <3>2, ConcatAssociative
    <3>4. Append(q, c) = q \o <<c>> /\ Append(r, d) = r \o <<d>>
        BY <1>1, <1>3, AppendIsConcat
    <3> QED
        BY <3>1, <3>3, <3>4
  <2> HIDE DEF r
  <2> QED
      BY <2>1, <1>1, <1>2, <1>3, <1>4, CoveredAppend
<1>5. CASE result # "done"
  <2>1. q \o MakeCommands(i, mode, block, result) = r
    <3>1. MakeCommands(i, mode, block, result) = <<c>>
        BY <1>5 DEF MakeCommands, c
    <3> QED
        BY <3>1, <1>1
  <2> QED
      BY <2>1, <1>3
<1> QED
    BY <1>4, <1>5

(* Commands that attach nothing.                                           *)
LEMMA CoveredConcat ==
    ASSUME NEW h, NEW q \in Seq(Command), NEW s \in Seq(Command), NEW B, Covered(h, q, B),
           \A k \in 1 .. Len(s) : s[k][1] # "attach"
    PROVE  q \o s \in Seq(Command) /\ Covered(h, q \o s, B)
<1> DEFINE r == q \o s
           n == Len(q)
           m == Len(s)
<1> HIDE DEF Command
<1>1. /\ n \in Nat /\ m \in Nat /\ Len(r) = n + m /\ r \in Seq(Command)
      /\ \A k \in 1 .. n : r[k] = q[k]
      /\ \A k \in n + 1 .. n + m : r[k] = s[k - n]
    OBVIOUS
<1> HIDE DEF r, m
<1>2. \A k \in n + 1 .. n + m : r[k][1] # "attach"
    BY <1>1 DEF m
<1>3. ASSUME NEW i \in HostIds
      PROVE  h.res[i].block = NoBlock \/ (\E j \in 1 .. n + m : Detaches(r, j, i))
                \/ <<i, h.res[i].block>> \in B
    BY <1>1 DEF Covered, Detaches
<1>4. ASSUME NEW k \in 1 .. n
      PROVE  q[k][1] # "attach" \/ (\E j \in k + 1 .. n + m : Detaches(r, j, q[k][2]))
                \/ <<q[k][2], q[k][3]>> \in B
    BY SMTT(30), <1>1 DEF Covered, Detaches
<1> QED
    BY <1>1, <1>2, <1>3, <1>4 DEF Covered, r

BackingInv == ctrlQ \in Seq(Command) /\ host \in Host /\ Covered(host, ctrlQ, Owned)

LEMMA HostTyped ==
    ASSUME NEW h \in Host, NEW c \in Command
    PROVE  HostAfter(h, c) \in Host
<1>1. c[2] \in HostIds
    BY DEF Command
<1>2. CASE c[1] = "create"
  <2>1. c = CreateResource(c[2], c[3]) /\ c[3] \in Modes \cup {Pointer}
      BY <1>2 DEF Command, CreateResource, Plain
  <2> QED
      BY <2>1, <1>1, CreateDoes
<1>3. CASE c[1] = "attach"
  <2>1. c = AttachBacking(c[2], c[3]) /\ c[3] \in Blocks
      BY <1>3 DEF Command, AttachBacking, Plain
  <2> QED
      BY <2>1, <1>1, AttachDoes
<1>4. CASE c[1] \in Plain
  <2>1. \/ c = InvalBacking(c[2]) \/ c = UnrefResource(c[2]) \/ c = SetScanout(c[2])
        \/ c = TransferToHost2D(c[2]) \/ c = ResFlush(c[2])
      BY <1>4 DEF Command, Plain, InvalBacking, UnrefResource, SetScanout, TransferToHost2D, ResFlush
  <2> QED
      BY ZenonT(30), <2>1, <1>1, DetachDoes, UnrefDoes, ScanoutDoes, TransferDoes, FlushDoes
<1> QED
    BY <1>2, <1>3, <1>4 DEF Command

LEMMA OwnedAfter ==
    ASSUME NEW new, NEW p, {frameBuf', cursorBuf'} = {new, p}
    PROVE  Owned' = {<<x.id, x.block>> : x \in {new, p} \ {NoObj}}
    BY DEF Owned

(* Owned after o was destroyed and new was created.                         *)
LEMMA RenewOwns ==
    ASSUME IdInv, NEW o \in Objects, NEW p \in Objects, NEW new \in Objects,
           NEW block \in Blocks, NEW result \in Results, Renews(o, p, new, block, result)
    PROVE  /\ \A x \in Owned : x \in Owned' \/ (o # NoObj /\ x[1] = o.id)
           /\ result = "done" => <<FirstFree(WithoutId(o)), block>> \in Owned'
<1>1. /\ Owned = {<<x.id, x.block>> : x \in {o, p} \ {NoObj}}
      /\ Owned' = {<<x.id, x.block>> : x \in {new, p} \ {NoObj}}
    BY OwnedAfter DEF Renews, Replaces, Owned
<1>2. ASSUME NEW x \in Owned
      PROVE  x \in Owned' \/ (o # NoObj /\ x[1] = o.id)
    BY <1>1
<1>3. ASSUME result = "done"
      PROVE  <<FirstFree(WithoutId(o)), block>> \in Owned'
  <2>1. new # NoObj /\ new.id = FirstFree(WithoutId(o)) /\ new.block = block
      BY <1>3 DEF Renews
  <2> QED
      BY <2>1, <1>1
<1> QED
    BY <1>2, <1>3

LEMMA RenewKeepsBacking ==
    ASSUME IdInv, BackingInv, NEW o \in Objects, NEW p \in Objects, NEW new \in Objects,
           NEW mode \in Modes \cup {Pointer}, NEW block \in Blocks, NEW result \in Results,
           Renews(o, p, new, block, result), NEW s \in Seq(Command), host' = host,
           ctrlQ' = ctrlQ \o DropCommands(o)
                       \o MakeCommands(FirstFree(WithoutId(o)), mode, block, result) \o s,
           \A k \in 1 .. Len(s) : s[k][1] # "attach"
    PROVE  BackingInv'
<1> DEFINE i == FirstFree(WithoutId(o))
           q == ctrlQ \o DropCommands(o)
           r == q \o MakeCommands(i, mode, block, result)
<1>1. i \in HostIds
    BY NewId DEF Renews
<1>2. /\ \A x \in Owned : x \in Owned' \/ (o # NoObj /\ x[1] = o.id)
      /\ result = "done" => <<i, block>> \in Owned'
    BY RenewOwns
<1> HIDE DEF Command, i
<1>3. q \in Seq(Command) /\ Covered(host, q, Owned')
    BY <1>2, CoveredDrop DEF BackingInv
<1> HIDE DEF q
<1>4. r \in Seq(Command) /\ Covered(host, r, Owned')
    BY <1>1, <1>2, <1>3, CoveredMake
<1> HIDE DEF r
<1>5. r \o s \in Seq(Command) /\ Covered(host, r \o s, Owned')
    BY <1>4, CoveredConcat
<1>6. ctrlQ' = r \o s
    BY DEF r, q, i
<1> QED
    BY <1>5, <1>6 DEF BackingInv

LEMMA AsideKeepsBacking ==
    ASSUME BackingInv,
           \/ UNCHANGED <<frameBuf, cursorBuf, host, ctrlQ>>
           \/ HostControl
           \/ ResetDevice
    PROVE  BackingInv'
<1>1. CASE UNCHANGED <<frameBuf, cursorBuf, host, ctrlQ>>
  <2>1. Owned' = Owned
      BY <1>1 DEF Owned
  <2> QED
      BY <1>1, <2>1 DEF BackingInv
<1>2. CASE HostControl
  <2>1. Owned' = Owned
      BY <1>2 DEF Owned, HostControl, objVars
  <2>2. ctrlQ # <<>> /\ host' = HostAfter(host, Head(ctrlQ)) /\ ctrlQ' = Tail(ctrlQ)
      BY <1>2 DEF HostControl
  <2> HIDE DEF Command, Host
  <2>3. Head(ctrlQ) \in Command /\ ctrlQ' \in Seq(Command)
      BY <2>2 DEF BackingInv
  <2> QED
      BY <2>1, <2>2, <2>3, CoveredHead, HostTyped DEF BackingInv
<1>3. CASE ResetDevice
  <2>1. 0 \in HostIds /\ NoResource \in Resource
      BY DEF HostIds, Ids, Resource
  <2>2. EmptyHost \in Host /\ \A i \in HostIds : EmptyHost.res[i] = NoResource
    <3> HIDE DEF Resource, NoResource
    <3> QED
        BY <2>1 DEF EmptyHost, Host
  <2>3. \A i \in HostIds : EmptyHost.res[i].block = NoBlock
      BY <2>2 DEF NoResource
  <2>4. Covered(EmptyHost, <<>>, Owned')
      BY <2>3 DEF Covered
  <2> QED
      BY <1>3, <2>2, <2>4 DEF BackingInv, ResetDevice
<1> QED
    BY <1>1, <1>2, <1>3

LEMMA ModeKeepsBacking ==
    ASSUME IdInv, BackingInv, NEW mode \in Modes, NEW block \in Blocks, NEW result \in Outcomes,
           SetCurrentMode(mode, block, result)
    PROVE  BackingInv'
<1> DEFINE i == FirstFree(WithoutId(frameBuf))
           s == IF Initialised(result)
                THEN <<SetScanout(i), TransferToHost2D(i), ResFlush(i)>> ELSE <<>>
<1>1. /\ frameBuf' \in Objects /\ Renews(frameBuf, cursorBuf, frameBuf', block, result)
      /\ frameBuf \in Objects /\ cursorBuf \in Objects /\ result \in Results
    BY ModeRenews DEF IdInv, Typed
<1>2. /\ host' = host
      /\ ctrlQ' = ctrlQ \o DropCommands(frameBuf) \o MakeCommands(i, mode, block, result) \o s
    BY DEF SetCurrentMode
<1>3. i \in HostIds
    BY <1>1, NewId DEF Renews
<1>4. s \in Seq(Command)
  <2> HIDE DEF i, Command
  <2> QED
      BY <1>3, CommandsTyped
<1>5. \A k \in 1 .. Len(s) : s[k][1] # "attach"
    BY DEF SetScanout, TransferToHost2D, ResFlush
<1> HIDE DEF s
<1> QED
    BY <1>1, <1>2, <1>4, <1>5, RenewKeepsBacking

LEMMA ShapeKeepsBacking ==
    ASSUME IdInv, BackingInv, NEW block \in Blocks, NEW result \in Outcomes, NEW colour \in BOOLEAN,
           SetPointerShape(block, result, colour)
    PROVE  BackingInv'
<1> DEFINE i == FirstFree(WithoutId(cursorBuf))
           s == IF result = "done" /\ colour THEN <<TransferToHost2D(i)>> ELSE <<>>
<1>1. /\ cursorBuf' \in Objects /\ Renews(cursorBuf, frameBuf, cursorBuf', block, result)
      /\ frameBuf \in Objects /\ cursorBuf \in Objects /\ result \in Results
    BY ShapeRenews DEF IdInv, Typed
<1>2. /\ host' = host
      /\ ctrlQ' = ctrlQ \o DropCommands(cursorBuf) \o MakeCommands(i, Pointer, block, result) \o s
    BY DEF SetPointerShape
<1>3. i \in HostIds
    BY <1>1, NewId DEF Renews
<1>4. s \in Seq(Command)
  <2> HIDE DEF i, Command
  <2> QED
      BY <1>3, CommandsTyped
<1>5. \A k \in 1 .. Len(s) : s[k][1] # "attach"
    BY DEF TransferToHost2D
<1> HIDE DEF s
<1> QED
    BY <1>1, <1>2, <1>4, <1>5, RenewKeepsBacking

LEMMA PresentKeepsBacking ==
    ASSUME IdInv, BackingInv, PresentDisplayOnly
    PROVE  BackingInv'
<1> DEFINE i == frameBuf.id
           s == <<TransferToHost2D(i), ResFlush(i)>>
<1>1. /\ frameBuf # NoObj /\ ctrlQ' = ctrlQ \o s
      /\ UNCHANGED <<frameBuf, cursorBuf, host>>
    BY DEF PresentDisplayOnly, objVars
<1>2. i \in HostIds
    BY <1>1 DEF IdInv, Typed, Objects, Obj, HostIds
<1>3. s \in Seq(Command)
  <2> HIDE DEF i, Command
  <2> QED
      BY <1>2, CommandsTyped
<1>4. \A k \in 1 .. Len(s) : s[k][1] # "attach"
    BY DEF TransferToHost2D, ResFlush
<1> HIDE DEF s
<1>5. Owned' = Owned
    BY <1>1 DEF Owned
<1> HIDE DEF Command
<1> QED
    BY <1>1, <1>3, <1>4, <1>5, CoveredConcat DEF BackingInv

LEMMA NextKeepsBacking ==
    ASSUME IdInv, BackingInv, Next
    PROVE  BackingInv'
<1> USE DEF objVars
<1>1. ASSUME \/ SetPointerPosition \/ UsesNoObject \/ PutsNoId \/ SystemDisplayEnable
             \/ PowerUp \/ HostCursor \/ \E v \in BOOLEAN : SetVidPnSourceVisibility(v)
      PROVE  BackingInv'
  <2>1. UNCHANGED <<frameBuf, cursorBuf, host, ctrlQ>>
      BY <1>1 DEF SetPointerPosition, UsesNoObject, PutsNoId, SystemDisplayEnable, Crash,
                  PowerUp, HostCursor, SetVidPnSourceVisibility
  <2> QED
      BY <2>1, AsideKeepsBacking
<1>2. ASSUME PowerDown \/ DestroyDevice
      PROVE  BackingInv'
  <2>1. ResetDevice
      BY <1>2 DEF PowerDown, DestroyDevice
  <2> QED
      BY <2>1, AsideKeepsBacking
<1> QED
    BY <1>1, <1>2, ModeKeepsBacking, ShapeKeepsBacking, PresentKeepsBacking, AsideKeepsBacking DEF Next

LEMMA BackingInvariant == Spec => []BackingInv
<1>1. Init => BackingInv
  <2>1. SUFFICES ASSUME Init
                 PROVE  BackingInv
      OBVIOUS
  <2>2. 0 \in HostIds /\ NoResource \in Resource
      BY DEF HostIds, Ids, Resource
  <2>3. EmptyHost \in Host /\ \A i \in HostIds : EmptyHost.res[i] = NoResource
    <3> HIDE DEF Resource, NoResource
    <3> QED
        BY <2>2 DEF EmptyHost, Host
  <2>4. \A i \in HostIds : EmptyHost.res[i].block = NoBlock
      BY <2>3 DEF NoResource
  <2>5. Covered(EmptyHost, <<>>, Owned)
      BY <2>4 DEF Covered
  <2> QED
      BY <2>1, <2>3, <2>5 DEF BackingInv, Init
<1>2. IdInv /\ BackingInv /\ [Next]_vars => BackingInv'
  <2>1. ASSUME BackingInv, UNCHANGED vars
        PROVE  BackingInv'
    <3>1. UNCHANGED <<frameBuf, cursorBuf, host, ctrlQ>>
        BY <2>1 DEF vars, objVars
    <3> QED
        BY <2>1, <3>1, AsideKeepsBacking
  <2> QED
      BY <2>1, NextKeepsBacking
<1> QED
    BY <1>1, <1>2, IdInvariant, PTL DEF Spec

(* Where memory was freed that the host is still attached to, the detach is   *)
(* in the queue: FreedIsDetached of GpuResources.                           *)
THEOREM DetachesQueued == Spec => []FreedIsDetached
<1>1. BackingInv => FreedIsDetached
  <2>1. SUFFICES ASSUME BackingInv, NEW i \in HostIds,
                        host.res[i].block \notin Live \cup {NoBlock}
                 PROVE  \E k \in 1 .. Len(ctrlQ) : ctrlQ[k][1] = "detach" /\ ctrlQ[k][2] = i
      BY DEF FreedIsDetached
  <2>2. <<i, host.res[i].block>> \notin Owned
      BY <2>1 DEF Owned, Live
  <2> QED
      BY <2>1, <2>2 DEF BackingInv, Covered, Detaches
<1> QED
    BY <1>1, BackingInvariant, PTL
=============================================================================
