------------------------------ MODULE Present ------------------------------
(***************************************************************************)
(* A pixel's way from the desktop to the screen: PresentDisplayOnly copies   *)
(* the rectangles dxgkrnl names into the frame buffer, rotating them, and    *)
(* queues a transfer and a flush of the rectangle around them; where dxgkrnl  *)
(* has turned the picture itself it copies it as it is.  The host             *)
(* works these off later, from the frame buffer as it is by then.  The mode  *)
(* stays the same (GpuResources changes it).  A byte offset stands for the    *)
(* pixel that begins there.                                                 *)
(***************************************************************************)
EXTENDS Integers, Sequences, FiniteSetsExt, SequencesExt

CONSTANTS
    Width, Height,  (* SrcModeWidth and SrcModeHeight, also of DispInfo      *)
    SrcPad,         (* pixels at the end of each row of the source           *)
    Rotations,      (* IsVidPnPathFieldsValid accepts "identity" and "90",   *)
                    (* bitops.cpp knows two more                           *)
    CursorSizes,    (* <<width, height>> of pointer shapes                   *)
    PointerSize,    (* POINTER_SIZE                                         *)
    Room,           (* commands that fit into the control queue              *)
    MaxDraws        (* bound on what dxgkrnl does but present                  *)

ASSUME SizeAssumption == {Width, Height, PointerSize, Room} \subseteq Nat \ {0}
ASSUME BoundsAssumption == SrcPad \in Nat /\ MaxDraws \in Nat
ASSUME RotationsAssumption == Rotations \subseteq {"identity", "90", "180", "270"}
ASSUME CursorAssumption ==
    \A s \in CursorSizes : s[1] \in 1 .. PointerSize /\ s[2] \in 1 .. PointerSize

VARIABLES
    desktop,        (* what dxgkrnl wants shown, and what it presents from   *)
    draws,          (* number of changes of desktop, mode and pointer shape  *)
    changed,        (* rectangles dxgkrnl has changed since its last present *)
    rotation,       (* m_CurrentModes[0].Rotation                           *)
    hidden,         (* Flags.SourceNotVisible                               *)
    pc,             (* the next step of PresentDisplayOnly                   *)
    rotate,         (* Flags.Rotate of the present                           *)
    rects,          (* the rectangles it was given, moves before dirty ones  *)
    copied,         (* how many of them are copied                          *)
    frameBuf,       (* contents of the frame buffer, by byte offset          *)
    cursorBuf,      (* contents of the cursor's memory, by byte offset       *)
    shape,          (* width, height and rotation of the last pointer shape   *)
    ctrlq,          (* commands the host has not worked off                  *)
    resource,       (* the host's copy of the frame buffer, by x and y       *)
    screen,         (* what the host shows                                  *)
    faulted,        (* history: pixels whose last copy faulted               *)
    missed          (* history: pixels whose last transfer or flush the queue refused, *)
                    (* or that the driver has turned                         *)

osVars == <<desktop, draws, changed>>
modeVars == <<rotation, hidden>>
callVars == <<pc, rotate, rects, copied>>
hostVars == <<resource, screen>>
cursorVars == <<cursorBuf, shape>>
historyVars == <<faulted, missed>>
vars == <<osVars, modeVars, callVars, frameBuf, cursorVars, ctrlq, hostVars, historyVars>>

BytesPerPixel == 4
Blank == <<>>
Stray == <<"stray">>

Points(w, h) == (0 .. w - 1) \X (0 .. h - 1)
FramePoints == Points(Width, Height)
FrameOffset(p) == BytesPerPixel * (p[2] * Width + p[1])
FrameOffsets == {FrameOffset(p) : p \in FramePoints}
CursorOffsets == {BytesPerPixel * k : k \in 0 .. PointerSize * PointerSize - 1}

(* The desktop of a screen that is turned is as wide as the mode is high.    *)
Turned(rot) == rot \in {"90", "270"}
DesktopWidth(rot) == IF Turned(rot) THEN Height ELSE Width
DesktopHeight(rot) == IF Turned(rot) THEN Width ELSE Height
DesktopPoints(rot) == Points(DesktopWidth(rot), DesktopHeight(rot))

Whole(w, h) == [left |-> 0, top |-> 0, right |-> w, bottom |-> h]
RectsIn(w, h) ==
    {r \in [left : 0 .. w - 1, top : 0 .. h - 1, right : 1 .. w, bottom : 1 .. h] :
        r.left < r.right /\ r.top < r.bottom}
Inside(r) == (r.left .. r.right - 1) \X (r.top .. r.bottom - 1)
Covered(rs) == UNION {Inside(rs[i]) : i \in DOMAIN rs}

(* Where a pixel of the desktop belongs: a quarter turn takes the top edge to *)
(* the left one, and the others are two and three of it.                     *)
QuarterTurn(p, w) == <<p[2], w - 1 - p[1]>>
Place(p, rot) ==
    LET w == DesktopWidth(rot)
        h == DesktopHeight(rot)
    IN  CASE rot = "identity" -> p
          [] rot = "90" -> QuarterTurn(p, w)
          [] rot = "180" -> QuarterTurn(QuarterTurn(p, w), h)
          [] rot = "270" -> QuarterTurn(QuarterTurn(QuarterTurn(p, w), h), w)

(* The rectangle of the frame buffer where a rectangle of the desktop belongs. *)
QuarterRect(r, w) ==
    [left |-> r.top, top |-> w - r.right, right |-> r.bottom, bottom |-> w - r.left]
PlaceRect(r, rot) ==
    LET w == DesktopWidth(rot)
        h == DesktopHeight(rot)
    IN  CASE rot = "identity" -> r
          [] rot = "90" -> QuarterRect(r, w)
          [] rot = "180" -> QuarterRect(QuarterRect(r, w), h)
          [] rot = "270" -> QuarterRect(QuarterRect(QuarterRect(r, w), h), w)

-----------------------------------------------------------------------------
(* bitops.cpp.  A surface is a BLT_INFO: its size, pitch and rotation.       *)

Surface(w, h, pitch, rot) == [Width |-> w, Height |-> h, Pitch |-> pitch, Rotation |-> rot]

PixelPitch(s) ==
    CASE s.Rotation = "identity" -> BytesPerPixel
      [] s.Rotation = "90" -> - s.Pitch
      [] s.Rotation = "180" -> - BytesPerPixel
      [] s.Rotation = "270" -> s.Pitch

RowPitch(s) ==
    CASE s.Rotation = "identity" -> s.Pitch
      [] s.Rotation = "90" -> BytesPerPixel
      [] s.Rotation = "180" -> - s.Pitch
      [] s.Rotation = "270" -> - BytesPerPixel

(* Deviation: width and height are mixed up where the screen is turned.      *)
RowStartMixedUp(s, r) ==
    CASE s.Rotation = "identity" -> r.top * s.Pitch + r.left * BytesPerPixel
      [] s.Rotation = "90" -> (s.Width - 1 - r.left) * s.Pitch + r.top * BytesPerPixel
      [] s.Rotation = "180" ->
            (s.Height - 1 - r.top) * s.Pitch + (s.Width - 1 - r.left) * BytesPerPixel
      [] s.Rotation = "270" -> r.left * s.Pitch + (s.Height - 1 - r.top) * BytesPerPixel

RowStart(s, r) ==
    CASE s.Rotation = "identity" -> r.top * s.Pitch + r.left * BytesPerPixel
      [] s.Rotation = "90" -> (s.Height - 1 - r.left) * s.Pitch + r.top * BytesPerPixel
      [] s.Rotation = "180" ->
            (s.Height - 1 - r.top) * s.Pitch + (s.Width - 1 - r.left) * BytesPerPixel
      [] s.Rotation = "270" -> r.left * s.Pitch + (s.Width - 1 - r.top) * BytesPerPixel

(* Where CopyBitsGeneric reads and writes the pixel in column x and row y of *)
(* a rectangle; CopyBits32_32 goes the same way without a rotation.          *)
Walk(s, r, x, y) == RowStart(s, r) + y * RowPitch(s) + x * PixelPitch(s)

(* The memory after the copy of a rectangle out of another one.              *)
BltBits(memory, dst, src, r, from) ==
    LET cells == Points(r.right - r.left, r.bottom - r.top)
        To(c) == Walk(dst, r, c[1], c[2])
    IN  [o \in DOMAIN memory \cup {To(c) : c \in cells} |->
            LET here == {c \in cells : To(c) = o}
            IN  IF here = {} THEN memory[o]
                ELSE LET c == CHOOSE c \in here : TRUE
                         read == Walk(src, r, c[1], c[2])
                     IN  IF read \in DOMAIN from THEN from[read] ELSE Stray]

(* The source: rows of a desktop's width and padding.                       *)
SrcPitch(w) == (w + SrcPad) * BytesPerPixel
SrcPoint(w, o) == <<(o % SrcPitch(w)) \div BytesPerPixel, o \div SrcPitch(w)>>
SrcOffsets(w, points) == {p[2] * SrcPitch(w) + p[1] * BytesPerPixel : p \in points}

(* What dxgkrnl presents from: the desktop, for the driver to turn if Rotate   *)
(* is set, and a picture that is turned already if it is not.                *)
Pixel(p) == <<p, desktop[p]>>
SourceWidth == IF rotate THEN DesktopWidth(rotation) ELSE Width
SourceHeight == IF rotate THEN DesktopHeight(rotation) ELSE Height
SourceAt(p) == IF rotate THEN p ELSE Place(p, rotation)
Marks(r) == {p \in DOMAIN desktop : SourceAt(p) \in Inside(r)}
DesktopMemory ==
    [o \in SrcOffsets(SourceWidth, Points(SourceWidth, SourceHeight)) |->
        Pixel(CHOOSE p \in DOMAIN desktop : SourceAt(p) = SrcPoint(SourceWidth, o))]

-----------------------------------------------------------------------------
(* Deviation: the moves do not count.                                       *)
FindUpdateRectDirty(rs) ==
    IF rs = <<>> THEN Whole(Width, Height) ELSE Last(rs)

(* FindUpdateRect, and the whole mode where there is no rectangle.           *)
FindUpdateRect(rs) ==
    IF rs = <<>> THEN Whole(Width, Height)
    ELSE LET of == {rs[i] : i \in DOMAIN rs}
         IN  [left |-> Min({r.left : r \in of}), top |-> Min({r.top : r \in of}),
              right |-> Max({r.right : r \in of}), bottom |-> Max({r.bottom : r \in of})]

Init ==
    /\ desktop = [p \in FramePoints |-> 0] /\ draws = 0 /\ changed = <<Whole(Width, Height)>>
    /\ rotation = "identity" /\ hidden = FALSE
    /\ pc = "idle" /\ rotate = FALSE /\ rects = <<>> /\ copied = 0
    /\ frameBuf = [o \in FrameOffsets |-> Blank]
    /\ cursorBuf = <<>> /\ shape = [width |-> 0, height |-> 0, rotation |-> "identity"]
    /\ ctrlq = <<>>
    /\ resource = [p \in FramePoints |-> Blank] /\ screen = resource
    /\ faulted = {} /\ missed = {}

-----------------------------------------------------------------------------
(* dxgkrnl and what it draws.                                              *)

Draw(r) ==
    /\ pc = "idle" /\ draws < MaxDraws
    /\ draws' = draws + 1
    /\ desktop' = [p \in DOMAIN desktop |-> IF p \in Inside(r) THEN draws' ELSE desktop[p]]
    /\ changed' = Append(changed, r)
    /\ UNCHANGED <<modeVars, callVars, frameBuf, cursorVars, ctrlq, hostVars, historyVars>>

(* UpdateActiveVidPnPresentPath.  dxgkrnl draws the desktop anew.            *)
UpdateActiveVidPnPresentPath(rot) ==
    /\ pc = "idle" /\ draws < MaxDraws /\ rot # rotation
    /\ rotation' = rot
    /\ draws' = draws + 1
    /\ desktop' = [p \in DesktopPoints(rot) |-> draws']
    /\ changed' = <<Whole(DesktopWidth(rot), DesktopHeight(rot))>>
    /\ UNCHANGED <<hidden, callVars, frameBuf, cursorVars, ctrlq, hostVars, historyVars>>

(* SetVidPnSourceVisibility.  Only the frame buffer becomes black, the host  *)
(* is not told.  dxgkrnl presents everything once the source is visible.     *)
BlackOutScreen == [o \in DOMAIN frameBuf |-> Blank]

SetVidPnSourceVisibility(visible) ==
    /\ pc = "idle" /\ draws < MaxDraws /\ visible = hidden
    /\ draws' = draws + 1
    /\ hidden' = ~ visible
    /\ IF visible
       THEN /\ changed' = <<Whole(DesktopWidth(rotation), DesktopHeight(rotation))>>
            /\ UNCHANGED frameBuf
       ELSE frameBuf' = BlackOutScreen /\ UNCHANGED changed
    /\ UNCHANGED <<desktop, rotation, callVars, cursorVars, ctrlq, hostVars, historyVars>>

(* PresentDisplayOnly is given the rectangles of the source that have          *)
(* changed, or none.  It returns with success where the source is hidden.   *)
PresentDisplayOnly(turn) ==
    /\ pc = "idle"
    /\ changed' = <<>>
    /\ IF hidden THEN UNCHANGED callVars
       ELSE /\ rotate' = turn
            /\ rects' = IF turn THEN changed
                        ELSE [i \in DOMAIN changed |-> PlaceRect(changed[i], rotation)]
            /\ copied' = 0 /\ pc' = "copy"
    /\ UNCHANGED <<desktop, draws, modeVars, frameBuf, cursorVars, ctrlq, hostVars, historyVars>>

-----------------------------------------------------------------------------
(* ExecutePresentDisplayOnly.                                              *)

(* Deviation: the driver turns what dxgkrnl has turned.                      *)
RotationRegardless == rotation

RotationNeededByFb == IF rotate THEN rotation ELSE "identity"
Dst == Surface(Width, Height, Width * BytesPerPixel, RotationNeededByFb)
Src == Surface(DesktopWidth(RotationNeededByFb), DesktopHeight(RotationNeededByFb),
               SrcPitch(SourceWidth), "identity")

(* The source may be memory of a process: BltBits swallows the exception of  *)
(* a row it cannot read, and the present goes on (bound: no second fault      *)
(* before a present repairs what the first left).                           *)
CopyRect(end) ==
    LET rect == rects[copied + 1]
        part == [rect EXCEPT !.bottom = end]
    IN  /\ pc = "copy" /\ copied < Len(rects)
        /\ end = rect.bottom \/ (end \in rect.top .. rect.bottom /\ faulted = {})
        /\ copied' = copied + 1
        /\ frameBuf' = BltBits(frameBuf, Dst, Src, part, DesktopMemory)
        /\ faulted' = (faulted \ Marks(rect)) \cup (Marks(rect) \ Marks(part))
        /\ UNCHANGED <<osVars, modeVars, pc, rotate, rects, cursorVars, ctrlq, hostVars, missed>>

(* A command the queue has no room for is dropped.                          *)
Queue(cmd) ==
    LET area == Marks(FindUpdateRect(rects))
        room == Len(ctrlq) < Room
    IN  /\ ctrlq' = IF room THEN Append(ctrlq, cmd) ELSE ctrlq
        /\ missed' = IF ~ room \/ RotationNeededByFb # "identity" THEN missed \cup area
                     ELSE IF cmd.op = "transfer" THEN missed \ area
                     ELSE missed

(* The update rectangle is one of the source, also where the driver turns it.  *)
TransferToHost2D ==
    /\ pc = "copy" /\ copied = Len(rects)
    /\ pc' = "flush"
    /\ LET u == FindUpdateRect(rects)
       IN  Queue([op |-> "transfer", x |-> u.left, y |-> u.top,
                  width |-> u.right - u.left, height |-> u.bottom - u.top,
                  offset |-> u.top * Width * BytesPerPixel + u.left * BytesPerPixel])
    /\ UNCHANGED <<osVars, modeVars, rotate, rects, copied, frameBuf, cursorVars, hostVars,
                   faulted>>

ResFlush ==
    /\ pc = "flush"
    /\ pc' = "idle"
    /\ LET u == FindUpdateRect(rects)
       IN  Queue([op |-> "flush", x |-> u.left, y |-> u.top,
                  width |-> u.right - u.left, height |-> u.bottom - u.top])
    /\ rotate' = FALSE /\ rects' = <<>> /\ copied' = 0
    /\ UNCHANGED <<osVars, modeVars, frameBuf, cursorVars, hostVars, faulted>>

(* CreateCursor: a fresh buffer, a source that is turned like the screen.    *)
SetPointerShape(size) ==
    LET rect == [left |-> 0, top |-> 0, right |-> size[1], bottom |-> size[2]]
        src == Surface(size[1], size[2], SrcPitch(size[1]), rotation)
        dst == Surface(PointerSize, PointerSize, PointerSize * BytesPerPixel, "identity")
        pixels == [o \in SrcOffsets(size[1], Points(size[1], size[2])) |-> SrcPoint(size[1], o)]
    IN  /\ pc = "idle" /\ draws < MaxDraws
        /\ draws' = draws + 1
        /\ shape' = [width |-> size[1], height |-> size[2], rotation |-> rotation]
        /\ cursorBuf' = BltBits([o \in CursorOffsets |-> Blank], dst, src, rect, pixels)
        /\ UNCHANGED <<desktop, changed, modeVars, callVars, frameBuf, ctrlq, hostVars,
                       historyVars>>

-----------------------------------------------------------------------------
(* The host: virtio-gpu devices refuse a transfer or a flush that leaves the *)
(* resource.  The rows of the backing are as long as the resource is wide.   *)

CommandArea(cmd) ==
    (cmd.x .. cmd.x + cmd.width - 1) \X (cmd.y .. cmd.y + cmd.height - 1)

HostTransfers ==
    /\ ctrlq # <<>> /\ Head(ctrlq).op = "transfer"
    /\ ctrlq' = Tail(ctrlq)
    /\ LET cmd == Head(ctrlq)
           from == [p \in CommandArea(cmd) |->
                       cmd.offset + BytesPerPixel * ((p[2] - cmd.y) * Width + p[1] - cmd.x)]
       IN  resource' =
             IF CommandArea(cmd) \subseteq FramePoints
             THEN [p \in FramePoints |->
                      IF p \in CommandArea(cmd) /\ from[p] \in DOMAIN frameBuf
                      THEN frameBuf[from[p]] ELSE resource[p]]
             ELSE resource
    /\ UNCHANGED <<osVars, modeVars, callVars, frameBuf, cursorVars, screen, historyVars>>

HostFlushes ==
    /\ ctrlq # <<>> /\ Head(ctrlq).op = "flush"
    /\ ctrlq' = Tail(ctrlq)
    /\ LET area == CommandArea(Head(ctrlq))
       IN  screen' = IF area \subseteq FramePoints
                     THEN [p \in FramePoints |-> IF p \in area THEN resource[p] ELSE screen[p]]
                     ELSE screen
    /\ UNCHANGED <<osVars, modeVars, callVars, frameBuf, cursorVars, resource, historyVars>>

DesktopRects == RectsIn(DesktopWidth(rotation), DesktopHeight(rotation))
Next ==
    \/ \E r \in DesktopRects : Draw(r)
    \/ \E rot \in Rotations : UpdateActiveVidPnPresentPath(rot)
    \/ \E visible \in BOOLEAN : SetVidPnSourceVisibility(visible)
    \/ \E turn \in BOOLEAN : PresentDisplayOnly(turn)
    \/ \E end \in 0 .. SourceHeight : CopyRect(end)
    \/ TransferToHost2D \/ ResFlush
    \/ \E size \in CursorSizes : SetPointerShape(size)
    \/ HostTransfers \/ HostFlushes

Spec == Init /\ [][Next]_vars

-----------------------------------------------------------------------------
(* No copy writes outside the frame buffer or the cursor's buffer or reads   *)
(* outside its source, whatever the rectangle and the rotation.  A pointer    *)
(* shape is turned within its own width and height, so it has to be square    *)
(* where the screen is turned by a quarter.                                 *)
Values(f) == {f[o] : o \in DOMAIN f}
CopiesInside ==
    /\ DOMAIN frameBuf = FrameOffsets /\ Stray \notin Values(frameBuf)
    /\ shape.width = shape.height \/ ~ Turned(shape.rotation) =>
          /\ DOMAIN cursorBuf \subseteq CursorOffsets
          /\ Stray \notin Values(cursorBuf)

(* After each present of a visible source the frame buffer holds the desktop, *)
(* turned once: by the driver where the present's flag asks for it, else by    *)
(* dxgkrnl; over a sequence of presents of either kind that name moves and    *)
(* dirty rectangles, but for pixels whose copy faulted.  A hidden source is   *)
(* black.                                                                   *)
FrameBufferFollows ==
    pc = "idle" =>
        IF hidden THEN Values(frameBuf) = {Blank}
        ELSE \A p \in DOMAIN desktop \ (Covered(changed) \cup faulted) :
                frameBuf[FrameOffset(Place(p, rotation))] = Pixel(p)

(* Where the host has worked off its commands the screen shows the desktop,   *)
(* turned as asked; a pixel whose copy faulted, whose transfer or flush found  *)
(* no room in the queue, or that the driver has turned, is only repaired by a  *)
(* later present that covers it and that dxgkrnl has turned.                  *)
Settled == pc = "idle" /\ ctrlq = <<>> /\ ~ hidden
Shown ==
    \A p \in DOMAIN desktop \ (Covered(changed) \cup faulted \cup missed) :
        screen[Place(p, rotation)] = Pixel(p)
ScreenFollows == Settled => Shown
=============================================================================
