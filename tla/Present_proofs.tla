-------------------------- MODULE Present_proofs --------------------------
(***************************************************************************)
(* Proofs about Present, for screens of any size, any padding of the source *)
(* and any number of draws.                                                *)
(***************************************************************************)
EXTENDS Present, WellFoundedInduction, TLAPS

-----------------------------------------------------------------------------
(* A set of natural numbers has a least element.                            *)
LEMMA LeastOf ==
    ASSUME NEW T, T \subseteq Nat, T # {}
    PROVE  \E n \in T : \A m \in T : n <= m
<1> DEFINE Less == OpToRel(<, Nat)
<1>1. PICK n \in T : \A m \in T : ~ (<<m, n>> \in Less)
    BY WFMin, NatLessThanWellFounded
<1>2. \A m \in Nat : m < n => <<m, n>> \in Less
    BY <1>1 DEF OpToRel
<1> HIDE DEF Less
<1>3. \A m \in T : ~ (m < n)
    BY <1>1, <1>2
<1> QED
    BY <1>1, <1>3


-----------------------------------------------------------------------------
(* Arithmetic of rows and columns.                                          *)
LEMMA Mul ==
    ASSUME NEW a \in Int, NEW b \in Int, NEW w \in Nat, a <= b
    PROVE  a * w <= b * w
    BY SMTT(30)

LEMMA DivMod ==
    ASSUME NEW y \in Nat, NEW p \in Nat \ {0}, NEW r \in 0 .. p - 1
    PROVE  (y * p + r) \div p = y /\ (y * p + r) % p = r
    BY SMTT(30)

(* A pixel's number tells its row and its column.                            *)
LEMMA RowAndColumn ==
    ASSUME NEW w \in Nat \ {0}, NEW x \in 0 .. w - 1, NEW v \in 0 .. w - 1,
           NEW y \in Nat, NEW u \in Nat, y * w + x = u * w + v
    PROVE  y = u /\ x = v
    BY DivMod

LEMMA Sizes ==
    /\ Width \in Nat \ {0} /\ Height \in Nat \ {0} /\ PointerSize \in Nat \ {0}
    /\ Room \in Nat \ {0} /\ SrcPad \in Nat
    BY SizeAssumption, BoundsAssumption

LEMMA FrameOffsetFacts ==
    ASSUME NEW p \in FramePoints
    PROVE  /\ FrameOffset(p) \in Nat /\ FrameOffset(p) \in FrameOffsets
           /\ \A q \in FramePoints : FrameOffset(p) = FrameOffset(q) => p = q
<1>1. ASSUME NEW q \in FramePoints
      PROVE  q = <<q[1], q[2]>> /\ q[1] \in 0 .. Width - 1 /\ q[2] \in 0 .. Height - 1
    BY Sizes DEF FramePoints, Points
<1>2. FrameOffset(p) = 4 * (p[2] * Width + p[1]) /\ p[2] * Width + p[1] \in Nat
    BY <1>1, Sizes DEF FrameOffset, BytesPerPixel
<1>3. FrameOffset(p) \in Nat /\ FrameOffset(p) \in FrameOffsets
    BY <1>2 DEF FrameOffsets
<1>4. ASSUME NEW q \in FramePoints, FrameOffset(p) = FrameOffset(q)
      PROVE  p = q
  <2>1. p[2] * Width + p[1] = q[2] * Width + q[1]
    <3>1. /\ FrameOffset(q) = 4 * (q[2] * Width + q[1]) /\ q[2] * Width + q[1] \in Nat
        BY <1>1, Sizes DEF FrameOffset, BytesPerPixel
    <3> QED
        BY <1>2, <1>4, <3>1
  <2>2. p[1] = q[1] /\ p[2] = q[2]
      BY <1>1, <2>1, RowAndColumn, Sizes
  <2> QED
      BY <1>1, <2>2
<1> QED
    BY <1>3, <1>4

-----------------------------------------------------------------------------
(* Rotations.                                                               *)
Rots == {"identity", "90", "180", "270"}

LEMMA PlaceIs ==
    ASSUME NEW p
    PROVE  /\ Place(p, "identity") = p
           /\ Place(p, "90") = QuarterTurn(p, Height)
           /\ Place(p, "180") = QuarterTurn(QuarterTurn(p, Width), Height)
           /\ Place(p, "270") = QuarterTurn(QuarterTurn(QuarterTurn(p, Height), Width), Height)
           /\ DesktopWidth("identity") = Width /\ DesktopHeight("identity") = Height
           /\ DesktopWidth("90") = Height /\ DesktopHeight("90") = Width
           /\ DesktopWidth("180") = Width /\ DesktopHeight("180") = Height
           /\ DesktopWidth("270") = Height /\ DesktopHeight("270") = Width
    BY DEF Place, DesktopWidth, DesktopHeight, Turned

(* The same as coordinates.                                                 *)
LEMMA PlaceAt ==
    ASSUME NEW x \in Int, NEW y \in Int
    PROVE  /\ Place(<<x, y>>, "identity") = <<x, y>>
           /\ Place(<<x, y>>, "90") = <<y, Height - 1 - x>>
           /\ Place(<<x, y>>, "180") = <<Width - 1 - x, Height - 1 - y>>
           /\ Place(<<x, y>>, "270") = <<Width - 1 - y, x>>
<1>1. ASSUME NEW a \in Int, NEW b \in Int, NEW w \in Int
      PROVE  QuarterTurn(<<a, b>>, w) = <<b, w - 1 - a>> /\ w - 1 - a \in Int
    BY DEF QuarterTurn
<1>2. Width \in Int /\ Height \in Int
    BY Sizes
<1> DEFINE xx == Height - 1 - x
           wx == Width - 1 - x
           wy == Width - 1 - y
           hy == Height - 1 - y
<1>3. xx \in Int /\ wx \in Int /\ wy \in Int /\ hy \in Int /\ Height - 1 - xx = x
    BY <1>2
<1>4. QuarterTurn(<<x, y>>, Height) = <<y, xx>> /\ QuarterTurn(<<x, y>>, Width) = <<y, wx>>
    BY <1>1, <1>2
<1>5. QuarterTurn(<<y, wx>>, Height) = <<wx, hy>> /\ QuarterTurn(<<y, xx>>, Width) = <<xx, wy>>
    BY <1>1, <1>2, <1>3
<1>6. QuarterTurn(<<xx, wy>>, Height) = <<wy, Height - 1 - xx>>
    BY <1>1, <1>2, <1>3
<1> HIDE DEF xx
<1>7. Place(<<x, y>>, "identity") = <<x, y>> /\ Place(<<x, y>>, "90") = <<y, xx>>
    BY <1>4, PlaceIs
<1>8. Place(<<x, y>>, "180") = <<wx, hy>>
    BY <1>4, <1>5, PlaceIs
<1>9. Place(<<x, y>>, "270") = <<wy, x>>
    BY <1>3, <1>4, <1>5, <1>6, PlaceIs
<1> QED
    BY <1>7, <1>8, <1>9 DEF xx

-----------------------------------------------------------------------------
(* The addresses CopyBitsGeneric goes through are those of the turned pixels. *)
LEMMA Distribute ==
    ASSUME NEW a \in Int, NEW b \in Int, NEW w \in Int
    PROVE  (a + b) * w = a * w + b * w /\ (a - b) * w = a * w - b * w
    BY SMTT(30)

LEMMA WalkIs ==
    ASSUME NEW w, NEW h, NEW p, NEW r, NEW x, NEW y
    PROVE  /\ Walk(Surface(w, h, p, "identity"), r, x, y)
                = r.top * p + r.left * 4 + y * p + x * 4
           /\ Walk(Surface(w, h, p, "90"), r, x, y)
                = (h - 1 - r.left) * p + r.top * 4 + y * 4 + x * (- p)
           /\ Walk(Surface(w, h, p, "180"), r, x, y)
                = (h - 1 - r.top) * p + (w - 1 - r.left) * 4 + y * (- p) + x * (- 4)
           /\ Walk(Surface(w, h, p, "270"), r, x, y)
                = r.left * p + (w - 1 - r.top) * 4 + y * (- 4) + x * p
    BY DEF Walk, RowStart, RowPitch, PixelPitch, Surface, BytesPerPixel

LEMMA WalkAt ==
    ASSUME NEW w \in Int, NEW h \in Int, NEW p \in Int,
           NEW r, r.left \in Int, r.top \in Int, NEW x \in Int, NEW y \in Int
    PROVE  /\ Walk(Surface(w, h, p, "identity"), r, x, y) = (r.top + y) * p + (r.left + x) * 4
           /\ Walk(Surface(w, h, p, "90"), r, x, y)
                = (h - 1 - (r.left + x)) * p + (r.top + y) * 4
           /\ Walk(Surface(w, h, p, "180"), r, x, y)
                = (h - 1 - (r.top + y)) * p + (w - 1 - (r.left + x)) * 4
           /\ Walk(Surface(w, h, p, "270"), r, x, y)
                = (r.left + x) * p + (w - 1 - (r.top + y)) * 4
<1> DEFINE l == r.left
           t == r.top
<1>1. l \in Int /\ t \in Int
    OBVIOUS
<1>2. r.left = l /\ r.top = t
    OBVIOUS
<1> HIDE DEF l, t
<1>3. t * p + l * 4 + y * p + x * 4 = (t + y) * p + (l + x) * 4
    BY <1>1, Distribute
<1>4. (h - 1 - l) * p + t * 4 + y * 4 + x * (- p) = (h - 1 - (l + x)) * p + (t + y) * 4
  <2>1. x * (- p) = - (x * p) /\ x * p \in Int
      BY SMTT(30)
  <2>2. (h - 1 - l - x) * p = (h - 1 - l) * p - x * p
      BY <1>1, Distribute
  <2>3. h - 1 - l - x = h - 1 - (l + x) /\ (h - 1 - l) * p \in Int
      BY <1>1
  <2> QED
      BY <1>1, <2>1, <2>2, <2>3
<1>5. (h - 1 - t) * p + (w - 1 - l) * 4 + y * (- p) + x * (- 4)
        = (h - 1 - (t + y)) * p + (w - 1 - (l + x)) * 4
  <2>1. y * (- p) = - (y * p) /\ y * p \in Int
      BY SMTT(30)
  <2>2. (h - 1 - t - y) * p = (h - 1 - t) * p - y * p
      BY <1>1, Distribute
  <2>3. h - 1 - t - y = h - 1 - (t + y) /\ (h - 1 - t) * p \in Int
      BY <1>1
  <2> QED
      BY <1>1, <2>1, <2>2, <2>3
<1>6. l * p + (w - 1 - t) * 4 + y * (- 4) + x * p = (l + x) * p + (w - 1 - (t + y)) * 4
  <2>1. (l + x) * p = l * p + x * p /\ l * p \in Int /\ x * p \in Int
      BY <1>1, Distribute
  <2> QED
      BY <1>1, <2>1
<1> QED
    BY <1>2, <1>3, <1>4, <1>5, <1>6, WalkIs

LEMMA WalkPlain ==
    ASSUME NEW r, r.left \in Int, r.top \in Int
    PROVE  \A w, h, p, x, y \in Int :
             Walk(Surface(w, h, p, "identity"), r, x, y) = (r.top + y) * p + (r.left + x) * 4
<1>1. \A l, t, p, x, y \in Int : t * p + l * 4 + y * p + x * 4 = (t + y) * p + (l + x) * 4
    BY Distribute
<1> QED
    BY <1>1, WalkIs

(* RowStart, RowPitch and PixelPitch put each pixel of a rectangle where it    *)
(* belongs.                                                                  *)
LEMMA WalkDst ==
    ASSUME RotationNeededByFb \in Rots, NEW r, r.left \in Int, r.top \in Int,
           NEW x \in Int, NEW y \in Int
    PROVE  Walk(Dst, r, x, y) = FrameOffset(Place(<<r.left + x, r.top + y>>, RotationNeededByFb))
<1> DEFINE l == r.left + x
           t == r.top + y
           p == Width * 4
<1>1. l \in Int /\ t \in Int /\ Width \in Int /\ Height \in Int /\ p \in Int
    BY Sizes
<1>2. ASSUME NEW a \in Int, NEW b \in Int
      PROVE  FrameOffset(<<a, b>>) = b * p + a * 4
  <2>1. FrameOffset(<<a, b>>) = 4 * (b * Width + a)
      BY DEF FrameOffset, BytesPerPixel
  <2>2. b * Width \in Int /\ b * (Width * 4) = 4 * (b * Width)
      BY <1>1, SMTT(30)
  <2> QED
      BY <1>1, <1>2, <2>1, <2>2
<1>3. Dst = Surface(Width, Height, p, RotationNeededByFb)
    BY DEF Dst, BytesPerPixel
<1>4. /\ Walk(Surface(Width, Height, p, "identity"), r, x, y) = t * p + l * 4
      /\ Walk(Surface(Width, Height, p, "90"), r, x, y) = (Height - 1 - l) * p + t * 4
      /\ Walk(Surface(Width, Height, p, "180"), r, x, y)
           = (Height - 1 - t) * p + (Width - 1 - l) * 4
      /\ Walk(Surface(Width, Height, p, "270"), r, x, y) = l * p + (Width - 1 - t) * 4
    BY <1>1, WalkAt
<1>5. /\ Height - 1 - l \in Int /\ Height - 1 - t \in Int
      /\ Width - 1 - l \in Int /\ Width - 1 - t \in Int
    BY <1>1
<1> HIDE DEF l, t, p
<1>6. /\ Place(<<l, t>>, "identity") = <<l, t>>
      /\ Place(<<l, t>>, "90") = <<t, Height - 1 - l>>
      /\ Place(<<l, t>>, "180") = <<Width - 1 - l, Height - 1 - t>>
      /\ Place(<<l, t>>, "270") = <<Width - 1 - t, l>>
    BY <1>1, PlaceAt
<1>7. Walk(Dst, r, x, y) = FrameOffset(Place(<<l, t>>, RotationNeededByFb))
  <2>1. CASE RotationNeededByFb = "identity"
      BY <1>1, <1>2, <1>3, <1>4, <1>6, <2>1
  <2>2. CASE RotationNeededByFb = "90"
      BY <1>1, <1>2, <1>3, <1>4, <1>5, <1>6, <2>2
  <2>3. CASE RotationNeededByFb = "180"
      BY <1>1, <1>2, <1>3, <1>4, <1>5, <1>6, <2>3
  <2>4. CASE RotationNeededByFb = "270"
      BY <1>1, <1>2, <1>3, <1>4, <1>5, <1>6, <2>4
  <2> QED
      BY <2>1, <2>2, <2>3, <2>4 DEF Rots
<1> QED
    BY <1>7 DEF l, t

LEMMA PlaceInside ==
    ASSUME NEW rot \in Rots, NEW p \in DesktopPoints(rot)
    PROVE  /\ Place(p, rot) \in FramePoints
           /\ \A q \in DesktopPoints(rot) : Place(p, rot) = Place(q, rot) => p = q
<1>1. Width \in Int /\ Height \in Int
    BY Sizes
<1>2. ASSUME NEW q \in DesktopPoints(rot)
      PROVE  /\ q = <<q[1], q[2]>> /\ q[1] \in Int /\ q[2] \in Int
             /\ 0 <= q[1] /\ q[1] < DesktopWidth(rot) /\ 0 <= q[2] /\ q[2] < DesktopHeight(rot)
  <2>1. DesktopWidth(rot) \in Int /\ DesktopHeight(rot) \in Int
      BY <1>1, PlaceIs DEF Rots
  <2> QED
      BY <2>1 DEF DesktopPoints, Points
<1>3. ASSUME NEW a \in Int, NEW b \in Int, 0 <= a, a < Width, 0 <= b, b < Height
      PROVE  <<a, b>> \in FramePoints
    BY <1>1, <1>3 DEF FramePoints, Points
<1>4. ASSUME NEW x \in Int, NEW y \in Int, 0 <= x, x < DesktopWidth(rot),
             0 <= y, y < DesktopHeight(rot)
      PROVE  /\ Place(<<x, y>>, rot) \in FramePoints
             /\ \A u, v \in Int : Place(<<u, v>>, rot) = Place(<<x, y>>, rot) => u = x /\ v = y
  <2>1. CASE rot = "identity"
      BY <1>1, <1>3, <1>4, <2>1, PlaceAt, PlaceIs
  <2>2. CASE rot = "90"
    <3>1. x < Height /\ y < Width /\ Height - 1 - x \in Int
        BY <1>1, <1>4, <2>2, PlaceIs
    <3>2. \A u, v \in Int : Place(<<u, v>>, "90") = <<v, Height - 1 - u>>
        BY PlaceAt
    <3>3. <<y, Height - 1 - x>> \in FramePoints
        BY <1>1, <1>3, <1>4, <3>1
    <3>4. \A u, v \in Int : <<v, Height - 1 - u>> = <<y, Height - 1 - x>> => u = x /\ v = y
        BY <1>1, <1>4
    <3> QED
        BY <1>4, <2>2, <3>2, <3>3, <3>4
  <2>3. CASE rot = "180"
    <3>1. x < Width /\ y < Height /\ Width - 1 - x \in Int /\ Height - 1 - y \in Int
        BY <1>1, <1>4, <2>3, PlaceIs
    <3> QED
        BY <1>1, <1>3, <1>4, <2>3, <3>1, PlaceAt
  <2>4. CASE rot = "270"
    <3>1. x < Height /\ y < Width /\ Width - 1 - y \in Int
        BY <1>1, <1>4, <2>4, PlaceIs
    <3>2. \A u, v \in Int : Place(<<u, v>>, "270") = <<Width - 1 - v, u>>
        BY PlaceAt
    <3>3. <<Width - 1 - y, x>> \in FramePoints
        BY <1>1, <1>3, <1>4, <3>1
    <3>4. \A u, v \in Int : <<Width - 1 - v, u>> = <<Width - 1 - y, x>> => u = x /\ v = y
        BY <1>1, <1>4
    <3> QED
        BY <1>4, <2>4, <3>2, <3>3, <3>4
  <2> QED
      BY <2>1, <2>2, <2>3, <2>4 DEF Rots
<1>5. Place(p, rot) \in FramePoints
  <2>1. Place(<<p[1], p[2]>>, rot) \in FramePoints
      BY <1>2, <1>4
  <2> QED
      BY <1>2, <2>1
<1>6. ASSUME NEW q \in DesktopPoints(rot), Place(p, rot) = Place(q, rot)
      PROVE  p = q
  <2>1. PICK x \in Int, y \in Int :
            /\ q = <<x, y>>
            /\ 0 <= x /\ x < DesktopWidth(rot) /\ 0 <= y /\ y < DesktopHeight(rot)
      BY <1>2
  <2>2. PICK u \in Int, v \in Int : p = <<u, v>>
      BY <1>2
  <2>3. Place(<<u, v>>, rot) = Place(<<x, y>>, rot)
      BY <1>6, <2>1, <2>2
  <2>4. u = x /\ v = y
      BY <1>4, <2>1, <2>3
  <2> QED
      BY <2>1, <2>2, <2>4
<1> QED
    BY <1>5, <1>6

(* A turned pixel has a place of its own in the frame buffer.                 *)
At(p, rot) == FrameOffset(Place(p, rot))

LEMMA AtOwn ==
    ASSUME NEW rot \in Rots, NEW p \in DesktopPoints(rot)
    PROVE  /\ At(p, rot) \in FrameOffsets
           /\ \A q \in DesktopPoints(rot) : At(p, rot) = At(q, rot) => p = q
    BY PlaceInside, FrameOffsetFacts DEF At

(* Reads from the source, a row of which is its pixels and padding.           *)
LEMMA SourceRead ==
    ASSUME NEW w \in Nat, NEW x \in 0 .. w - 1, NEW y \in Nat
    PROVE  /\ SrcPoint(w, y * SrcPitch(w) + x * 4) = <<x, y>>
           /\ SrcPitch(w) \in Nat
<1>1. SrcPitch(w) = (w + SrcPad) * 4 /\ w + SrcPad \in Nat /\ SrcPitch(w) \in Nat \ {0}
    BY Sizes DEF SrcPitch, BytesPerPixel
<1>2. x * 4 \in 0 .. SrcPitch(w) - 1 /\ (x * 4) \div 4 = x
    BY <1>1, Sizes
<1> DEFINE p == SrcPitch(w)
           r == x * 4
<1>3. p \in Nat \ {0} /\ r \in 0 .. p - 1
    BY <1>1, <1>2
<1> HIDE DEF p, r
<1>4. (y * p + r) \div p = y /\ (y * p + r) % p = r
    BY <1>3, DivMod
<1>5. SrcPoint(w, y * p + r) = <<r \div 4, y>>
    BY <1>4 DEF SrcPoint, BytesPerPixel, p
<1> QED
    BY <1>1, <1>2, <1>5 DEF p, r

-----------------------------------------------------------------------------
(* What a copy does to the memory it writes to.                              *)
Cells(r) == Points(r.right - r.left, r.bottom - r.top)
Fetched(src, r, from, c) ==
    IF Walk(src, r, c[1], c[2]) \in DOMAIN from THEN from[Walk(src, r, c[1], c[2])] ELSE Stray

LEMMA BltDoes ==
    ASSUME NEW memory, NEW dst, NEW src, NEW r, NEW from, NEW result,
           result = BltBits(memory, dst, src, r, from)
    PROVE  /\ \A o : o \in DOMAIN result <=>
                 o \in DOMAIN memory \/ \E c \in Cells(r) : Walk(dst, r, c[1], c[2]) = o
           /\ \A o \in DOMAIN result :
                 (\A c \in Cells(r) : Walk(dst, r, c[1], c[2]) # o) => result[o] = memory[o]
           /\ \A c \in Cells(r) :
                 \E d \in Cells(r) :
                     /\ Walk(dst, r, d[1], d[2]) = Walk(dst, r, c[1], c[2])
                     /\ result[Walk(dst, r, c[1], c[2])] = Fetched(src, r, from, d)
<1> DEFINE To(c) == Walk(dst, r, c[1], c[2])
           Here(o) == {c \in Cells(r) : To(c) = o}
           Chosen(o) == CHOOSE c \in Here(o) : TRUE
           All == DOMAIN memory \cup {To(c) : c \in Cells(r)}
<1>1. result = [o \in All |-> IF Here(o) = {} THEN memory[o]
                              ELSE Fetched(src, r, from, Chosen(o))]
    BY DEF BltBits, Cells, Fetched
<1>2. \A o : Here(o) # {} => Chosen(o) \in Cells(r) /\ To(Chosen(o)) = o
    OBVIOUS
<1>3. \A c \in Cells(r) : To(c) \in All /\ Here(To(c)) # {}
    OBVIOUS
<1>4. \A o : (\A c \in Cells(r) : To(c) # o) => Here(o) = {}
    OBVIOUS
<1> HIDE DEF Here, Chosen
<1>5. ASSUME NEW o \in All, \A c \in Cells(r) : To(c) # o
      PROVE  result[o] = memory[o]
    BY <1>1, <1>4, <1>5
<1>6. ASSUME NEW c \in Cells(r)
      PROVE  \E d \in Cells(r) : To(d) = To(c) /\ result[To(c)] = Fetched(src, r, from, d)
    BY <1>1, <1>2, <1>3
<1>7. \A o : o \in DOMAIN result <=> o \in DOMAIN memory \/ \E c \in Cells(r) : To(c) = o
    BY <1>1
<1> QED
    BY <1>5, <1>6, <1>7

(* A rectangle of the source, or the rows of it that could be read.           *)
PartIn(r) ==
    /\ r.left \in Nat /\ r.top \in Nat /\ r.right \in Int /\ r.bottom \in Int
    /\ r.right <= SourceWidth /\ r.bottom <= SourceHeight

SourcePoints == DesktopPoints(RotationNeededByFb)

LEMMA SourceIs ==
    ASSUME rotation \in Rots
    PROVE  /\ RotationNeededByFb \in Rots
           /\ SourceWidth = DesktopWidth(RotationNeededByFb)
           /\ SourceHeight = DesktopHeight(RotationNeededByFb)
           /\ SourceWidth \in Nat \ {0} /\ SourceHeight \in Nat \ {0}
           /\ SourcePoints = Points(SourceWidth, SourceHeight)
<1>1. CASE rotate
    BY <1>1, Sizes, PlaceIs
       DEF SourceWidth, SourceHeight, SourcePoints, DesktopPoints, RotationNeededByFb, Rots
<1>2. CASE ~ rotate
    BY <1>2, Sizes, PlaceIs
       DEF SourceWidth, SourceHeight, SourcePoints, DesktopPoints, RotationNeededByFb, Rots
<1> QED
    BY <1>1, <1>2

(* A pixel of the desktop in the source is put where the pixel belongs.        *)
LEMMA SourceAtIs ==
    ASSUME rotation \in Rots, NEW p \in DesktopPoints(rotation)
    PROVE  /\ SourceAt(p) \in SourcePoints
           /\ At(SourceAt(p), RotationNeededByFb) = At(p, rotation)
           /\ \A q \in DesktopPoints(rotation) : SourceAt(p) = SourceAt(q) => p = q
<1>1. CASE rotate
    BY <1>1 DEF SourceAt, SourcePoints, RotationNeededByFb
<1>2. CASE ~ rotate
  <2>1. SourcePoints = FramePoints
      BY <1>2, PlaceIs DEF SourcePoints, DesktopPoints, FramePoints, RotationNeededByFb
  <2>2. Place(Place(p, rotation), "identity") = Place(p, rotation)
      BY PlaceIs
  <2>3. RotationNeededByFb = "identity" /\ \A q : SourceAt(q) = Place(q, rotation)
      BY <1>2 DEF SourceAt, RotationNeededByFb
  <2> QED
      BY <2>1, <2>2, <2>3, PlaceInside DEF At
<1> QED
    BY <1>1, <1>2

(* What dxgkrnl has put at a point of the source.                             *)
Given(q) == CHOOSE p \in DOMAIN desktop : SourceAt(p) = q

LEMMA GivenIs ==
    ASSUME rotation \in Rots, DOMAIN desktop = DesktopPoints(rotation),
           NEW p \in DesktopPoints(rotation)
    PROVE  Given(SourceAt(p)) = p
<1>1. \E q \in DOMAIN desktop : SourceAt(q) = SourceAt(p)
    OBVIOUS
<1>2. Given(SourceAt(p)) \in DOMAIN desktop /\ SourceAt(Given(SourceAt(p))) = SourceAt(p)
    BY <1>1 DEF Given
<1> QED
    BY <1>2, SourceAtIs

LEMMA PartPoints ==
    ASSUME rotation \in Rots, NEW r, PartIn(r)
    PROVE  /\ \A c \in Cells(r) : /\ c[1] \in Nat /\ c[2] \in Nat
                                  /\ r.left + c[1] \in 0 .. SourceWidth - 1
                                  /\ <<r.left + c[1], r.top + c[2]>> \in Inside(r)
                                  /\ <<r.left + c[1], r.top + c[2]>> \in SourcePoints
           /\ \A p \in Inside(r) : \E c \in Cells(r) : p = <<r.left + c[1], r.top + c[2]>>
           /\ Inside(r) \subseteq SourcePoints
<1>1. /\ SourceWidth \in Int /\ SourceHeight \in Int
      /\ SourcePoints = Points(SourceWidth, SourceHeight)
    BY SourceIs
<1> DEFINE l == r.left
           t == r.top
           b == r.bottom
           g == r.right
           w == SourceWidth
           h == SourceHeight
<1>2. l \in Nat /\ t \in Nat /\ g \in Int /\ b \in Int /\ g <= w /\ b <= h /\ w \in Int /\ h \in Int
    BY <1>1 DEF PartIn
<1>3. /\ Cells(r) = (0 .. g - l - 1) \X (0 .. b - t - 1)
      /\ Inside(r) = (l .. g - 1) \X (t .. b - 1)
      /\ SourcePoints = (0 .. w - 1) \X (0 .. h - 1)
    BY <1>1 DEF Cells, Points, Inside
<1> HIDE DEF l, t, b, g, w, h
<1>4. ASSUME NEW c \in Cells(r)
      PROVE  /\ c[1] \in Nat /\ c[2] \in Nat
             /\ l + c[1] \in 0 .. w - 1 /\ l + c[1] \in l .. g - 1
             /\ t + c[2] \in 0 .. h - 1 /\ t + c[2] \in t .. b - 1
    BY <1>2, <1>3
<1>5. ASSUME NEW p \in Inside(r)
      PROVE  \E c \in Cells(r) : p = <<l + c[1], t + c[2]>>
  <2>1. p = <<p[1], p[2]>> /\ p[1] \in l .. g - 1 /\ p[2] \in t .. b - 1
      BY <1>3
  <2> DEFINE c == <<p[1] - l, p[2] - t>>
  <2>2. p[1] - l \in 0 .. g - l - 1 /\ p[2] - t \in 0 .. b - t - 1
        /\ l + (p[1] - l) = p[1] /\ t + (p[2] - t) = p[2]
      BY <1>2, <2>1
  <2>3. c \in Cells(r) /\ c[1] = p[1] - l /\ c[2] = p[2] - t
      BY <1>3, <2>2
  <2> QED
      BY <2>1, <2>2, <2>3
<1>6. Inside(r) \subseteq SourcePoints
    BY <1>2, <1>3
<1>7. \A c \in Cells(r) : <<l + c[1], t + c[2]>> \in Inside(r)
                          /\ <<l + c[1], t + c[2]>> \in SourcePoints
    BY <1>3, <1>4
<1> QED
    BY <1>4, <1>5, <1>6, <1>7 DEF l, t, w

(* The source of a present holds the pixels of the desktop.                   *)
LEMMA DesktopRead ==
    ASSUME rotation \in Rots, NEW r, PartIn(r),
           NEW c \in Cells(r)
    PROVE  Fetched(Src, r, DesktopMemory, c) = Pixel(Given(<<r.left + c[1], r.top + c[2]>>))
<1> DEFINE w == SourceWidth
           x == r.left + c[1]
           y == r.top + c[2]
           o == y * SrcPitch(w) + x * 4
<1>1. /\ c[1] \in Nat /\ c[2] \in Nat /\ r.left \in Nat /\ r.top \in Nat
      /\ x \in 0 .. w - 1 /\ <<x, y>> \in SourcePoints
  <2>1. r.left \in Nat /\ r.top \in Nat
      BY DEF PartIn
  <2>2. /\ c[1] \in Nat /\ c[2] \in Nat
        /\ x \in 0 .. w - 1 /\ <<x, y>> \in SourcePoints
      BY PartPoints, Zenon
  <2> QED
      BY <2>1, <2>2
<1>2. w \in Nat /\ SourceHeight \in Nat /\ y \in Nat
    BY <1>1, SourceIs
<1>3. Walk(Src, r, c[1], c[2]) = o
  <2>1. /\ w \in Int /\ SourceHeight \in Int /\ SrcPitch(w) \in Int
        /\ c[1] \in Int /\ c[2] \in Int /\ r.left \in Int /\ r.top \in Int
      BY <1>1, <1>2, Sizes DEF SrcPitch, BytesPerPixel
  <2>2. Src = Surface(w, SourceHeight, SrcPitch(w), "identity")
      BY SourceIs DEF Src
  <2>3. \A v, h, p, a, b \in Int :
            Walk(Surface(v, h, p, "identity"), r, a, b) = (r.top + b) * p + (r.left + a) * 4
      BY <2>1, WalkPlain
  <2>4. PICK v \in Int, h \in Int, p \in Int, a \in Int, b \in Int :
            /\ v = w /\ h = SourceHeight /\ p = SrcPitch(w)
            /\ a = c[1] /\ b = c[2]
      BY <2>1
  <2>5. Walk(Surface(v, h, p, "identity"), r, a, b) = (r.top + b) * p + (r.left + a) * 4
      BY <2>3
  <2>6. (r.top + b) * p + (r.left + a) * 4 = o
      BY <2>4
  <2> QED
      BY <2>2, <2>4, <2>5, <2>6
<1> HIDE DEF w, x, y
<1>4. SrcPoint(w, o) = <<x, y>>
    BY <1>1, <1>2, SourceRead
<1>5. o \in SrcOffsets(w, Points(SourceWidth, SourceHeight))
  <2>1. <<x, y>>[1] = x /\ <<x, y>>[2] = y
      OBVIOUS
  <2> QED
      BY <1>1, <2>1, SourceIs DEF SrcOffsets, BytesPerPixel
<1> HIDE DEF o
<1>6. o \in DOMAIN DesktopMemory /\ DesktopMemory[o] = Pixel(Given(SrcPoint(w, o)))
    BY <1>5 DEF DesktopMemory, Given, w
<1> QED
    BY <1>3, <1>4, <1>6 DEF Fetched, x, y

(* A copied rectangle holds its pixels, each at its place; the others keep    *)
(* what they had.                                                           *)
LEMMA CopyPuts ==
    ASSUME rotation \in Rots, DOMAIN frameBuf = FrameOffsets, NEW r, PartIn(r), NEW result,
           result = BltBits(frameBuf, Dst, Src, r, DesktopMemory)
    PROVE  /\ DOMAIN result = FrameOffsets
           /\ \A p \in Inside(r) : result[At(p, RotationNeededByFb)] = Pixel(Given(p))
           /\ \A p \in SourcePoints \ Inside(r) :
                 result[At(p, RotationNeededByFb)] = frameBuf[At(p, RotationNeededByFb)]
           /\ \A o \in FrameOffsets :
                 result[o] = frameBuf[o] \/ \E p : result[o] = Pixel(p)
<1> DEFINE To(c) == Walk(Dst, r, c[1], c[2])
           pt(c) == <<r.left + c[1], r.top + c[2]>>
           Got(c) == Fetched(Src, r, DesktopMemory, c)
<1>0. ASSUME NEW p \in SourcePoints
      PROVE  /\ At(p, RotationNeededByFb) \in FrameOffsets
             /\ \A q \in SourcePoints :
                   At(p, RotationNeededByFb) = At(q, RotationNeededByFb) => p = q
    BY SourceIs, AtOwn DEF SourcePoints
<1>1. /\ \A c \in Cells(r) : pt(c) \in Inside(r) /\ pt(c) \in SourcePoints
      /\ \A p \in Inside(r) : \E c \in Cells(r) : p = pt(c)
      /\ Inside(r) \subseteq SourcePoints
    BY PartPoints
<1>2. ASSUME NEW c \in Cells(r)
      PROVE  To(c) = At(pt(c), RotationNeededByFb) /\ Got(c) = Pixel(Given(pt(c)))
  <2>1. c[1] \in Int /\ c[2] \in Int /\ r.left \in Int /\ r.top \in Int
    <3>1. c[1] \in Nat /\ c[2] \in Nat
        BY PartPoints, Zenon
    <3> QED
        BY <3>1 DEF PartIn
  <2>2. To(c) = At(pt(c), RotationNeededByFb)
      BY <2>1, SourceIs, WalkDst DEF At
  <2> QED
      BY <2>2, DesktopRead
<1>3. /\ \A o : o \in DOMAIN result <=> o \in FrameOffsets \/ \E c \in Cells(r) : To(c) = o
      /\ \A o \in DOMAIN result : (\A c \in Cells(r) : To(c) # o) => result[o] = frameBuf[o]
      /\ \A c \in Cells(r) :
            \E d \in Cells(r) : To(d) = To(c) /\ result[To(c)] = Got(d)
  <2>1. PICK memory, dst, src, from :
            memory = frameBuf /\ dst = Dst /\ src = Src /\ from = DesktopMemory
      BY Zenon
  <2>2. result = BltBits(memory, dst, src, r, from)
      BY <2>1
  <2>3. /\ \A o : o \in DOMAIN result <=>
              o \in DOMAIN memory \/ \E c \in Cells(r) : Walk(dst, r, c[1], c[2]) = o
        /\ \A o \in DOMAIN result :
              (\A c \in Cells(r) : Walk(dst, r, c[1], c[2]) # o) => result[o] = memory[o]
        /\ \A c \in Cells(r) :
              \E d \in Cells(r) :
                  /\ Walk(dst, r, d[1], d[2]) = Walk(dst, r, c[1], c[2])
                  /\ result[Walk(dst, r, c[1], c[2])] = Fetched(src, r, from, d)
      BY <2>2, BltDoes
  <2> QED
      BY <2>1, <2>3
<1> HIDE DEF To, pt, Got
<1>4. DOMAIN result = FrameOffsets
    BY <1>0, <1>1, <1>2, <1>3
<1>5. ASSUME NEW c \in Cells(r)
      PROVE  result[To(c)] = Pixel(Given(pt(c)))
  <2>1. PICK d \in Cells(r) : To(d) = To(c) /\ result[To(c)] = Got(d)
      BY <1>3
  <2>2. pt(d) = pt(c)
      BY <1>0, <1>1, <1>2, <2>1
  <2> QED
      BY <1>2, <2>1, <2>2
<1>6. \A p \in Inside(r) : result[At(p, RotationNeededByFb)] = Pixel(Given(p))
    BY <1>1, <1>2, <1>5
<1>7. ASSUME NEW p \in SourcePoints \ Inside(r)
      PROVE  result[At(p, RotationNeededByFb)] = frameBuf[At(p, RotationNeededByFb)]
  <2>1. \A c \in Cells(r) : To(c) # At(p, RotationNeededByFb)
      BY <1>0, <1>1, <1>2
  <2> QED
      BY <1>0, <1>3, <1>4, <2>1
<1>8. ASSUME NEW o \in FrameOffsets
      PROVE  result[o] = frameBuf[o] \/ \E p : result[o] = Pixel(p)
  <2>1. CASE \A c \in Cells(r) : To(c) # o
      BY <1>3, <1>4, <2>1
  <2>2. CASE \E c \in Cells(r) : To(c) = o
      BY <1>1, <1>5, <2>2
  <2> QED
      BY <2>1, <2>2
<1> QED
    BY <1>4, <1>6, <1>7, <1>8

(* The same by the pixels of the desktop.                                     *)
LEMMA CopyDoes ==
    ASSUME rotation \in Rots, DOMAIN desktop = DesktopPoints(rotation),
           DOMAIN frameBuf = FrameOffsets, NEW r, PartIn(r), NEW result,
           result = BltBits(frameBuf, Dst, Src, r, DesktopMemory)
    PROVE  /\ DOMAIN result = FrameOffsets
           /\ \A p \in DesktopPoints(rotation) :
                 result[At(p, rotation)] = IF SourceAt(p) \in Inside(r) THEN Pixel(p)
                                           ELSE frameBuf[At(p, rotation)]
           /\ \A o \in FrameOffsets : result[o] = frameBuf[o] \/ \E p : result[o] = Pixel(p)
<1>1. /\ DOMAIN result = FrameOffsets
      /\ \A q \in Inside(r) : result[At(q, RotationNeededByFb)] = Pixel(Given(q))
      /\ \A q \in SourcePoints \ Inside(r) :
            result[At(q, RotationNeededByFb)] = frameBuf[At(q, RotationNeededByFb)]
      /\ \A o \in FrameOffsets : result[o] = frameBuf[o] \/ \E p : result[o] = Pixel(p)
    BY CopyPuts
<1>2. ASSUME NEW p \in DesktopPoints(rotation)
      PROVE  result[At(p, rotation)] = IF SourceAt(p) \in Inside(r) THEN Pixel(p)
                                       ELSE frameBuf[At(p, rotation)]
  <2>1. /\ SourceAt(p) \in SourcePoints
        /\ At(SourceAt(p), RotationNeededByFb) = At(p, rotation)
        /\ Given(SourceAt(p)) = p
      BY SourceAtIs, GivenIs
  <2> QED
      BY <1>1, <2>1
<1> QED
    BY <1>1, <1>2

LEMMA NoStray ==
    /\ Blank # Stray /\ (\A p : Pixel(p) # Stray)
    /\ \A w, o : SrcPoint(w, o) # Stray
    BY DEF Blank, Stray, Pixel, SrcPoint

-----------------------------------------------------------------------------
(* A present copies rectangles of its source.                                 *)
SourceRects == RectsIn(SourceWidth, SourceHeight)

TypeInv ==
    /\ rotation \in Rots
    /\ DOMAIN desktop = DesktopPoints(rotation)
    /\ DOMAIN frameBuf = FrameOffsets
    /\ changed \in Seq(DesktopRects) /\ rects \in Seq(SourceRects)
    /\ copied \in 0 .. Len(rects)
    /\ pc \in {"idle", "copy", "flush"}
    /\ pc = "idle" => rects = <<>>
    /\ pc = "flush" => copied = Len(rects)
    /\ pc # "idle" => ~ hidden

LEMMA RotationsFact == Rotations \subseteq Rots /\ "identity" \in Rots
    BY RotationsAssumption DEF Rots

LEMMA DesktopSize ==
    ASSUME NEW rot \in Rots
    PROVE  DesktopWidth(rot) \in Nat \ {0} /\ DesktopHeight(rot) \in Nat \ {0}
    BY Sizes, PlaceIs DEF Rots

LEMMA WholeFact ==
    ASSUME NEW w \in Nat \ {0}, NEW h \in Nat \ {0}
    PROVE  Whole(w, h) \in RectsIn(w, h) /\ Inside(Whole(w, h)) = Points(w, h)
<1>1. Whole(w, h) \in [left : 0 .. w - 1, top : 0 .. h - 1, right : 1 .. w, bottom : 1 .. h]
    BY DEF Whole
<1>2. Whole(w, h) \in RectsIn(w, h)
    BY <1>1 DEF RectsIn, Whole
<1>3. Inside(Whole(w, h)) = Points(w, h)
    BY DEF Whole, Inside, Points
<1> QED
    BY <1>2, <1>3

LEMMA CoveredIs ==
    ASSUME NEW rs, NEW p
    PROVE  p \in Covered(rs) <=> \E i \in DOMAIN rs : p \in Inside(rs[i])
    BY DEF Covered

LEMMA CoveredMore ==
    ASSUME NEW S, NEW rs \in Seq(S), NEW r \in S
    PROVE  \A p : p \in Covered(Append(rs, r)) <=> p \in Covered(rs) \/ p \in Inside(r)
<1> DEFINE more == Append(rs, r)
<1>1. /\ DOMAIN more = 1 .. Len(rs) + 1 /\ DOMAIN rs = 1 .. Len(rs) /\ Len(rs) \in Nat
      /\ more[Len(rs) + 1] = r /\ \A i \in 1 .. Len(rs) : more[i] = rs[i]
    OBVIOUS
<1> HIDE DEF more
<1>2. ASSUME NEW p
      PROVE  p \in Covered(more) <=> p \in Covered(rs) \/ p \in Inside(r)
    BY <1>1, CoveredIs
<1> QED
    BY <1>2 DEF more

LEMMA CoveredWhole ==
    ASSUME NEW rot \in Rots, NEW p \in DesktopPoints(rot)
    PROVE  p \in Covered(<<Whole(DesktopWidth(rot), DesktopHeight(rot))>>)
<1> DEFINE r == Whole(DesktopWidth(rot), DesktopHeight(rot))
           one == <<r>>
<1>1. 1 \in DOMAIN one /\ one[1] = r
    OBVIOUS
<1>2. p \in Inside(r)
    BY DesktopSize, WholeFact DEF DesktopPoints
<1> QED
    BY <1>1, <1>2, CoveredIs

LEMMA TypeStart == Init => TypeInv
<1> SUFFICES ASSUME Init PROVE TypeInv
    OBVIOUS
<1>1. DesktopWidth("identity") = Width /\ DesktopHeight("identity") = Height
    BY PlaceIs
<1>2. rotation = "identity" /\ DesktopPoints(rotation) = FramePoints
    BY <1>1 DEF Init, DesktopPoints, FramePoints
<1>3. DesktopRects = RectsIn(Width, Height)
    BY <1>1, <1>2 DEF DesktopRects
<1>4. changed \in Seq(DesktopRects)
  <2>1. Whole(Width, Height) \in DesktopRects
      BY <1>3, Sizes, WholeFact
  <2> QED
      BY <2>1 DEF Init
<1> QED
    BY <1>2, <1>4, RotationsFact DEF Init, TypeInv, SourceRects

(* The steps that change neither the desktop nor its frame buffer.           *)
LEMMA TypeFrame ==
    ASSUME TypeInv, UNCHANGED <<desktop, rotation, hidden, pc, rotate, rects, copied, changed>>,
           DOMAIN frameBuf' = FrameOffsets
    PROVE  TypeInv'
<1>1. DesktopRects' = DesktopRects /\ SourceRects' = SourceRects
    BY DEF DesktopRects, SourceRects, SourceWidth, SourceHeight
<1> QED
    BY <1>1 DEF TypeInv

LEMMA RectFacts ==
    ASSUME rotation \in Rots, NEW r \in SourceRects
    PROVE  /\ PartIn(r)
           /\ \A end \in 0 .. SourceHeight :
                 LET part == [r EXCEPT !.bottom = end]
                 IN  PartIn(part) /\ (end <= r.bottom => Inside(part) \subseteq Inside(r))
           /\ r.left < r.right /\ r.top < r.bottom
<1>1. SourceWidth \in Nat /\ SourceHeight \in Nat
    BY SourceIs
<1>2. /\ r \in [left : 0 .. SourceWidth - 1, top : 0 .. SourceHeight - 1,
                right : 1 .. SourceWidth, bottom : 1 .. SourceHeight]
      /\ r.left < r.right /\ r.top < r.bottom
    BY DEF SourceRects, RectsIn
<1>3. PartIn(r)
    BY <1>1, <1>2 DEF PartIn
<1>4. ASSUME NEW end \in 0 .. SourceHeight
      PROVE  LET part == [r EXCEPT !.bottom = end]
             IN  PartIn(part) /\ (end <= r.bottom => Inside(part) \subseteq Inside(r))
  <2> DEFINE part == [r EXCEPT !.bottom = end]
  <2>1. part.left = r.left /\ part.top = r.top /\ part.right = r.right /\ part.bottom = end
      BY <1>2
  <2>2. PartIn(part)
      BY <1>1, <1>2, <2>1 DEF PartIn
  <2>3. end <= r.bottom => Inside(part) \subseteq Inside(r)
    <3>1. r.top \in Int /\ r.bottom \in Int /\ end \in Int
        BY <1>1, <1>2
    <3> HIDE DEF part
    <3> QED
        BY <2>1, <3>1 DEF Inside
  <2> QED
      BY <2>2, <2>3
<1> QED
    BY <1>2, <1>3, <1>4

(* A rectangle of the desktop has a rectangle of its own in the frame buffer.   *)
LEMMA QuarterRectIs ==
    ASSUME NEW w \in Nat \ {0}, NEW h \in Nat \ {0}, NEW r \in RectsIn(w, h)
    PROVE  /\ QuarterRect(r, w) \in RectsIn(h, w)
           /\ \A p \in Points(w, h) :
                 /\ QuarterTurn(p, w) \in Points(h, w)
                 /\ QuarterTurn(p, w) \in Inside(QuarterRect(r, w)) <=> p \in Inside(r)
<1> DEFINE l == r.left
           t == r.top
           g == r.right
           b == r.bottom
           q == QuarterRect(r, w)
<1>1. /\ l \in 0 .. w - 1 /\ t \in 0 .. h - 1 /\ g \in 1 .. w /\ b \in 1 .. h
      /\ l < g /\ t < b
    BY DEF RectsIn
<1>2. q = [left |-> t, top |-> w - g, right |-> b, bottom |-> w - l]
    BY DEF QuarterRect
<1>3. Inside(r) = (l .. g - 1) \X (t .. b - 1)
    BY DEF Inside
<1>4. Inside(q) = (t .. b - 1) \X (w - g .. w - l - 1)
    BY <1>2 DEF Inside
<1> HIDE DEF l, t, g, b, q
<1>5. w - g \in 0 .. w - 1 /\ w - l \in 1 .. w /\ w - g < w - l
    BY <1>1
<1>6. q \in RectsIn(h, w)
    BY <1>1, <1>2, <1>5 DEF RectsIn
<1>7. ASSUME NEW p \in Points(w, h)
      PROVE  /\ QuarterTurn(p, w) \in Points(h, w)
             /\ QuarterTurn(p, w) \in Inside(q) <=> p \in Inside(r)
  <2>1. PICK x \in 0 .. w - 1, y \in 0 .. h - 1 : p = <<x, y>>
      BY DEF Points
  <2>2. QuarterTurn(p, w) = <<y, w - 1 - x>> /\ w - 1 - x \in 0 .. w - 1
      BY <2>1 DEF QuarterTurn
  <2>3. w - 1 - x \in w - g .. w - l - 1 <=> x \in l .. g - 1
      BY <1>1
  <2> QED
      BY <1>3, <1>4, <2>1, <2>2, <2>3 DEF Points
<1> QED
    BY <1>6, <1>7 DEF q

LEMMA PlaceRectIs ==
    ASSUME NEW rot \in Rots, NEW r \in RectsIn(DesktopWidth(rot), DesktopHeight(rot))
    PROVE  /\ PlaceRect(r, rot) \in RectsIn(Width, Height)
           /\ \A p \in DesktopPoints(rot) :
                 Place(p, rot) \in Inside(PlaceRect(r, rot)) <=> p \in Inside(r)
<1> DEFINE w == DesktopWidth(rot)
           h == DesktopHeight(rot)
           r1 == QuarterRect(r, w)
           r2 == QuarterRect(r1, h)
           r3 == QuarterRect(r2, w)
           p1(p) == QuarterTurn(p, w)
           p2(p) == QuarterTurn(p1(p), h)
           p3(p) == QuarterTurn(p2(p), w)
<1>1. w \in Nat \ {0} /\ h \in Nat \ {0} /\ r \in RectsIn(w, h)
    BY DesktopSize
<1>2. DesktopPoints(rot) = Points(w, h)
    BY DEF DesktopPoints
<1>3. /\ rot \in {"identity", "180"} => w = Width /\ h = Height
      /\ rot \in {"90", "270"} => w = Height /\ h = Width
    BY PlaceIs
<1>4. /\ rot = "identity" => PlaceRect(r, rot) = r /\ \A p : Place(p, rot) = p
      /\ rot = "90" => PlaceRect(r, rot) = r1 /\ \A p : Place(p, rot) = p1(p)
      /\ rot = "180" => PlaceRect(r, rot) = r2 /\ \A p : Place(p, rot) = p2(p)
      /\ rot = "270" => PlaceRect(r, rot) = r3 /\ \A p : Place(p, rot) = p3(p)
    BY Zenon DEF PlaceRect, Place
<1> HIDE DEF w, h, r1, r2, r3, p1, p2, p3
<1>5. /\ r1 \in RectsIn(h, w)
      /\ \A p \in Points(w, h) :
            p1(p) \in Points(h, w) /\ (p1(p) \in Inside(r1) <=> p \in Inside(r))
    BY <1>1, QuarterRectIs DEF r1, p1
<1>6. /\ r2 \in RectsIn(w, h)
      /\ \A p \in Points(w, h) :
            p2(p) \in Points(w, h) /\ (p2(p) \in Inside(r2) <=> p1(p) \in Inside(r1))
    BY <1>1, <1>5, QuarterRectIs DEF r2, p2
<1>7. /\ r3 \in RectsIn(h, w)
      /\ \A p \in Points(w, h) : p3(p) \in Inside(r3) <=> p2(p) \in Inside(r2)
    BY <1>1, <1>6, QuarterRectIs DEF r3, p3
<1>8. CASE rot = "identity"
    BY <1>1, <1>3, <1>4, <1>8
<1>9. CASE rot = "90"
    BY <1>2, <1>3, <1>4, <1>5, <1>9
<1>10. CASE rot = "180"
    BY <1>2, <1>3, <1>4, <1>5, <1>6, <1>10
<1>11. CASE rot = "270"
    BY <1>2, <1>3, <1>4, <1>5, <1>6, <1>7, <1>11
<1> QED
    BY <1>8, <1>9, <1>10, <1>11 DEF Rots

(* A present is given the rectangles of its source that have changed.         *)
LEMMA PresentGiven ==
    ASSUME TypeInv, NEW turn \in BOOLEAN, PresentDisplayOnly(turn), ~ hidden
    PROVE  /\ rects' \in Seq(SourceRects') /\ Len(rects') = Len(changed)
           /\ \A p \in DesktopPoints(rotation), i \in 1 .. Len(changed) :
                 SourceAt(p)' \in Inside(rects'[i]) <=> p \in Inside(changed[i])
<1>1. /\ rotate' = turn /\ UNCHANGED <<desktop, rotation>>
      /\ rects' = IF turn THEN changed
                  ELSE [i \in DOMAIN changed |-> PlaceRect(changed[i], rotation)]
    BY DEF PresentDisplayOnly, modeVars
<1>2. /\ rotation \in Rots /\ changed \in Seq(DesktopRects)
      /\ Len(changed) \in Nat /\ DOMAIN changed = 1 .. Len(changed)
    BY DEF TypeInv
<1>3. CASE turn
  <2>1. SourceRects' = DesktopRects /\ rects' = changed
      BY <1>1, <1>3 DEF SourceRects, SourceWidth, SourceHeight, DesktopRects
  <2>2. \A p : SourceAt(p)' = p
      BY <1>1, <1>3 DEF SourceAt
  <2> QED
      BY <1>2, <2>1, <2>2
<1>4. CASE ~ turn
  <2>1. /\ SourceRects' = RectsIn(Width, Height)
        /\ rects' = [i \in 1 .. Len(changed) |-> PlaceRect(changed[i], rotation)]
      BY <1>1, <1>2, <1>4 DEF SourceRects, SourceWidth, SourceHeight
  <2>2. \A p : SourceAt(p)' = Place(p, rotation)
      BY <1>1, <1>4 DEF SourceAt, Place, DesktopWidth, DesktopHeight
  <2>3. \A i \in 1 .. Len(changed) :
           /\ PlaceRect(changed[i], rotation) \in RectsIn(Width, Height)
           /\ \A p \in DesktopPoints(rotation) :
                 Place(p, rotation) \in Inside(PlaceRect(changed[i], rotation))
                   <=> p \in Inside(changed[i])
      BY <1>2, PlaceRectIs DEF DesktopRects
  <2>4. rects' \in Seq(RectsIn(Width, Height)) /\ Len(rects') = Len(changed)
      BY <1>2, <2>1, <2>3
  <2> QED
      BY <2>1, <2>2, <2>3, <2>4
<1> QED
    BY <1>3, <1>4

(* A copied rectangle is in the frame buffer but for the rows that faulted.   *)
LEMMA CopyStep ==
    ASSUME TypeInv, NEW end \in 0 .. SourceHeight, CopyRect(end)
    PROVE  /\ DOMAIN frameBuf' = FrameOffsets
           /\ \A p \in DesktopPoints(rotation) :
                 IF SourceAt(p) \in Inside(rects[copied + 1])
                 THEN p \in faulted' \/ frameBuf'[At(p, rotation)] = Pixel(p)
                 ELSE /\ frameBuf'[At(p, rotation)] = frameBuf[At(p, rotation)]
                      /\ p \in faulted' <=> p \in faulted
           /\ \A o \in FrameOffsets :
                 \/ frameBuf'[o] = frameBuf[o]
                 \/ \E p : frameBuf'[o] = Pixel(p)
<1> DEFINE rect == rects[copied + 1]
           part == [rect EXCEPT !.bottom = end]
<1>1. rotation \in Rots /\ rect \in SourceRects /\ end <= rect.bottom
  <2>1. copied < Len(rects) /\ copied \in Nat /\ rects \in Seq(SourceRects)
      BY DEF CopyRect, TypeInv
  <2>2. rect \in SourceRects /\ rotation \in Rots
      BY <2>1 DEF TypeInv
  <2>3. rect.top \in Int /\ rect.bottom \in Int
      BY <2>2, SourceIs DEF SourceRects, RectsIn
  <2>4. end = rect.bottom \/ end \in rect.top .. rect.bottom
      BY DEF CopyRect
  <2> QED
      BY <2>2, <2>3, <2>4
<1>2. frameBuf' = BltBits(frameBuf, Dst, Src, part, DesktopMemory)
    BY DEF CopyRect
<1>3. faulted' = (faulted \ Marks(rect)) \cup (Marks(rect) \ Marks(part))
    BY DEF CopyRect
<1>4. PartIn(part) /\ Inside(part) \subseteq Inside(rect)
    BY <1>1, RectFacts
<1> HIDE DEF part, rect
<1>5. PICK r, result : r = part /\ result = frameBuf'
    OBVIOUS
<1>6. /\ DOMAIN result = FrameOffsets
      /\ \A p \in DesktopPoints(rotation) :
            result[At(p, rotation)] = IF SourceAt(p) \in Inside(r) THEN Pixel(p)
                                      ELSE frameBuf[At(p, rotation)]
      /\ \A o \in FrameOffsets :
            result[o] = frameBuf[o] \/ \E p : result[o] = Pixel(p)
    BY <1>1, <1>2, <1>4, <1>5, CopyDoes DEF TypeInv
<1> QED
    BY <1>3, <1>4, <1>5, <1>6 DEF rect, Marks, TypeInv

LEMMA TypeNext == TypeInv /\ [Next]_vars => TypeInv'
<1> SUFFICES ASSUME TypeInv, [Next]_vars PROVE TypeInv'
    OBVIOUS
<1> USE DEF osVars, modeVars, callVars, hostVars, cursorVars, historyVars
<1>1. ASSUME NEW r \in DesktopRects, Draw(r)
      PROVE  TypeInv'
  <2>1. changed' \in Seq(DesktopRects)
      BY <1>1 DEF Draw, TypeInv
  <2>2. DOMAIN desktop' = DOMAIN desktop
      BY <1>1 DEF Draw
  <2>3. UNCHANGED <<rotation, hidden, pc, rotate, rects, copied, frameBuf>>
      BY <1>1 DEF Draw
  <2>4. DesktopRects' = DesktopRects /\ SourceRects' = SourceRects
      BY <2>3 DEF DesktopRects, SourceRects, SourceWidth, SourceHeight
  <2> QED
      BY <2>1, <2>2, <2>3, <2>4 DEF TypeInv
<1>2. ASSUME NEW rot \in Rotations, UpdateActiveVidPnPresentPath(rot)
      PROVE  TypeInv'
  <2>1. /\ rotation' = rot /\ rot \in Rots /\ DOMAIN desktop' = DesktopPoints(rot)
        /\ changed' = <<Whole(DesktopWidth(rot), DesktopHeight(rot))>>
        /\ UNCHANGED <<hidden, pc, rects, copied, frameBuf>> /\ pc = "idle"
      BY <1>2, RotationsFact DEF UpdateActiveVidPnPresentPath
  <2>2. DesktopRects' = RectsIn(DesktopWidth(rot), DesktopHeight(rot))
      BY <2>1 DEF DesktopRects
  <2>3. changed' \in Seq(DesktopRects')
    <3>1. Whole(DesktopWidth(rot), DesktopHeight(rot)) \in DesktopRects'
        BY <2>1, <2>2, DesktopSize, WholeFact
    <3> QED
        BY <2>1, <3>1
  <2>4. rects' = <<>> /\ copied' = 0 /\ rects' \in Seq(SourceRects')
      BY <2>1 DEF TypeInv
  <2> QED
      BY <2>1, <2>3, <2>4 DEF TypeInv
<1>3. ASSUME NEW visible \in BOOLEAN, SetVidPnSourceVisibility(visible)
      PROVE  TypeInv'
  <2>1. UNCHANGED <<desktop, rotation, pc, rotate, rects, copied>> /\ pc = "idle"
      BY <1>3 DEF SetVidPnSourceVisibility
  <2>2. DOMAIN frameBuf' = FrameOffsets
      BY <1>3 DEF SetVidPnSourceVisibility, BlackOutScreen, TypeInv
  <2>3. changed' \in Seq(DesktopRects)
    <3>1. Whole(DesktopWidth(rotation), DesktopHeight(rotation)) \in DesktopRects
        BY DesktopSize, WholeFact DEF TypeInv, DesktopRects
    <3>2. \/ changed' = <<Whole(DesktopWidth(rotation), DesktopHeight(rotation))>>
          \/ changed' = changed
        BY <1>3, Zenon DEF SetVidPnSourceVisibility
    <3>3. changed \in Seq(DesktopRects)
        BY DEF TypeInv
    <3> DEFINE r == Whole(DesktopWidth(rotation), DesktopHeight(rotation))
    <3>4. <<r>> \in Seq(DesktopRects)
        BY <3>1
    <3> QED
        BY <3>2, <3>3, <3>4, Zenon
  <2>4. DesktopRects' = DesktopRects /\ SourceRects' = SourceRects
      BY <2>1 DEF DesktopRects, SourceRects, SourceWidth, SourceHeight
  <2> QED
      BY <2>1, <2>2, <2>3, <2>4 DEF TypeInv
<1>4. ASSUME NEW turn \in BOOLEAN, PresentDisplayOnly(turn)
      PROVE  TypeInv'
  <2>1. /\ UNCHANGED <<desktop, rotation, hidden, frameBuf>> /\ changed' = <<>>
        /\ DesktopRects' = DesktopRects
      BY <1>4 DEF PresentDisplayOnly, DesktopRects
  <2>2. CASE hidden
    <3>1. UNCHANGED <<pc, rotate, rects, copied>> /\ pc = "idle"
        BY <1>4, <2>2 DEF PresentDisplayOnly
    <3>2. SourceRects' = SourceRects
        BY <2>1, <3>1 DEF SourceRects, SourceWidth, SourceHeight
    <3> QED
        BY <2>1, <3>1, <3>2 DEF TypeInv
  <2>3. CASE ~ hidden
    <3>1. rects' \in Seq(SourceRects') /\ Len(rects') = Len(changed) /\ Len(changed) \in Nat
        BY <1>4, <2>3, PresentGiven DEF TypeInv
    <3>2. copied' = 0 /\ pc' = "copy"
        BY <1>4, <2>3 DEF PresentDisplayOnly
    <3> QED
        BY <2>1, <2>3, <3>1, <3>2 DEF TypeInv
  <2> QED
      BY <2>2, <2>3
<1>5. ASSUME NEW end \in 0 .. SourceHeight, CopyRect(end)
      PROVE  TypeInv'
  <2>1. DOMAIN frameBuf' = FrameOffsets
      BY <1>5, CopyStep
  <2>2. /\ UNCHANGED <<desktop, rotation, hidden, pc, rotate, rects, changed>>
        /\ copied' = copied + 1 /\ copied < Len(rects) /\ pc = "copy"
      BY <1>5 DEF CopyRect
  <2>3. DesktopRects' = DesktopRects /\ SourceRects' = SourceRects
      BY <2>2 DEF DesktopRects, SourceRects, SourceWidth, SourceHeight
  <2> QED
      BY <2>1, <2>2, <2>3 DEF TypeInv
<1>6. CASE TransferToHost2D
  <2>1. /\ UNCHANGED <<desktop, rotation, hidden, rotate, rects, copied, changed, frameBuf>>
        /\ pc = "copy" /\ pc' = "flush" /\ copied = Len(rects)
      BY <1>6 DEF TransferToHost2D
  <2>2. DesktopRects' = DesktopRects /\ SourceRects' = SourceRects
      BY <2>1 DEF DesktopRects, SourceRects, SourceWidth, SourceHeight
  <2> QED
      BY <2>1, <2>2 DEF TypeInv
<1>7. CASE ResFlush
  <2>1. /\ UNCHANGED <<desktop, rotation, hidden, changed, frameBuf>>
        /\ pc' = "idle" /\ rects' = <<>> /\ copied' = 0
      BY <1>7 DEF ResFlush
  <2>2. DesktopRects' = DesktopRects /\ rects' \in Seq(SourceRects')
      BY <2>1 DEF DesktopRects
  <2> QED
      BY <2>1, <2>2 DEF TypeInv
<1>8. ASSUME NEW size \in CursorSizes, SetPointerShape(size)
      PROVE  TypeInv'
    BY <1>8, TypeFrame DEF SetPointerShape, TypeInv
<1>9. CASE HostTransfers
    BY <1>9, TypeFrame DEF HostTransfers, TypeInv
<1>10. CASE HostFlushes
    BY <1>10, TypeFrame DEF HostFlushes, TypeInv
<1>11. CASE UNCHANGED vars
    BY <1>11, TypeFrame DEF vars, TypeInv
<1> QED
    BY <1>1, <1>2, <1>3, <1>4, <1>5, <1>6, <1>7, <1>8, <1>9, <1>10, <1>11 DEF Next

LEMMA Typed == Spec => []TypeInv
    BY TypeStart, TypeNext, PTL DEF Spec

-----------------------------------------------------------------------------
(* CopiesInside.  The source of a pointer shape is read within its own width   *)
(* and height.                                                               *)
Square(s) == s.width = s.height \/ ~ Turned(s.rotation)

InsideInv ==
    /\ \A o \in FrameOffsets : frameBuf[o] # Stray
    /\ Square(shape) =>
          /\ DOMAIN cursorBuf \subseteq CursorOffsets
          /\ \A o \in DOMAIN cursorBuf : cursorBuf[o] # Stray

LEMMA CursorOffset ==
    ASSUME NEW x \in 0 .. PointerSize - 1, NEW y \in 0 .. PointerSize - 1
    PROVE  y * (PointerSize * 4) + x * 4 \in CursorOffsets
<1> DEFINE s == PointerSize
           k == y * s + x
<1>1. s \in Nat \ {0} /\ x \in Int /\ y \in Int
    BY Sizes
<1>2. y * s \in Int /\ (s - 1) * s \in Int /\ s * s \in Int /\ y * (s * 4) = 4 * (y * s)
    BY <1>1, SMTT(30)
<1>3. y * s <= (s - 1) * s /\ 0 <= y * s
    BY <1>1, Mul, SMTT(30)
<1>4. (s - 1) * s = s * s - s
    BY <1>1, SMTT(30)
<1>5. k \in 0 .. s * s - 1
    BY <1>1, <1>2, <1>3, <1>4
<1>6. y * (s * 4) + x * 4 = 4 * k
    BY <1>1, <1>2
<1> QED
    BY <1>5, <1>6 DEF CursorOffsets, BytesPerPixel

(* A pixel of a pointer shape is read where there is one, if a shape that is   *)
(* turned by a quarter is square.                                            *)
LEMMA ShapeRead ==
    ASSUME rotation \in Rots, NEW w \in Nat \ {0}, NEW h \in Nat \ {0},
           w = h \/ ~ Turned(rotation), NEW x \in 0 .. w - 1, NEW y \in 0 .. h - 1
    PROVE  Walk(Surface(w, h, SrcPitch(w), rotation), Whole(w, h), x, y)
             \in SrcOffsets(w, Points(w, h))
<1> DEFINE p == SrcPitch(w)
           r == Whole(w, h)
           out == SrcOffsets(w, Points(w, h))
<1>1. p \in Int /\ w \in Int /\ h \in Int /\ x \in Int /\ y \in Int /\ r.left = 0 /\ r.top = 0
    BY SourceRead, Sizes DEF SrcPitch, BytesPerPixel, Whole
<1>2. ASSUME NEW a \in 0 .. w - 1, NEW b \in 0 .. h - 1
      PROVE  b * p + a * 4 \in out
  <2>1. <<a, b>> \in Points(w, h) /\ <<a, b>>[1] = a /\ <<a, b>>[2] = b
      BY DEF Points
  <2> QED
      BY <2>1 DEF SrcOffsets, BytesPerPixel
<1>3. /\ Walk(Surface(w, h, p, "identity"), r, x, y) = (r.top + y) * p + (r.left + x) * 4
      /\ Walk(Surface(w, h, p, "90"), r, x, y) = (h - 1 - (r.left + x)) * p + (r.top + y) * 4
      /\ Walk(Surface(w, h, p, "180"), r, x, y)
           = (h - 1 - (r.top + y)) * p + (w - 1 - (r.left + x)) * 4
      /\ Walk(Surface(w, h, p, "270"), r, x, y) = (r.left + x) * p + (w - 1 - (r.top + y)) * 4
  <2>1. r.left \in Int /\ r.top \in Int
      BY <1>1
  <2> HIDE DEF p, r
  <2> QED
      BY <1>1, <2>1, WalkAt
<1>4. r.left + x = x /\ r.top + y = y
    BY <1>1
<1> HIDE DEF p, r, out
<1>5. CASE rotation = "identity"
    BY <1>2, <1>3, <1>4, <1>5 DEF p, r, out
<1>6. CASE rotation = "90"
  <2>1. h - 1 - x \in 0 .. h - 1 /\ y \in 0 .. w - 1
      BY <1>6 DEF Turned
  <2> QED
      BY <1>2, <1>3, <1>4, <1>6, <2>1 DEF p, r, out
<1>7. CASE rotation = "180"
  <2>1. h - 1 - y \in 0 .. h - 1 /\ w - 1 - x \in 0 .. w - 1
      OBVIOUS
  <2> QED
      BY <1>2, <1>3, <1>4, <1>7, <2>1 DEF p, r, out
<1>8. CASE rotation = "270"
  <2>1. x \in 0 .. h - 1 /\ w - 1 - y \in 0 .. w - 1
      BY <1>8 DEF Turned
  <2> QED
      BY <1>2, <1>3, <1>4, <1>8, <2>1 DEF p, r, out
<1> QED
    BY <1>5, <1>6, <1>7, <1>8 DEF Rots

LEMMA ShapeKeepsInside ==
    ASSUME TypeInv, InsideInv, NEW size \in CursorSizes, SetPointerShape(size)
    PROVE  InsideInv'
<1> DEFINE rect == [left |-> 0, top |-> 0, right |-> size[1], bottom |-> size[2]]
           buffer == [o \in CursorOffsets |-> Blank]
           to == Surface(PointerSize, PointerSize, PointerSize * BytesPerPixel, "identity")
           source == Surface(size[1], size[2], SrcPitch(size[1]), rotation)
           pixels == [o \in SrcOffsets(size[1], Points(size[1], size[2])) |-> SrcPoint(size[1], o)]
<1>1. UNCHANGED frameBuf
    BY DEF SetPointerShape
<1>2. /\ shape' = [width |-> size[1], height |-> size[2], rotation |-> rotation]
      /\ cursorBuf' = BltBits(buffer, to, source, rect, pixels)
    BY DEF SetPointerShape
<1>3. PICK w \in Nat \ {0}, h \in Nat \ {0} :
          w = size[1] /\ h = size[2] /\ w <= PointerSize /\ h <= PointerSize
    BY Sizes, CursorAssumption
<1>4. rotation \in Rots
    BY DEF TypeInv
<1>5. Square(shape)' => w = h \/ ~ Turned(rotation)
    BY <1>2, <1>3 DEF Square
<1>6. rect = Whole(w, h) /\ Cells(rect) = Points(w, h)
    BY <1>3 DEF Whole, Cells, Points
<1>7. /\ source = Surface(w, h, SrcPitch(w), rotation)
      /\ to = Surface(PointerSize, PointerSize, PointerSize * 4, "identity")
    BY <1>3 DEF BytesPerPixel
<1>8. DOMAIN pixels = SrcOffsets(w, Points(w, h)) /\ \A o \in DOMAIN pixels : pixels[o] # Stray
    BY <1>3, NoStray
<1>9. DOMAIN buffer = CursorOffsets /\ \A o \in CursorOffsets : buffer[o] # Stray
    BY NoStray
<1> HIDE DEF rect, buffer, to, source, pixels
<1>10. PICK memory, dst, src, r, from, result :
           /\ memory = buffer /\ dst = to /\ src = source /\ r = rect /\ from = pixels
           /\ result = cursorBuf'
    BY Zenon
<1>11. /\ \A o : o \in DOMAIN result <=>
             o \in DOMAIN memory \/ \E c \in Cells(r) : Walk(dst, r, c[1], c[2]) = o
       /\ \A o \in DOMAIN result :
             (\A c \in Cells(r) : Walk(dst, r, c[1], c[2]) # o) => result[o] = memory[o]
       /\ \A c \in Cells(r) :
             \E d \in Cells(r) :
                 /\ Walk(dst, r, d[1], d[2]) = Walk(dst, r, c[1], c[2])
                 /\ result[Walk(dst, r, c[1], c[2])] = Fetched(src, r, from, d)
    BY <1>2, <1>10, BltDoes
<1>12. \A c \in Cells(r) : c[1] \in 0 .. w - 1 /\ c[2] \in 0 .. h - 1
    BY <1>6, <1>10 DEF Points
<1>13. ASSUME NEW c \in Cells(r)
       PROVE  Walk(dst, r, c[1], c[2]) \in CursorOffsets
  <2>1. PICK x \in 0 .. PointerSize - 1, y \in 0 .. PointerSize - 1 : x = c[1] /\ y = c[2]
      BY <1>3, <1>12, Sizes
  <2>2. r.left = 0 /\ r.top = 0
      BY <1>6, <1>10 DEF Whole
  <2>3. Walk(Surface(PointerSize, PointerSize, PointerSize * 4, "identity"), r, x, y)
          = (r.top + y) * (PointerSize * 4) + (r.left + x) * 4
    <3>1. PointerSize \in Int /\ PointerSize * 4 \in Int /\ x \in Int /\ y \in Int
        BY Sizes
    <3> QED
        BY <2>2, <3>1, WalkPlain
  <2>4. r.top + y = y /\ r.left + x = x
      BY <2>2
  <2>5. Walk(dst, r, x, y) = y * (PointerSize * 4) + x * 4
      BY <1>7, <1>10, <2>3, <2>4
  <2> QED
      BY <2>1, <2>5, CursorOffset
<1>14. ASSUME NEW c \in Cells(r), w = h \/ ~ Turned(rotation)
       PROVE  Fetched(src, r, from, c) # Stray
  <2>1. PICK x \in 0 .. w - 1, y \in 0 .. h - 1 : x = c[1] /\ y = c[2]
      BY <1>12
  <2>2. Walk(src, r, x, y) \in DOMAIN from
      BY <1>4, <1>6, <1>7, <1>8, <1>10, <1>14, ShapeRead
  <2> QED
      BY <1>8, <1>10, <2>1, <2>2 DEF Fetched
<1>15. DOMAIN result \subseteq CursorOffsets
    BY <1>9, <1>10, <1>11, <1>13
<1>16. ASSUME NEW o \in DOMAIN result, w = h \/ ~ Turned(rotation)
       PROVE  result[o] # Stray
  <2>1. CASE \A c \in Cells(r) : Walk(dst, r, c[1], c[2]) # o
      BY <1>9, <1>10, <1>11, <1>15, <2>1
  <2>2. ASSUME NEW c \in Cells(r), Walk(dst, r, c[1], c[2]) = o
        PROVE  result[o] # Stray
      BY <1>11, <1>14, <1>16, <2>2
  <2> QED
      BY <2>1, <2>2
<1> QED
    BY <1>1, <1>5, <1>10, <1>15, <1>16 DEF InsideInv

LEMMA InsideStart == Init => InsideInv
<1> SUFFICES ASSUME Init PROVE InsideInv
    OBVIOUS
<1>1. \A o \in FrameOffsets : frameBuf[o] = Blank
    BY DEF Init
<1>2. DOMAIN cursorBuf = {}
    BY DEF Init
<1> QED
    BY <1>1, <1>2, NoStray DEF InsideInv

LEMMA InsideNext == TypeInv /\ InsideInv /\ [Next]_vars => InsideInv'
<1> SUFFICES ASSUME TypeInv, InsideInv, [Next]_vars PROVE InsideInv'
    OBVIOUS
<1> USE DEF osVars, modeVars, callVars, hostVars, cursorVars, historyVars
<1>1. ASSUME UNCHANGED cursorVars, \A o \in FrameOffsets : frameBuf'[o] # Stray
      PROVE  InsideInv'
    BY <1>1 DEF InsideInv, Square
<1>2. ASSUME UNCHANGED <<frameBuf, cursorVars>>
      PROVE  InsideInv'
    BY <1>2 DEF InsideInv, Square
<1>3. ASSUME NEW visible \in BOOLEAN, SetVidPnSourceVisibility(visible)
      PROVE  InsideInv'
  <2>1. frameBuf' = frameBuf \/ frameBuf' = [o \in DOMAIN frameBuf |-> Blank]
      BY <1>3, Zenon DEF SetVidPnSourceVisibility, BlackOutScreen
  <2>2. \A o \in FrameOffsets : frameBuf'[o] # Stray
      BY <2>1, NoStray DEF InsideInv, TypeInv
  <2> QED
      BY <1>1, <1>3, <2>2 DEF SetVidPnSourceVisibility
<1>4. ASSUME NEW end \in 0 .. SourceHeight, CopyRect(end)
      PROVE  InsideInv'
  <2>1. \A o \in FrameOffsets : frameBuf'[o] # Stray
      BY <1>4, CopyStep, NoStray DEF InsideInv
  <2> QED
      BY <1>1, <1>4, <2>1 DEF CopyRect
<1>5. ASSUME NEW size \in CursorSizes, SetPointerShape(size)
      PROVE  InsideInv'
    BY <1>5, ShapeKeepsInside
<1>6. ASSUME NEW r \in DesktopRects, Draw(r) PROVE InsideInv'
    BY <1>2, <1>6 DEF Draw
<1>7. ASSUME NEW rot \in Rotations, UpdateActiveVidPnPresentPath(rot) PROVE InsideInv'
    BY <1>2, <1>7 DEF UpdateActiveVidPnPresentPath
<1>8. ASSUME NEW turn \in BOOLEAN, PresentDisplayOnly(turn) PROVE InsideInv'
    BY <1>2, <1>8 DEF PresentDisplayOnly
<1>9. CASE TransferToHost2D \/ ResFlush
    BY <1>2, <1>9 DEF TransferToHost2D, ResFlush
<1>10. CASE HostTransfers \/ HostFlushes
    BY <1>2, <1>10 DEF HostTransfers, HostFlushes
<1>11. CASE UNCHANGED vars
    BY <1>2, <1>11 DEF vars
<1> QED
    BY <1>3, <1>4, <1>5, <1>6, <1>7, <1>8, <1>9, <1>10, <1>11 DEF Next

(* No copy writes outside the frame buffer or the cursor's buffer or reads    *)
(* outside its source: CopiesInside of Present.                              *)
THEOREM CopiesCorrect == Spec => []CopiesInside
<1>1. TypeInv /\ InsideInv => CopiesInside
    BY DEF TypeInv, InsideInv, CopiesInside, Values, Square
<1> QED
    BY <1>1, InsideStart, InsideNext, Typed, PTL DEF Spec

-----------------------------------------------------------------------------
(* FrameBufferFollows, between the rectangles of a present as well.           *)
Pending(p) == \E i \in copied + 1 .. Len(rects) : SourceAt(p) \in Inside(rects[i])

FollowsInv ==
    IF hidden THEN \A o \in FrameOffsets : frameBuf[o] = Blank
    ELSE \A p \in DesktopPoints(rotation) :
            \/ p \in Covered(changed) \/ Pending(p) \/ p \in faulted
            \/ frameBuf[At(p, rotation)] = Pixel(p)

LEMMA AllCovered ==
    ASSUME NEW rot \in Rots, rotation' = rot, ~ hidden',
           changed' = <<Whole(DesktopWidth(rot), DesktopHeight(rot))>>
    PROVE  FollowsInv'
<1>1. \A p \in DesktopPoints(rot) : p \in Covered(changed)'
    BY CoveredWhole DEF Covered
<1> QED
    BY <1>1 DEF FollowsInv

LEMMA FollowsStart == Init => FollowsInv
<1> SUFFICES ASSUME Init PROVE FollowsInv
    OBVIOUS
<1>1. hidden = FALSE /\ rotation \in Rots
      /\ changed = <<Whole(DesktopWidth(rotation), DesktopHeight(rotation))>>
    BY PlaceIs, RotationsFact DEF Init
<1>2. \A p \in DesktopPoints(rotation) : p \in Covered(changed)
    BY <1>1, CoveredWhole
<1> QED
    BY <1>1, <1>2 DEF FollowsInv

LEMMA FollowsFrame ==
    ASSUME FollowsInv,
           UNCHANGED <<desktop, rotation, hidden, rotate, rects, copied, changed>>,
           UNCHANGED <<frameBuf, faulted>>
    PROVE  FollowsInv'
<1>1. \A p : SourceAt(p)' = SourceAt(p)
    BY DEF SourceAt, Place, DesktopWidth, DesktopHeight
<1> QED
    BY <1>1 DEF FollowsInv, Pending, Covered, Pixel

LEMMA DrawKeepsFollows ==
    ASSUME TypeInv, FollowsInv, NEW r \in DesktopRects, Draw(r)
    PROVE  FollowsInv'
<1>1. /\ UNCHANGED <<rotation, hidden, rotate, rects, copied, frameBuf, faulted>>
      /\ changed' = Append(changed, r)
      /\ \A p \in DesktopPoints(rotation) : p \notin Inside(r) => desktop'[p] = desktop[p]
    BY DEF Draw, modeVars, callVars, historyVars, TypeInv
<1>2. CASE hidden
    BY <1>1, <1>2 DEF FollowsInv
<1>3. ASSUME ~ hidden, NEW p \in DesktopPoints(rotation)
      PROVE  (\/ p \in Covered(changed) \/ Pending(p) \/ p \in faulted
              \/ frameBuf[At(p, rotation)] = Pixel(p))'
  <2>1. p \in Covered(Append(changed, r)) <=> p \in Covered(changed) \/ p \in Inside(r)
      BY CoveredMore DEF TypeInv
  <2>2. p \in Covered(changed)' <=> p \in Covered(Append(changed, r))
      BY <1>1 DEF Covered
  <2>3. p \notin Inside(r) => Pixel(p)' = Pixel(p)
      BY <1>1 DEF Pixel
  <2>4. Pending(p)' <=> Pending(p)
    <3>1. SourceAt(p)' = SourceAt(p)
        BY <1>1 DEF SourceAt, Place, DesktopWidth, DesktopHeight
    <3> QED
        BY <1>1, <3>1 DEF Pending
  <2>5. \/ p \in Covered(changed) \/ Pending(p) \/ p \in faulted
        \/ frameBuf[At(p, rotation)] = Pixel(p)
      BY <1>3 DEF FollowsInv
  <2> QED
      BY <1>1, <2>1, <2>2, <2>3, <2>4, <2>5
<1> QED
    BY <1>1, <1>2, <1>3 DEF FollowsInv

LEMMA PresentKeepsFollows ==
    ASSUME TypeInv, FollowsInv, NEW turn \in BOOLEAN, PresentDisplayOnly(turn)
    PROVE  FollowsInv'
<1>1. UNCHANGED <<desktop, rotation, hidden, frameBuf, faulted>> /\ changed' = <<>> /\ pc = "idle"
    BY DEF PresentDisplayOnly, modeVars, historyVars
<1>2. CASE hidden
    BY <1>1, <1>2 DEF FollowsInv
<1>3. ASSUME ~ hidden, NEW p \in DesktopPoints(rotation)
      PROVE  (\/ p \in Covered(changed) \/ Pending(p) \/ p \in faulted
              \/ frameBuf[At(p, rotation)] = Pixel(p))'
  <2>1. /\ copied' = 0 /\ Len(rects') = Len(changed)
        /\ \A i \in 1 .. Len(changed) :
              SourceAt(p)' \in Inside(rects'[i]) <=> p \in Inside(changed[i])
      BY <1>3, PresentGiven DEF PresentDisplayOnly
  <2>2. ~ Pending(p)
      BY <1>1 DEF TypeInv, Pending
  <2>3. p \in Covered(changed) => Pending(p)'
    <3>1. DOMAIN changed = 1 .. Len(changed)
        BY DEF TypeInv
    <3> QED
        BY <2>1, <3>1, CoveredIs DEF Pending
  <2>4. \/ p \in Covered(changed) \/ Pending(p) \/ p \in faulted
        \/ frameBuf[At(p, rotation)] = Pixel(p)
      BY <1>3 DEF FollowsInv
  <2> QED
      BY <1>1, <2>2, <2>3, <2>4 DEF Pixel
<1> QED
    BY <1>1, <1>2, <1>3 DEF FollowsInv

LEMMA CopyKeepsFollows ==
    ASSUME TypeInv, FollowsInv, NEW end \in 0 .. SourceHeight, CopyRect(end)
    PROVE  FollowsInv'
<1>1. /\ UNCHANGED <<desktop, changed, rotation, hidden, rotate, rects>>
      /\ copied' = copied + 1 /\ copied < Len(rects) /\ ~ hidden
    BY DEF CopyRect, osVars, modeVars, TypeInv
<1>2. ASSUME NEW p \in DesktopPoints(rotation)
      PROVE  (\/ p \in Covered(changed) \/ Pending(p) \/ p \in faulted
              \/ frameBuf[At(p, rotation)] = Pixel(p))'
  <2>1. IF SourceAt(p) \in Inside(rects[copied + 1])
        THEN p \in faulted' \/ frameBuf'[At(p, rotation)] = Pixel(p)
        ELSE /\ frameBuf'[At(p, rotation)] = frameBuf[At(p, rotation)]
             /\ p \in faulted' <=> p \in faulted
      BY CopyStep
  <2>2. Pending(p) => Pending(p)' \/ SourceAt(p) \in Inside(rects[copied + 1])
    <3>1. copied \in Int /\ Len(rects) \in Int
        BY DEF TypeInv
    <3>2. SourceAt(p)' = SourceAt(p)
        BY <1>1 DEF SourceAt, Place, DesktopWidth, DesktopHeight
    <3> QED
        BY <1>1, <3>1, <3>2 DEF Pending
  <2>3. \/ p \in Covered(changed) \/ Pending(p) \/ p \in faulted
        \/ frameBuf[At(p, rotation)] = Pixel(p)
      BY <1>1 DEF FollowsInv
  <2>4. Pixel(p)' = Pixel(p) /\ (p \in Covered(changed)' <=> p \in Covered(changed))
        /\ At(p, rotation)' = At(p, rotation)
      BY <1>1 DEF Pixel, Covered
  <2> QED
      BY <1>1, <2>1, <2>2, <2>3, <2>4
<1> QED
    BY <1>1, <1>2 DEF FollowsInv

LEMMA FlushKeepsFollows ==
    ASSUME TypeInv, FollowsInv, ResFlush
    PROVE  FollowsInv'
<1>1. UNCHANGED <<desktop, changed, rotation, hidden, frameBuf, faulted>> /\ copied = Len(rects)
    BY DEF ResFlush, osVars, modeVars, TypeInv
<1>2. \A p : ~ Pending(p)
    BY <1>1 DEF Pending, TypeInv
<1> QED
    BY <1>1, <1>2 DEF FollowsInv, Pixel, Covered

LEMMA FollowsNext == TypeInv /\ FollowsInv /\ [Next]_vars => FollowsInv'
<1> SUFFICES ASSUME TypeInv, FollowsInv, [Next]_vars PROVE FollowsInv'
    OBVIOUS
<1> USE DEF osVars, modeVars, callVars, hostVars, cursorVars, historyVars
<1>1. ASSUME NEW rot \in Rotations, UpdateActiveVidPnPresentPath(rot)
      PROVE  FollowsInv'
  <2>1. CASE hidden
      BY <1>1, <2>1 DEF UpdateActiveVidPnPresentPath, FollowsInv
  <2>2. CASE ~ hidden
      BY <1>1, <2>2, AllCovered, RotationsFact DEF UpdateActiveVidPnPresentPath
  <2> QED
      BY <2>1, <2>2
<1>2. ASSUME NEW visible \in BOOLEAN, SetVidPnSourceVisibility(visible)
      PROVE  FollowsInv'
  <2>1. CASE visible
    <3>1. rotation' = rotation /\ ~ hidden'
          /\ changed' = <<Whole(DesktopWidth(rotation), DesktopHeight(rotation))>>
        BY <1>2, <2>1 DEF SetVidPnSourceVisibility
    <3>2. rotation \in Rots
        BY DEF TypeInv
    <3> QED
        BY <3>1, <3>2, AllCovered
  <2>2. CASE ~ visible
    <3>1. hidden' = TRUE /\ frameBuf' = [o \in DOMAIN frameBuf |-> Blank]
        BY <1>2, <2>2 DEF SetVidPnSourceVisibility, BlackOutScreen
    <3> QED
        BY <3>1 DEF FollowsInv, TypeInv
  <2> QED
      BY <2>1, <2>2
<1>3. CASE TransferToHost2D
    BY <1>3, FollowsFrame DEF TransferToHost2D
<1>4. ASSUME NEW size \in CursorSizes, SetPointerShape(size) PROVE FollowsInv'
    BY <1>4, FollowsFrame DEF SetPointerShape
<1>5. CASE HostTransfers \/ HostFlushes
    BY <1>5, FollowsFrame DEF HostTransfers, HostFlushes
<1>6. CASE UNCHANGED vars
    BY <1>6, FollowsFrame DEF vars
<1> QED
    BY <1>1, <1>2, <1>3, <1>4, <1>5, <1>6, DrawKeepsFollows, PresentKeepsFollows,
       CopyKeepsFollows, FlushKeepsFollows DEF Next

(* Between presents the frame buffer holds the desktop, turned as asked, and   *)
(* is black while the source is hidden: FrameBufferFollows of Present.        *)
THEOREM FramesCorrect == Spec => []FrameBufferFollows
<1>1. TypeInv /\ FollowsInv => FrameBufferFollows
  <2> SUFFICES ASSUME TypeInv, FollowsInv, pc = "idle" PROVE FrameBufferFollows
      BY DEF FrameBufferFollows
  <2>1. CASE hidden
    <3>1. <<0, 0>> \in FramePoints
        BY Sizes DEF FramePoints, Points
    <3>2. FrameOffsets # {}
        BY <3>1, FrameOffsetFacts
    <3>3. Values(frameBuf) = {Blank}
        BY <2>1, <3>2 DEF FollowsInv, TypeInv, Values
    <3> QED
        BY <2>1, <3>3 DEF FrameBufferFollows
  <2>2. CASE ~ hidden
    <3>1. \A p : ~ Pending(p)
        BY DEF TypeInv, Pending
    <3> QED
        BY <2>2, <3>1 DEF FollowsInv, TypeInv, FrameBufferFollows, At
  <2> QED
      BY <2>1, <2>2
<1> QED
    BY <1>1, FollowsStart, FollowsNext, Typed, PTL DEF Spec

-----------------------------------------------------------------------------
(* FindUpdateRect.                                                          *)
LEMMA MinIs ==
    ASSUME NEW S, S \subseteq Nat, S # {}
    PROVE  Min(S) \in S /\ \A y \in S : Min(S) <= y
<1>1. \E x \in S : \A y \in S : x <= y
    BY LeastOf
<1> QED
    BY <1>1 DEF Min

LEMMA MaxIs ==
    ASSUME NEW n \in Nat, NEW S, S \subseteq 0 .. n, S # {}
    PROVE  Max(S) \in S /\ \A y \in S : y <= Max(S)
<1> DEFINE T == {n - x : x \in S}
<1>1. T \subseteq Nat /\ T # {}
  <2>1. \A x \in S : n - x \in Nat
      OBVIOUS
  <2> QED
      BY <2>1
<1>2. PICK t \in T : \A m \in T : t <= m
    BY <1>1, LeastOf
<1>3. PICK x \in S : t = n - x
    BY <1>2
<1>4. ASSUME NEW y \in S
      PROVE  y <= x
  <2>1. n - y \in T
      OBVIOUS
  <2>2. n - x <= n - y
      BY <1>2, <1>3, <2>1
  <2> QED
      BY <1>3, <2>2
<1>5. \E z \in S : \A y \in S : z >= y
    BY <1>3, <1>4
<1>6. Max(S) \in S /\ \A y \in S : Max(S) >= y
    BY <1>5 DEF Max
<1> QED
    BY <1>6

LEMMA AroundIs ==
    ASSUME NEW w \in Nat \ {0}, NEW h \in Nat \ {0}, NEW rs \in Seq(RectsIn(w, h)), rs # <<>>,
           NEW u, u = FindUpdateRect(rs)
    PROVE  /\ u \in [left : Nat, top : Nat, right : Nat, bottom : Nat]
           /\ Inside(u) \subseteq Points(w, h)
           /\ \A i \in 1 .. Len(rs) : Inside(rs[i]) \subseteq Inside(u)
<1> DEFINE of == {rs[i] : i \in DOMAIN rs}
           L == {r.left : r \in of}
           T == {r.top : r \in of}
           R == {r.right : r \in of}
           B == {r.bottom : r \in of}
<1>1. DOMAIN rs = 1 .. Len(rs) /\ of # {} /\ of \subseteq RectsIn(w, h)
    OBVIOUS
<1>2. \A r \in of : /\ r.left \in 0 .. w - 1 /\ r.top \in 0 .. h - 1
                    /\ r.right \in 1 .. w /\ r.bottom \in 1 .. h
    BY <1>1 DEF RectsIn
<1>3. u = [left |-> Min(L), top |-> Min(T), right |-> Max(R), bottom |-> Max(B)]
    BY DEF FindUpdateRect
<1> HIDE DEF of
<1>4. Min(L) \in L /\ \A y \in L : Min(L) <= y
  <2>1. L \subseteq Nat /\ L # {}
      BY <1>1, <1>2
  <2> QED
      BY <2>1, MinIs
<1>5. Min(T) \in T /\ \A y \in T : Min(T) <= y
  <2>1. T \subseteq Nat /\ T # {}
      BY <1>1, <1>2
  <2> QED
      BY <2>1, MinIs
<1>6. Max(R) \in R /\ \A y \in R : y <= Max(R)
  <2>1. R \subseteq 0 .. w /\ R # {}
      BY <1>1, <1>2
  <2> QED
      BY <2>1, MaxIs
<1>7. Max(B) \in B /\ \A y \in B : y <= Max(B)
  <2>1. B \subseteq 0 .. h /\ B # {}
      BY <1>1, <1>2
  <2> QED
      BY <2>1, MaxIs
<1>8. /\ u.left \in 0 .. w - 1 /\ u.top \in 0 .. h - 1 /\ u.right \in 1 .. w /\ u.bottom \in 1 .. h
      /\ u \in [left : Nat, top : Nat, right : Nat, bottom : Nat]
  <2>1. /\ \A y \in L : y \in 0 .. w - 1
        /\ \A y \in T : y \in 0 .. h - 1
        /\ \A y \in R : y \in 1 .. w
        /\ \A y \in B : y \in 1 .. h
      BY <1>2
  <2>2. /\ Min(L) \in 0 .. w - 1 /\ Min(T) \in 0 .. h - 1
        /\ Max(R) \in 1 .. w /\ Max(B) \in 1 .. h
      BY <1>4, <1>5, <1>6, <1>7, <2>1, Zenon
  <2> HIDE DEF L, T, R, B
  <2> QED
      BY <1>3, <2>2
<1>9. Inside(u) \subseteq Points(w, h)
    BY <1>8 DEF Inside, Points
<1>10. ASSUME NEW i \in 1 .. Len(rs)
       PROVE  Inside(rs[i]) \subseteq Inside(u)
  <2>1. rs[i] \in of
      BY <1>1 DEF of
  <2>2. rs[i].left \in L /\ rs[i].top \in T /\ rs[i].right \in R /\ rs[i].bottom \in B
      BY <2>1
  <2>3. /\ u.left <= rs[i].left /\ u.top <= rs[i].top
        /\ rs[i].right <= u.right /\ rs[i].bottom <= u.bottom
    <3>1. /\ Min(L) <= rs[i].left /\ Min(T) <= rs[i].top
          /\ rs[i].right <= Max(R) /\ rs[i].bottom <= Max(B)
        BY <1>4, <1>5, <1>6, <1>7, <2>2, Zenon
    <3> HIDE DEF L, T, R, B
    <3> QED
        BY <1>3, <3>1
  <2>4. /\ rs[i].left \in Nat /\ rs[i].top \in Nat /\ rs[i].right \in Nat /\ rs[i].bottom \in Nat
        /\ u.left \in Nat /\ u.top \in Nat /\ u.right \in Nat /\ u.bottom \in Nat
      BY <1>2, <1>8, <2>1
  <2>5. rs[i].left .. rs[i].right - 1 \subseteq u.left .. u.right - 1
    <3> DEFINE a == rs[i].left
               b == rs[i].right
               c == u.left
               d == u.right
    <3>1. a \in Nat /\ b \in Nat /\ c \in Nat /\ d \in Nat /\ c <= a /\ b <= d
        BY <2>3, <2>4
    <3> HIDE DEF a, b, c, d
    <3>2. a .. b - 1 \subseteq c .. d - 1
        BY <3>1
    <3> QED
        BY <3>2 DEF a, b, c, d
  <2>6. rs[i].top .. rs[i].bottom - 1 \subseteq u.top .. u.bottom - 1
    <3> DEFINE a == rs[i].top
               b == rs[i].bottom
               c == u.top
               d == u.bottom
    <3>1. a \in Nat /\ b \in Nat /\ c \in Nat /\ d \in Nat /\ c <= a /\ b <= d
        BY <2>3, <2>4
    <3> HIDE DEF a, b, c, d
    <3>2. a .. b - 1 \subseteq c .. d - 1
        BY <3>1
    <3> QED
        BY <3>2 DEF a, b, c, d
  <2> QED
      BY <2>5, <2>6 DEF Inside
<1> QED
    BY <1>8, <1>9, <1>10

-----------------------------------------------------------------------------
(* Commands.  The offset of a transfer is that of its corner.                *)
Frame == [left : Nat, top : Nat, right : Nat, bottom : Nat]
Transfer(u) == [op |-> "transfer", x |-> u.left, y |-> u.top,
                width |-> u.right - u.left, height |-> u.bottom - u.top,
                offset |-> u.top * Width * BytesPerPixel + u.left * BytesPerPixel]
Flush(u) == [op |-> "flush", x |-> u.left, y |-> u.top,
             width |-> u.right - u.left, height |-> u.bottom - u.top]
Command == {Transfer(u) : u \in Frame} \cup {Flush(u) : u \in Frame}

(* The host takes the pixel p from memory, or to the screen, for a command.   *)
Moves(c, p) == c.op = "transfer" /\ CommandArea(c) \subseteq FramePoints /\ p \in CommandArea(c)
Shows(c, p) == c.op = "flush" /\ CommandArea(c) \subseteq FramePoints /\ p \in CommandArea(c)

LEMMA CommandFacts ==
    ASSUME NEW u \in Frame
    PROVE  /\ Transfer(u).op = "transfer" /\ CommandArea(Transfer(u)) = Inside(u)
           /\ Flush(u).op = "flush" /\ CommandArea(Flush(u)) = Inside(u)
           /\ \A p \in Inside(u) :
                 Transfer(u).offset
                   + BytesPerPixel * ((p[2] - Transfer(u).y) * Width + p[1] - Transfer(u).x)
                 = FrameOffset(p)
<1>1. u.left \in Nat /\ u.top \in Nat /\ u.right \in Nat /\ u.bottom \in Nat /\ Width \in Nat
    BY Sizes DEF Frame
<1>2. u.left + (u.right - u.left) - 1 = u.right - 1 /\ u.top + (u.bottom - u.top) - 1 = u.bottom - 1
    BY <1>1
<1>3. CommandArea(Transfer(u)) = Inside(u) /\ CommandArea(Flush(u)) = Inside(u)
    BY <1>2 DEF CommandArea, Inside, Transfer, Flush
<1>4. ASSUME NEW p \in Inside(u)
      PROVE  Transfer(u).offset
               + BytesPerPixel * ((p[2] - Transfer(u).y) * Width + p[1] - Transfer(u).x)
             = FrameOffset(p)
  <2> DEFINE t == u.top
             l == u.left
             w == Width
             x == p[1]
             y == p[2]
  <2>1. t \in Int /\ l \in Int /\ w \in Int /\ x \in Int /\ y \in Int
      BY <1>1 DEF Inside
  <2>2. /\ Transfer(u).offset = t * w * 4 + l * 4 /\ Transfer(u).y = t /\ Transfer(u).x = l
        /\ FrameOffset(p) = 4 * (y * w + x)
      BY DEF Transfer, FrameOffset, BytesPerPixel
  <2> HIDE DEF t, l, w, x, y
  <2>3. (y - t) * w = y * w - t * w /\ t * w \in Int /\ y * w \in Int
      BY <2>1, Distribute
  <2>4. t * w * 4 + l * 4 + 4 * ((y - t) * w + x - l) = 4 * (y * w + x)
      BY <2>1, <2>3
  <2> QED
      BY <2>2, <2>4 DEF BytesPerPixel, x, y, w
<1> QED
    BY <1>3, <1>4 DEF Transfer, Flush

LEMMA TransferDoes ==
    ASSUME TypeInv, ctrlq \in Seq(Command), HostTransfers, NEW p \in FramePoints
    PROVE  resource'[p] = IF Moves(Head(ctrlq), p) THEN frameBuf[FrameOffset(p)] ELSE resource[p]
<1> DEFINE cmd == Head(ctrlq)
           from == [q \in CommandArea(cmd) |->
                       cmd.offset + BytesPerPixel * ((q[2] - cmd.y) * Width + q[1] - cmd.x)]
<1>1. /\ ctrlq # <<>> /\ cmd.op = "transfer"
      /\ resource' = IF CommandArea(cmd) \subseteq FramePoints
                     THEN [q \in FramePoints |->
                             IF q \in CommandArea(cmd) /\ from[q] \in DOMAIN frameBuf
                             THEN frameBuf[from[q]] ELSE resource[q]]
                     ELSE resource
    BY DEF HostTransfers
<1>2. cmd \in Command
    BY <1>1
<1>3. PICK u \in Frame : cmd = Transfer(u)
    BY <1>1, <1>2, CommandFacts DEF Command
<1>4. CommandArea(cmd) = Inside(u) /\ \A q \in Inside(u) : from[q] = FrameOffset(q)
    BY <1>3, CommandFacts
<1>5. FrameOffset(p) \in DOMAIN frameBuf
    BY FrameOffsetFacts DEF TypeInv
<1> HIDE DEF cmd, from
<1>6. CASE CommandArea(cmd) \subseteq FramePoints
    BY <1>1, <1>4, <1>5, <1>6 DEF Moves, cmd
<1>7. CASE ~ (CommandArea(cmd) \subseteq FramePoints)
    BY <1>1, <1>7 DEF Moves, cmd
<1> QED
    BY <1>6, <1>7

LEMMA FlushDoes ==
    ASSUME HostFlushes, NEW p \in FramePoints
    PROVE  screen'[p] = IF Shows(Head(ctrlq), p) THEN resource[p] ELSE screen[p]
    BY DEF HostFlushes, Shows

(* The rectangle of the present at work.                                     *)
Update == FindUpdateRect(rects)

LEMMA AroundFacts ==
    ASSUME TypeInv, NEW rs \in Seq(SourceRects), rs # <<>>, NEW u, u = FindUpdateRect(rs)
    PROVE  /\ u \in Frame /\ Inside(u) \subseteq SourcePoints
           /\ \A i \in 1 .. Len(rs) : Inside(rs[i]) \subseteq Inside(u)
<1>1. PICK w \in Nat \ {0}, h \in Nat \ {0} :
          w = SourceWidth /\ h = SourceHeight
    BY SourceIs DEF TypeInv
<1>2. rs \in Seq(RectsIn(w, h))
    BY <1>1 DEF SourceRects
<1>3. /\ u \in [left : Nat, top : Nat, right : Nat, bottom : Nat]
      /\ Inside(u) \subseteq Points(w, h)
      /\ \A i \in 1 .. Len(rs) : Inside(rs[i]) \subseteq Inside(u)
    BY <1>2, AroundIs
<1> QED
    BY <1>1, <1>3, SourceIs DEF Frame, TypeInv

LEMMA UpdateFacts ==
    ASSUME TypeInv
    PROVE  /\ Update \in Frame
           /\ RotationNeededByFb = "identity" => Inside(Update) \subseteq FramePoints
           /\ \A i \in 1 .. Len(rects) : Inside(rects[i]) \subseteq Inside(Update)
<1>1. RotationNeededByFb = "identity" => SourcePoints = FramePoints
    BY PlaceIs DEF SourcePoints, DesktopPoints, FramePoints
<1>2. CASE rects = <<>>
  <2>1. Update = Whole(Width, Height)
      BY <1>2 DEF Update, FindUpdateRect
  <2>2. Update \in Frame /\ Inside(Update) = FramePoints
      BY <2>1, Sizes, WholeFact DEF Frame, Whole, FramePoints
  <2> QED
      BY <1>2, <2>2
<1>3. CASE rects # <<>>
  <2>1. rects \in Seq(SourceRects)
      BY DEF TypeInv
  <2>2. /\ Update \in Frame /\ Inside(Update) \subseteq SourcePoints
        /\ \A i \in 1 .. Len(rects) : Inside(rects[i]) \subseteq Inside(Update)
      BY <1>3, <2>1, AroundFacts DEF Update
  <2> QED
      BY <1>1, <2>2
<1> QED
    BY <1>2, <1>3

-----------------------------------------------------------------------------
(* ScreenFollows.  A pixel of the desktop is on the screen, or a transfer of it *)
(* is queued, and a flush behind it; the flush may still be to be queued.  The  *)
(* pixel is v, its place is q.                                               *)
ToShow(q) == pc = "flush" /\ RotationNeededByFb = "identity" /\ q \in Inside(Update)
FlushFrom(q, k) == (\E j \in k .. Len(ctrlq) : Shows(ctrlq[j], q)) \/ ToShow(q)

Coming(q, v) ==
    \/ resource[q] = v /\ (screen[q] = v \/ FlushFrom(q, 1))
    \/ \E i \in 1 .. Len(ctrlq) : Moves(ctrlq[i], q) /\ FlushFrom(q, i + 1)

Exempt(p) ==
    \/ p \in Covered(changed) \/ p \in faulted \/ p \in missed
    \/ pc = "copy" /\ p \in Marks(Update)

ScreenInv ==
    /\ ctrlq \in Seq(Command)
    /\ ~ hidden => \A p \in DesktopPoints(rotation) :
                      Exempt(p) \/ Coming(Place(p, rotation), Pixel(p))

(* The queue loses its first command.                                         *)
LEMMA TailIs ==
    ASSUME ctrlq \in Seq(Command), ctrlq # <<>>, ctrlq' = Tail(ctrlq)
    PROVE  /\ ctrlq' \in Seq(Command) /\ Len(ctrlq') = Len(ctrlq) - 1 /\ Len(ctrlq) \in Nat \ {0}
           /\ Head(ctrlq) = ctrlq[1]
           /\ \A j \in 2 .. Len(ctrlq) : j - 1 \in 1 .. Len(ctrlq') /\ ctrlq'[j - 1] = ctrlq[j]
<1>1. PICK q, t : q = ctrlq /\ t = ctrlq'
    OBVIOUS
<1>2. q \in Seq(Command) /\ q # <<>> /\ t = Tail(q)
    BY <1>1
<1>3. t \in Seq(Command) /\ Len(t) = Len(q) - 1 /\ Len(q) \in Nat \ {0} /\ Head(q) = q[1]
    BY <1>2
<1>4. \A j \in 2 .. Len(q) : j - 1 \in 1 .. Len(t) /\ t[j - 1] = q[j]
    BY <1>2, <1>3
<1> QED
    BY <1>1, <1>3, <1>4

LEMMA FlushAhead ==
    ASSUME ctrlq \in Seq(Command), ctrlq # <<>>, ctrlq' = Tail(ctrlq),
           NEW q, NEW k \in Nat, k > 0,
           ToShow(q) => ToShow(q)', FlushFrom(q, k), ~ Shows(Head(ctrlq), q) \/ k > 1
    PROVE  FlushFrom(q, IF k = 1 THEN 1 ELSE k - 1)'
<1>1. Len(ctrlq') = Len(ctrlq) - 1 /\ Len(ctrlq) \in Nat \ {0} /\ Head(ctrlq) = ctrlq[1]
      /\ \A j \in 2 .. Len(ctrlq) : j - 1 \in 1 .. Len(ctrlq') /\ ctrlq'[j - 1] = ctrlq[j]
    BY TailIs
<1>2. CASE ToShow(q)
    BY <1>2 DEF FlushFrom
<1>3. ASSUME NEW j \in k .. Len(ctrlq), Shows(ctrlq[j], q)
      PROVE  FlushFrom(q, IF k = 1 THEN 1 ELSE k - 1)'
  <2>1. j \in 2 .. Len(ctrlq)
      BY <1>1, <1>3
  <2>2. j - 1 \in 1 .. Len(ctrlq') /\ Shows(ctrlq'[j - 1], q)
      BY <1>1, <1>3, <2>1
  <2>3. j - 1 >= (IF k = 1 THEN 1 ELSE k - 1)
      BY <1>1, <2>1
  <2>4. j - 1 \in (IF k = 1 THEN 1 ELSE k - 1) .. Len(ctrlq')
      BY <1>1, <2>1, <2>2, <2>3
  <2> QED
      BY <2>2, <2>4 DEF FlushFrom
<1> QED
    BY <1>2, <1>3 DEF FlushFrom

(* A queue that grows loses none.                                             *)
LEMMA ComingStays ==
    ASSUME NEW q, NEW v, Coming(q, v), ctrlq \in Seq(Command), NEW c,
           ctrlq' = ctrlq \/ ctrlq' = Append(ctrlq, c),
           UNCHANGED <<resource, screen>>,
           ToShow(q) => ToShow(q)' \/ (ctrlq' = Append(ctrlq, c) /\ Shows(c, q))
    PROVE  Coming(q, v)'
<1>1. /\ Len(ctrlq) \in Nat /\ Len(ctrlq') \in Nat /\ Len(ctrlq) <= Len(ctrlq')
      /\ \A i \in 1 .. Len(ctrlq) : ctrlq'[i] = ctrlq[i]
      /\ ctrlq' = Append(ctrlq, c) =>
            Len(ctrlq') = Len(ctrlq) + 1 /\ ctrlq'[Len(ctrlq) + 1] = c
  <2>1. PICK s, t : s = ctrlq /\ t = ctrlq'
      OBVIOUS
  <2>2. s \in Seq(Command) /\ (t = s \/ t = Append(s, c))
      BY <2>1
  <2>3. /\ Len(s) \in Nat /\ Len(t) \in Nat /\ Len(s) <= Len(t)
        /\ \A i \in 1 .. Len(s) : t[i] = s[i]
      BY <2>2
  <2>4. t = Append(s, c) => Len(t) = Len(s) + 1 /\ t[Len(s) + 1] = c
      OBVIOUS
  <2> QED
      BY <2>1, <2>3, <2>4
<1>2. ASSUME NEW k \in 1 .. Len(ctrlq) + 1, FlushFrom(q, k)
      PROVE  FlushFrom(q, k)'
  <2>1. ASSUME NEW j \in k .. Len(ctrlq), Shows(ctrlq[j], q)
        PROVE  FlushFrom(q, k)'
    <3>1. j \in k .. Len(ctrlq') /\ Shows(ctrlq'[j], q)
        BY <1>1, <2>1
    <3> QED
        BY <3>1 DEF FlushFrom
  <2>2. CASE ToShow(q)
    <3>1. CASE ToShow(q)'
        BY <2>2, <3>1 DEF FlushFrom
    <3>2. CASE ctrlq' = Append(ctrlq, c) /\ Shows(c, q)
      <4>1. Len(ctrlq) + 1 \in k .. Len(ctrlq') /\ Shows(ctrlq'[Len(ctrlq) + 1], q)
          BY <1>1, <3>2
      <4> QED
          BY <4>1 DEF FlushFrom
    <3> QED
        BY <2>2, <3>1, <3>2
  <2> QED
      BY <1>2, <2>1, <2>2 DEF FlushFrom
<1>3. CASE resource[q] = v /\ (screen[q] = v \/ FlushFrom(q, 1))
  <2>1. 1 \in 1 .. Len(ctrlq) + 1
      BY <1>1
  <2> QED
      BY <1>2, <1>3, <2>1 DEF Coming
<1>4. ASSUME NEW i \in 1 .. Len(ctrlq), Moves(ctrlq[i], q), FlushFrom(q, i + 1)
      PROVE  Coming(q, v)'
  <2>1. i \in 1 .. Len(ctrlq') /\ Moves(ctrlq'[i], q)
      BY <1>1, <1>4
  <2>2. FlushFrom(q, i + 1)'
    <3>1. i + 1 \in 1 .. Len(ctrlq) + 1
        BY <1>1
    <3> QED
        BY <1>2, <1>4, <3>1
  <2> QED
      BY <2>1, <2>2 DEF Coming
<1> QED
    BY <1>3, <1>4 DEF Coming

LEMMA ScreenStart == Init => ScreenInv
<1> SUFFICES ASSUME Init PROVE ScreenInv
    OBVIOUS
<1>1. /\ ctrlq = <<>> /\ rotation \in Rots
      /\ changed = <<Whole(DesktopWidth(rotation), DesktopHeight(rotation))>>
    BY PlaceIs, RotationsFact DEF Init
<1>2. \A p \in DesktopPoints(rotation) : p \in Covered(changed)
    BY <1>1, CoveredWhole
<1> QED
    BY <1>1, <1>2 DEF ScreenInv, Exempt

LEMMA AllExempt ==
    ASSUME ScreenInv, NEW rot \in Rots, rotation' = rot, UNCHANGED ctrlq,
           changed' = <<Whole(DesktopWidth(rot), DesktopHeight(rot))>>
    PROVE  ScreenInv'
<1>1. \A p \in DesktopPoints(rot) : p \in Covered(changed)'
    BY CoveredWhole DEF Covered
<1> QED
    BY <1>1 DEF ScreenInv, Exempt

(* The steps that leave a present alone.                                      *)
LEMMA PresentFrame ==
    ASSUME UNCHANGED <<rotation, rotate, rects>>
    PROVE  /\ RotationNeededByFb' = RotationNeededByFb /\ Update' = Update
           /\ \A p : SourceAt(p)' = SourceAt(p) /\ Place(p, rotation)' = Place(p, rotation)
    BY DEF RotationNeededByFb, Update, SourceAt, Place, DesktopWidth, DesktopHeight

LEMMA ScreenFrame ==
    ASSUME ScreenInv,
           UNCHANGED <<desktop, changed, rotation, hidden, pc, rotate, rects, ctrlq, hostVars,
                       historyVars>>
    PROVE  ScreenInv'
<1>1. /\ RotationNeededByFb' = RotationNeededByFb /\ Update' = Update
      /\ \A p : SourceAt(p)' = SourceAt(p) /\ Place(p, rotation)' = Place(p, rotation)
    BY PresentFrame
<1>2. \A p : Pixel(p)' = Pixel(p) /\ (Exempt(p)' <=> Exempt(p))
    BY <1>1 DEF Pixel, Exempt, Marks, Covered, historyVars
<1>3. \A q, v : Coming(q, v)' <=> Coming(q, v)
    BY <1>1 DEF Coming, FlushFrom, ToShow, hostVars
<1> QED
    BY <1>1, <1>2, <1>3 DEF ScreenInv

(* Between presents no pixel is at work.                                      *)
LEMMA DrawKeepsScreen ==
    ASSUME TypeInv, ScreenInv, NEW r \in DesktopRects, Draw(r)
    PROVE  ScreenInv'
<1>1. /\ UNCHANGED <<rotation, hidden, pc, rotate, rects, resource, screen, ctrlq>>
      /\ UNCHANGED <<faulted, missed>>
      /\ changed' = Append(changed, r) /\ pc = "idle"
      /\ \A p \in DesktopPoints(rotation) : p \notin Inside(r) => desktop'[p] = desktop[p]
    BY DEF Draw, modeVars, callVars, hostVars, historyVars, TypeInv
<1>2. \A p : Place(p, rotation)' = Place(p, rotation)
    BY <1>1, PresentFrame
<1>3. ASSUME ~ hidden, NEW p \in DesktopPoints(rotation)
      PROVE  (Exempt(p) \/ Coming(Place(p, rotation), Pixel(p)))'
  <2>1. p \in Covered(changed)' <=> p \in Covered(changed) \/ p \in Inside(r)
    <3>1. p \in Covered(Append(changed, r)) <=> p \in Covered(changed) \/ p \in Inside(r)
        BY CoveredMore DEF TypeInv
    <3> QED
        BY <1>1, <3>1 DEF Covered
  <2>2. CASE p \in Inside(r) \/ Exempt(p)
      BY <1>1, <2>1, <2>2 DEF Exempt
  <2>3. CASE p \notin Inside(r) /\ Coming(Place(p, rotation), Pixel(p))
    <3>1. Pixel(p)' = Pixel(p)
        BY <1>1, <1>3, <2>3 DEF Pixel
    <3>2. \A q, v : Coming(q, v) => Coming(q, v)'
        BY <1>1 DEF Coming, FlushFrom, ToShow
    <3> QED
        BY <1>2, <2>3, <3>1, <3>2
  <2> QED
      BY <1>3, <2>2, <2>3 DEF ScreenInv
<1> QED
    BY <1>1, <1>3 DEF ScreenInv

LEMMA PresentKeepsScreen ==
    ASSUME TypeInv, ScreenInv, NEW turn \in BOOLEAN, PresentDisplayOnly(turn)
    PROVE  ScreenInv'
<1>1. /\ UNCHANGED <<desktop, rotation, hidden, resource, screen, ctrlq, faulted, missed>>
      /\ changed' = <<>> /\ pc = "idle"
    BY DEF PresentDisplayOnly, modeVars, hostVars, historyVars
<1>2. ASSUME ~ hidden, NEW p \in DesktopPoints(rotation)
      PROVE  (Exempt(p) \/ Coming(Place(p, rotation), Pixel(p)))'
  <2>1. pc' = "copy"
      BY <1>2 DEF PresentDisplayOnly
  <2>2. CASE p \in Covered(changed)
    <3>1. PICK i \in DOMAIN changed : p \in Inside(changed[i])
        BY <2>2, CoveredIs
    <3>2. i \in 1 .. Len(changed)
        BY DEF TypeInv
    <3>3. i \in 1 .. Len(rects') /\ SourceAt(p)' \in Inside(rects'[i])
        BY <1>2, <3>1, <3>2, PresentGiven
    <3>4. rects' \in Seq(SourceRects') /\ rects' # <<>>
        BY <1>2, <3>3, PresentGiven
    <3>5. Inside(rects'[i]) \subseteq Inside(Update')
      <4>1. PICK w, h, rs, u :
                /\ w \in Nat \ {0} /\ h \in Nat \ {0}
                /\ w = SourceWidth' /\ h = SourceHeight' /\ rs = rects' /\ u = Update'
        <5>1. SourceWidth' \in Nat \ {0} /\ SourceHeight' \in Nat \ {0}
          <6>1. SourceWidth' \in {DesktopWidth(rotation), Width}
              BY <1>1 DEF SourceWidth, DesktopWidth
          <6>2. SourceHeight' \in {DesktopHeight(rotation), Height}
              BY <1>1 DEF SourceHeight, DesktopHeight
          <6> QED
              BY <6>1, <6>2, DesktopSize, Sizes DEF TypeInv
        <5> QED
            BY <5>1
      <4>2. rs \in Seq(RectsIn(w, h)) /\ rs # <<>> /\ u = FindUpdateRect(rs)
          BY <3>4, <4>1 DEF SourceRects, Update
      <4>3. \A k \in 1 .. Len(rs) : Inside(rs[k]) \subseteq Inside(u)
        <5>1. w \in Nat \ {0} /\ h \in Nat \ {0}
            BY <4>1
        <5> QED
            BY <4>2, <5>1, AroundIs
      <4> QED
          BY <3>3, <4>1, <4>3
    <3>6. p \in DOMAIN desktop'
        BY <1>1, <1>2 DEF TypeInv
    <3> QED
        BY <2>1, <3>3, <3>5, <3>6 DEF Exempt, Marks
  <2>3. CASE p \in faulted \/ p \in missed
      BY <1>1, <2>3 DEF Exempt
  <2>4. CASE Coming(Place(p, rotation), Pixel(p))
    <3>1. \A q, v : Coming(q, v) => Coming(q, v)'
        BY <1>1 DEF Coming, FlushFrom, ToShow
    <3>2. Place(p, rotation)' = Place(p, rotation) /\ Pixel(p)' = Pixel(p)
        BY <1>1 DEF Place, DesktopWidth, DesktopHeight, Pixel
    <3> QED
        BY <2>4, <3>1, <3>2
  <2> QED
      BY <1>1, <1>2, <2>2, <2>3, <2>4 DEF ScreenInv, Exempt
<1> QED
    BY <1>1, <1>2 DEF ScreenInv

LEMMA CopyKeepsScreen ==
    ASSUME TypeInv, ScreenInv, NEW end \in 0 .. SourceHeight, CopyRect(end)
    PROVE  ScreenInv'
<1>1. /\ UNCHANGED <<desktop, changed, rotation, hidden, pc, rotate, rects, resource, screen>>
      /\ UNCHANGED <<ctrlq, missed>>
      /\ pc = "copy" /\ copied < Len(rects)
    BY DEF CopyRect, osVars, modeVars, hostVars
<1>2. Inside(rects[copied + 1]) \subseteq Inside(Update)
    BY <1>1, UpdateFacts DEF TypeInv
<1>3. /\ RotationNeededByFb' = RotationNeededByFb /\ Update' = Update
      /\ \A p : SourceAt(p)' = SourceAt(p) /\ Place(p, rotation)' = Place(p, rotation)
    BY <1>1, PresentFrame
<1>4. \A p : Pixel(p)' = Pixel(p) /\ (p \in Marks(Update)' <=> p \in Marks(Update))
    BY <1>1, <1>3 DEF Pixel, Marks
<1>5. ASSUME ~ hidden, NEW p \in DesktopPoints(rotation)
      PROVE  (Exempt(p) \/ Coming(Place(p, rotation), Pixel(p)))'
  <2>1. CASE SourceAt(p) \in Inside(rects[copied + 1])
    <3>1. p \in Marks(Update)
        BY <1>2, <1>5, <2>1 DEF Marks, TypeInv
    <3> QED
        BY <1>1, <1>4, <3>1 DEF Exempt
  <2>2. CASE SourceAt(p) \notin Inside(rects[copied + 1])
    <3>1. p \in faulted' <=> p \in faulted
        BY <1>5, <2>2, CopyStep
    <3>2. Exempt(p) => Exempt(p)'
        BY <1>1, <1>4, <3>1 DEF Exempt, Covered
    <3>3. \A q, v : Coming(q, v) => Coming(q, v)'
        BY <1>1 DEF Coming, FlushFrom, ToShow
    <3> QED
        BY <1>3, <1>4, <1>5, <3>2, <3>3 DEF ScreenInv
  <2> QED
      BY <2>1, <2>2
<1> QED
    BY <1>1, <1>5 DEF ScreenInv

(* Where the driver does not turn, the source is like the frame buffer.        *)
LEMMA Unturned ==
    ASSUME RotationNeededByFb = "identity", NEW p
    PROVE  SourceAt(p) = Place(p, rotation)
    BY PlaceIs DEF RotationNeededByFb, SourceAt

LEMMA TransferKeepsScreen ==
    ASSUME TypeInv, ScreenInv, TransferToHost2D
    PROVE  ScreenInv'
<1>1. /\ UNCHANGED <<desktop, changed, rotation, hidden, rotate, rects>>
      /\ UNCHANGED <<resource, screen, faulted>>
      /\ pc = "copy" /\ pc' = "flush"
    BY DEF TransferToHost2D, osVars, modeVars, hostVars
<1>2. /\ RotationNeededByFb' = RotationNeededByFb /\ Update' = Update
      /\ \A p : SourceAt(p)' = SourceAt(p) /\ Place(p, rotation)' = Place(p, rotation)
    BY <1>1, PresentFrame
<1>3. \A p : (p \in Covered(changed)' <=> p \in Covered(changed)) /\ Pixel(p)' = Pixel(p)
    BY <1>1 DEF Covered, Pixel
<1> DEFINE c == Transfer(Update)
           plain == Len(ctrlq) < Room /\ RotationNeededByFb = "identity"
<1>4. /\ ctrlq' = IF Len(ctrlq) < Room THEN Append(ctrlq, c) ELSE ctrlq
      /\ missed' = IF plain THEN missed \ Marks(Update) ELSE missed \cup Marks(Update)
  <2>1. c.op = "transfer"
      BY UpdateFacts, CommandFacts
  <2> QED
      BY <2>1 DEF TransferToHost2D, Queue, Transfer, Update
<1>5. c \in Command /\ c.op = "transfer" /\ CommandArea(c) = Inside(Update)
    BY UpdateFacts, CommandFacts DEF Command
<1>6. ctrlq \in Seq(Command)
    BY DEF ScreenInv
<1> HIDE DEF c
<1>7. ctrlq' \in Seq(Command)
    BY <1>4, <1>5, <1>6
<1>8. ASSUME ~ hidden, NEW p \in DesktopPoints(rotation)
      PROVE  (Exempt(p) \/ Coming(Place(p, rotation), Pixel(p)))'
  <2>1. PICK q, v : q = Place(p, rotation) /\ v = Pixel(p)
      OBVIOUS
  <2>2. CASE p \in Marks(Update) /\ plain
    <3>1. q \in Inside(Update) /\ Inside(Update) \subseteq FramePoints
        BY <2>1, <2>2, Unturned, UpdateFacts DEF Marks
    <3>2. PICK n \in Nat \ {0} : Len(ctrlq') = n /\ ctrlq'[n] = c
        BY <1>4, <1>5, <1>6, <2>2
    <3>3. n \in 1 .. Len(ctrlq') /\ Moves(ctrlq'[n], q)
        BY <1>5, <3>1, <3>2 DEF Moves
    <3>4. FlushFrom(q, n + 1)'
        BY <1>1, <1>2, <2>2, <3>1 DEF FlushFrom, ToShow
    <3>5. Coming(q, v)'
        BY <3>3, <3>4 DEF Coming
    <3> QED
        BY <1>2, <1>3, <2>1, <3>5
  <2>3. CASE p \in Marks(Update) /\ ~ plain
      BY <1>4, <2>3 DEF Exempt
  <2>4. CASE p \notin Marks(Update)
    <3>1. Exempt(p) => Exempt(p)'
        BY <1>1, <1>3, <1>4, <2>4 DEF Exempt
    <3>2. ~ ToShow(q)
        BY <1>1 DEF ToShow
    <3>3. Coming(q, v) => Coming(q, v)'
      <4>1. ctrlq' = ctrlq \/ ctrlq' = Append(ctrlq, c)
          BY <1>4
      <4> QED
          BY <1>1, <1>6, <3>2, <4>1, ComingStays
    <3> QED
        BY <1>2, <1>3, <1>8, <2>1, <3>1, <3>3 DEF ScreenInv
  <2> QED
      BY <2>2, <2>3, <2>4
<1> QED
    BY <1>1, <1>7, <1>8 DEF ScreenInv

LEMMA FlushKeepsScreen ==
    ASSUME TypeInv, ScreenInv, ResFlush
    PROVE  ScreenInv'
<1>1. /\ UNCHANGED <<desktop, changed, rotation, hidden, resource, screen, faulted>>
      /\ pc = "flush" /\ pc' = "idle"
    BY DEF ResFlush, osVars, modeVars, hostVars
<1>2. \A p : /\ p \in Covered(changed)' <=> p \in Covered(changed)
             /\ Pixel(p)' = Pixel(p) /\ Place(p, rotation)' = Place(p, rotation)
    BY <1>1 DEF Covered, Pixel, Place, DesktopWidth, DesktopHeight
<1> DEFINE c == Flush(Update)
           plain == Len(ctrlq) < Room /\ RotationNeededByFb = "identity"
<1>3. /\ ctrlq' = IF Len(ctrlq) < Room THEN Append(ctrlq, c) ELSE ctrlq
      /\ missed' = IF plain THEN missed ELSE missed \cup Marks(Update)
  <2>1. c.op # "transfer"
      BY UpdateFacts, CommandFacts
  <2> QED
      BY <2>1 DEF ResFlush, Queue, Flush, Update
<1>4. c \in Command /\ c.op = "flush" /\ CommandArea(c) = Inside(Update)
    BY UpdateFacts, CommandFacts DEF Command
<1>5. ctrlq \in Seq(Command)
    BY DEF ScreenInv
<1> HIDE DEF c
<1>6. ctrlq' \in Seq(Command)
    BY <1>3, <1>4, <1>5
<1>7. ASSUME ~ hidden, NEW p \in DesktopPoints(rotation)
      PROVE  (Exempt(p) \/ Coming(Place(p, rotation), Pixel(p)))'
  <2>1. PICK q, v : q = Place(p, rotation) /\ v = Pixel(p)
      OBVIOUS
  <2>2. Exempt(p) => Exempt(p)'
      BY <1>1, <1>2, <1>3 DEF Exempt
  <2>3. CASE p \in Marks(Update) /\ ~ plain
      BY <1>3, <2>3 DEF Exempt
  <2>4. CASE Coming(q, v) /\ (p \notin Marks(Update) \/ plain)
    <3>1. ToShow(q) => ctrlq' = Append(ctrlq, c) /\ Shows(c, q)
      <4>1. ToShow(q) => p \in Marks(Update) /\ Inside(Update) \subseteq FramePoints
          BY <1>7, <2>1, Unturned, UpdateFacts DEF ToShow, Marks, TypeInv
      <4> QED
          BY <1>3, <1>4, <2>4, <4>1 DEF Shows, ToShow
    <3>2. ctrlq' = ctrlq \/ ctrlq' = Append(ctrlq, c)
        BY <1>3
    <3>3. Coming(q, v)'
        BY <1>1, <1>5, <2>4, <3>1, <3>2, ComingStays
    <3> QED
        BY <1>2, <2>1, <3>3
  <2> QED
      BY <1>7, <2>1, <2>2, <2>3, <2>4 DEF ScreenInv
<1> QED
    BY <1>1, <1>6, <1>7 DEF ScreenInv

(* What the host executes first.                                             *)
LEMMA ComingGoes ==
    ASSUME NEW q, NEW v, Coming(q, v), ctrlq \in Seq(Command), ctrlq # <<>>, ctrlq' = Tail(ctrlq),
           ToShow(q) => ToShow(q)',
           Moves(Head(ctrlq), q) => resource'[q] = v /\ screen'[q] = screen[q],
           ~ Moves(Head(ctrlq), q) => resource'[q] = resource[q],
           Shows(Head(ctrlq), q) => screen'[q] = resource[q],
           ~ Shows(Head(ctrlq), q) => screen'[q] = screen[q]
    PROVE  Coming(q, v)'
<1>1. ~ (Moves(Head(ctrlq), q) /\ Shows(Head(ctrlq), q))
    BY DEF Moves, Shows
<1>2. ASSUME resource[q] = v, screen[q] = v \/ FlushFrom(q, 1)
      PROVE  Coming(q, v)'
  <2>1. resource'[q] = v
      BY <1>2
  <2>2. CASE Shows(Head(ctrlq), q)
      BY <1>2, <2>1, <2>2 DEF Coming
  <2>3. CASE ~ Shows(Head(ctrlq), q)
    <3>1. CASE screen[q] = v
        BY <2>1, <2>3, <3>1 DEF Coming
    <3>2. CASE FlushFrom(q, 1)
      <4>1. FlushFrom(q, 1)'
          BY <2>3, <3>2, FlushAhead
      <4> QED
          BY <2>1, <4>1 DEF Coming
    <3> QED
        BY <1>2, <3>1, <3>2
  <2> QED
      BY <2>2, <2>3
<1>3. ASSUME NEW i \in 1 .. Len(ctrlq), Moves(ctrlq[i], q), FlushFrom(q, i + 1)
      PROVE  Coming(q, v)'
  <2>1. FlushFrom(q, i)'
    <3>1. i + 1 \in Nat /\ i + 1 > 1 /\ i + 1 # 1 /\ i + 1 - 1 = i
        OBVIOUS
    <3> DEFINE k == i + 1
    <3>2. k \in Nat /\ k > 0 /\ k > 1 /\ FlushFrom(q, k) /\ (IF k = 1 THEN 1 ELSE k - 1) = i
        BY <1>3, <3>1
    <3> HIDE DEF k
    <3>3. FlushFrom(q, IF k = 1 THEN 1 ELSE k - 1)'
        BY <3>2, FlushAhead
    <3> QED
        BY <3>2, <3>3
  <2>2. CASE i = 1
    <3>1. resource'[q] = v
        BY <1>3, <2>2, TailIs
    <3> QED
        BY <2>1, <2>2, <3>1 DEF Coming
  <2>3. CASE i # 1
    <3>1. PICK j \in 1 .. Len(ctrlq') : j = i - 1 /\ ctrlq'[j] = ctrlq[i] /\ j + 1 = i
      <4>1. i \in 2 .. Len(ctrlq)
          BY <2>3, TailIs
      <4> QED
          BY <4>1, TailIs
    <3>2. Moves(ctrlq'[j], q) /\ FlushFrom(q, j + 1)'
        BY <1>3, <2>1, <3>1
    <3> QED
        BY <3>2 DEF Coming
  <2> QED
      BY <2>2, <2>3
<1> QED
    BY <1>2, <1>3 DEF Coming

LEMMA HostKeepsScreen ==
    ASSUME TypeInv, FollowsInv, ScreenInv, HostTransfers \/ HostFlushes
    PROVE  ScreenInv'
<1>1. /\ UNCHANGED <<desktop, changed, rotation, hidden, pc, rotate, rects, faulted, missed>>
      /\ ctrlq # <<>> /\ ctrlq' = Tail(ctrlq) /\ ctrlq \in Seq(Command)
  <2>1. CASE HostTransfers
      BY <2>1 DEF HostTransfers, osVars, modeVars, callVars, historyVars, ScreenInv
  <2>2. CASE HostFlushes
      BY <2>2 DEF HostFlushes, osVars, modeVars, callVars, historyVars, ScreenInv
  <2> QED
      BY <2>1, <2>2
<1>2. ctrlq' \in Seq(Command)
    BY <1>1, TailIs
<1>3. /\ RotationNeededByFb' = RotationNeededByFb /\ Update' = Update
      /\ \A p : SourceAt(p)' = SourceAt(p) /\ Place(p, rotation)' = Place(p, rotation)
    BY <1>1, PresentFrame
<1>4. \A p : Pixel(p)' = Pixel(p) /\ (Exempt(p) => Exempt(p)')
    BY <1>1, <1>3 DEF Pixel, Exempt, Covered, Marks
<1>5. \A q : ToShow(q) => ToShow(q)'
    BY <1>1, <1>3 DEF ToShow
<1>6. ASSUME ~ hidden, NEW p \in DesktopPoints(rotation), ~ Exempt(p)
      PROVE  Coming(Place(p, rotation), Pixel(p))'
  <2>1. PICK q, v : q = Place(p, rotation) /\ v = Pixel(p)
      OBVIOUS
  <2>2. Coming(q, v) /\ q \in FramePoints
      BY <1>6, <2>1, PlaceInside DEF ScreenInv, TypeInv
  <2>3. frameBuf[FrameOffset(q)] = v
    <3>1. ~ Pending(p)
      <4>1. ASSUME NEW i \in copied + 1 .. Len(rects), SourceAt(p) \in Inside(rects[i])
            PROVE  FALSE
        <5>1. i \in 1 .. Len(rects) /\ rects # <<>> /\ copied # Len(rects)
            BY <4>1 DEF TypeInv
        <5>2. pc = "copy"
            BY <5>1 DEF TypeInv
        <5>3. p \in Marks(Update)
            BY <1>6, <4>1, <5>1, UpdateFacts DEF Marks, TypeInv
        <5> QED
            BY <1>6, <5>2, <5>3 DEF Exempt
      <4> QED
          BY <4>1 DEF Pending
    <3> QED
        BY <1>6, <2>1, <3>1 DEF FollowsInv, Exempt, At
  <2>4. CASE HostTransfers
    <3>1. resource'[q] = IF Moves(Head(ctrlq), q) THEN frameBuf[FrameOffset(q)] ELSE resource[q]
        BY <1>1, <2>2, <2>4, TransferDoes
    <3>2. screen' = screen /\ ~ Shows(Head(ctrlq), q)
        BY <2>4 DEF HostTransfers, Shows
    <3>3. Coming(q, v)'
        BY <1>1, <1>5, <2>2, <2>3, <3>1, <3>2, ComingGoes
    <3> QED
        BY <1>3, <1>4, <2>1, <3>3
  <2>5. CASE HostFlushes
    <3>1. screen'[q] = IF Shows(Head(ctrlq), q) THEN resource[q] ELSE screen[q]
        BY <2>2, <2>5, FlushDoes
    <3>2. resource' = resource /\ ~ Moves(Head(ctrlq), q)
        BY <2>5 DEF HostFlushes, Moves
    <3>3. Coming(q, v)'
        BY <1>1, <1>5, <2>2, <3>1, <3>2, ComingGoes
    <3> QED
        BY <1>3, <1>4, <2>1, <3>3
  <2> QED
      BY <2>4, <2>5
<1> QED
    BY <1>1, <1>2, <1>4, <1>6 DEF ScreenInv

LEMMA ScreenNext == TypeInv /\ FollowsInv /\ ScreenInv /\ [Next]_vars => ScreenInv'
<1> SUFFICES ASSUME TypeInv, FollowsInv, ScreenInv, [Next]_vars PROVE ScreenInv'
    OBVIOUS
<1> USE DEF osVars, modeVars, callVars, cursorVars
<1>1. ASSUME NEW rot \in Rotations, UpdateActiveVidPnPresentPath(rot)
      PROVE  ScreenInv'
    BY <1>1, AllExempt, RotationsFact DEF UpdateActiveVidPnPresentPath
<1>2. ASSUME NEW visible \in BOOLEAN, SetVidPnSourceVisibility(visible)
      PROVE  ScreenInv'
  <2>1. CASE visible
    <3>1. rotation' = rotation /\ UNCHANGED ctrlq
          /\ changed' = <<Whole(DesktopWidth(rotation), DesktopHeight(rotation))>>
        BY <1>2, <2>1 DEF SetVidPnSourceVisibility
    <3>2. rotation \in Rots
        BY DEF TypeInv
    <3> QED
        BY <3>1, <3>2, AllExempt
  <2>2. CASE ~ visible
    <3>1. hidden' /\ UNCHANGED ctrlq
        BY <1>2, <2>2 DEF SetVidPnSourceVisibility
    <3> QED
        BY <3>1 DEF ScreenInv
  <2> QED
      BY <2>1, <2>2
<1>3. ASSUME NEW size \in CursorSizes, SetPointerShape(size) PROVE ScreenInv'
    BY <1>3, ScreenFrame DEF SetPointerShape
<1>4. CASE UNCHANGED vars
    BY <1>4, ScreenFrame DEF vars
<1> QED
    BY <1>1, <1>2, <1>3, <1>4, DrawKeepsScreen, PresentKeepsScreen, CopyKeepsScreen,
       TransferKeepsScreen, FlushKeepsScreen, HostKeepsScreen DEF Next

(* Once the host has worked off its commands the screen shows the desktop, but  *)
(* for what faulted or found no room: ScreenFollows of Present.                *)
THEOREM ScreensCorrect == Spec => []ScreenFollows
<1>1. TypeInv /\ ScreenInv => ScreenFollows
  <2> SUFFICES ASSUME TypeInv, ScreenInv, Settled,
                      NEW p \in DOMAIN desktop \ (Covered(changed) \cup faulted \cup missed)
               PROVE  screen[Place(p, rotation)] = Pixel(p)
      BY DEF ScreenFollows, Shown
  <2>1. Coming(Place(p, rotation), Pixel(p))
      BY DEF ScreenInv, Exempt, Settled, TypeInv
  <2>2. Len(ctrlq) = 0 /\ pc # "flush"
      BY DEF Settled
  <2>3. \A q : ~ FlushFrom(q, 1)
      BY <2>2 DEF FlushFrom, ToShow
  <2>4. 1 .. Len(ctrlq) = {}
      BY <2>2
  <2> QED
      BY <2>1, <2>3, <2>4 DEF Coming
<1> QED
    BY <1>1, ScreenStart, ScreenNext, FollowsStart, FollowsNext, Typed, PTL DEF Spec
=============================================================================
