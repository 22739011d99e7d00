--------------------------- MODULE VirtRing_proofs ---------------------------
(***************************************************************************)
(* Proofs about VirtRing, for every queue size, every width of the indices  *)
(* and every set of requests: the suppression of kicks and interrupts, the  *)
(* descriptor table, the two rings, and the refinement of VirtQueueSpec.     *)
(***************************************************************************)
EXTENDS VirtRing, WellFoundedInduction, FiniteSetTheorems, SequenceTheorems, TLAPS

-----------------------------------------------------------------------------
(* Induction over the natural numbers, stated for sets.                     *)
(* A set of natural numbers has a least element.                            *)
LEMMA LeastOf ==
    ASSUME NEW T, T \subseteq Nat, T # {}
    PROVE  \E n \in T : \A m \in T : n <= m
<1> DEFINE Less == OpToRel(<, Nat)
<1>1. PICK n \in T : \A m \in T : ~ (<<m, n>> \in Less)
    BY WFMin, NatLessThanWellFounded
<1>2. \A m \in Nat : m < n => <<m, n>> \in Less
    BY <1>1 DEF OpToRel
<1> HIDE DEF Less
<1>3. \A m \in T : ~ (m < n)
    BY <1>1, <1>2
<1> QED
    BY <1>1, <1>3

(* Induction up to a bound.                                                *)
LEMMA UpTo ==
    ASSUME NEW T, NEW n \in Nat, 0 \in T, \A k \in 0 .. n - 1 : k \in T => k + 1 \in T
    PROVE  0 .. n \subseteq T
<1> SUFFICES ASSUME NEW U, U = (0 .. n) \ T, U # {}
             PROVE  FALSE
    OBVIOUS
<1>1. U \subseteq Nat
    OBVIOUS
<1>2. PICK m \in U : \A k \in U : m <= k
    BY <1>1, LeastOf
<1>3. m \in 0 .. n /\ m \notin T /\ m - 1 \notin U
    BY <1>1, <1>2
<1> QED
    BY <1>3

(* Induction over all natural numbers.                                     *)
LEMMA ForAllNat ==
    ASSUME NEW T, 0 \in T, \A k \in Nat : k \in T => k + 1 \in T
    PROVE  Nat \subseteq T
    BY UpTo


-----------------------------------------------------------------------------
(* Remainders.                                                             *)

LEMMA ModRange ==
    ASSUME NEW m \in Nat \ {0}, NEW a \in Int
    PROVE  a % m \in 0 .. m - 1 /\ a % m \in Int
    OBVIOUS

LEMMA ModSmall ==
    ASSUME NEW m \in Nat \ {0}, NEW a \in 0 .. m - 1
    PROVE  a % m = a
    OBVIOUS

LEMMA ModOf ==
    ASSUME NEW m \in Nat \ {0}, NEW q \in Int, NEW r \in 0 .. m - 1
    PROVE  (m * q + r) % m = r
    BY SMTT(30)

LEMMA ModSplit ==
    ASSUME NEW m \in Nat \ {0}, NEW a \in Int
    PROVE  \E q \in Int : a = m * q + (a % m)
<1> DEFINE q == a \div m
<1>1. q \in Int /\ a = m * q + (a % m)
    BY SMTT(30)
<1> QED
    BY <1>1

(* Only the remainder of the summands counts.                              *)
LEMMA ModShift ==
    ASSUME NEW m \in Nat \ {0}, NEW a \in Int, NEW k \in Int
    PROVE  (a + m * k) % m = a % m
<1>1. PICK q \in Int : a = m * q + (a % m)
    BY ModSplit
<1> DEFINE r == a % m
<1>2. r \in 0 .. m - 1 /\ r \in Int
    BY ModRange
<1> HIDE DEF r
<1>3. a + m * k = m * (q + k) + r
  <2>1. a = m * q + r
      BY <1>1 DEF r
  <2> QED
      BY <2>1, <1>2
<1>4. (m * (q + k) + r) % m = r
  <2>1. q + k \in Int
      OBVIOUS
  <2> QED
      BY <2>1, <1>2, ModOf
<1> QED
    BY <1>3, <1>4 DEF r

LEMMA ModBack ==
    ASSUME NEW m \in Nat \ {0}, NEW a \in 0 .. m - 1, NEW b \in 0 .. m - 1
    PROVE  (a - b) % m = IF b <= a THEN a - b ELSE a - b + m
<1>1. CASE b <= a
  <2>1. a - b \in 0 .. m - 1
      BY <1>1
  <2> QED
      BY <2>1, <1>1, ModSmall
<1>2. CASE a < b
  <2>1. a - b + m \in 0 .. m - 1 /\ a - b + m \in Int
      BY <1>2
  <2>2. (m * (-1) + (a - b + m)) % m = a - b + m
      BY <2>1, ModOf, -1 \in Int
  <2>3. m * (-1) + (a - b + m) = a - b
      OBVIOUS
  <2> QED
      BY <2>2, <2>3, <1>2
<1> QED
    BY <1>1, <1>2

LEMMA ModOn ==
    ASSUME NEW m \in Nat \ {0}, NEW a \in 0 .. m - 1, NEW b \in 0 .. m
    PROVE  (a + b) % m = IF a + b < m THEN a + b ELSE a + b - m
<1>1. CASE a + b < m
    BY <1>1, ModSmall
<1>2. CASE a + b >= m
  <2>1. a + b - m \in 0 .. m - 1
      BY <1>2
  <2>2. (m * 1 + (a + b - m)) % m = a + b - m
      BY <2>1, ModOf, 1 \in Int
  <2>3. m * 1 + (a + b - m) = a + b
      OBVIOUS
  <2> QED
      BY <2>2, <2>3, <1>2
<1> QED
    BY <1>1, <1>2

LEMMA SizesFact == Num \in Nat \ {0} /\ IdxMod \in Nat \ {0} /\ 2 * Num <= IdxMod
<1>1. Num \in Nat \ {0} /\ IdxMod \in Nat \ {0}
    BY NumAssumption, IdxAssumption
<1>2. 2 * Num \in Nat \ {0}
    BY <1>1
<1> DEFINE n == 2 * Num
<1>3. ~ (IdxMod < n)
  <2> SUFFICES ASSUME IdxMod < n PROVE FALSE
      OBVIOUS
  <2>1. n \in Nat \ {0} /\ IdxMod \in 0 .. n - 1
      BY <1>1, <1>2
  <2>2. IdxMod % n = IdxMod
    <3> HIDE DEF n
    <3> QED
        BY <2>1, ModSmall
  <2> QED
      BY <2>2, <1>1, IdxAssumption
<1> QED
    BY <1>1, <1>2, <1>3

LEMMA IdxFact == Idx \subseteq Int /\ Idx = 0 .. IdxMod - 1 /\ 0 \in Idx
    BY SizesFact DEF Idx

LEMMA MinusIs ==
    ASSUME NEW a \in Idx, NEW b \in Idx
    PROVE  /\ Minus(a, b) = IF b <= a THEN a - b ELSE a - b + IdxMod
           /\ Minus(a, b) \in Idx
<1>1. Minus(a, b) = IF b <= a THEN a - b ELSE a - b + IdxMod
    BY SizesFact, ModBack DEF Minus, Idx
<1> QED
    BY <1>1, SizesFact DEF Idx

LEMMA PlusIs ==
    ASSUME NEW a \in Idx, NEW b \in 0 .. IdxMod
    PROVE  /\ Plus(a, b) = IF a + b < IdxMod THEN a + b ELSE a + b - IdxMod
           /\ Plus(a, b) \in Idx
<1>1. Plus(a, b) = IF a + b < IdxMod THEN a + b ELSE a + b - IdxMod
    BY SizesFact, ModOn DEF Plus, Idx
<1> QED
    BY <1>1, SizesFact DEF Idx

(* Distances between indices.                                              *)
LEMMA MinusZero ==
    ASSUME NEW a \in Idx, NEW b \in Idx
    PROVE  (Minus(a, b) = 0) <=> (a = b)
<1>1. Minus(a, b) = IF b <= a THEN a - b ELSE a - b + IdxMod
    BY MinusIs
<1> QED
    BY <1>1, SizesFact DEF Idx

LEMMA MinusAhead ==
    ASSUME NEW a \in Idx, NEW b \in Idx
    PROVE  Minus(Plus(a, 1), b) = IF Minus(a, b) = IdxMod - 1 THEN 0 ELSE Minus(a, b) + 1
<1> DEFINE c == Plus(a, 1)
<1>1. c \in Idx /\ c = IF a + 1 < IdxMod THEN a + 1 ELSE a + 1 - IdxMod
  <2>1. 1 \in 0 .. IdxMod
      BY SizesFact
  <2> QED
      BY <2>1, PlusIs
<1> HIDE DEF c
<1>2. Minus(a, b) = IF b <= a THEN a - b ELSE a - b + IdxMod
    BY MinusIs
<1>3. Minus(c, b) = IF b <= c THEN c - b ELSE c - b + IdxMod
    BY <1>1, MinusIs
<1>4. Minus(c, b) = IF Minus(a, b) = IdxMod - 1 THEN 0 ELSE Minus(a, b) + 1
    BY <1>1, <1>2, <1>3, SizesFact DEF Idx
<1> QED
    BY <1>4 DEF c

LEMMA MinusBehind ==
    ASSUME NEW a \in Idx, NEW b \in Idx
    PROVE  Minus(a, Plus(b, 1)) = IF Minus(a, b) = 0 THEN IdxMod - 1 ELSE Minus(a, b) - 1
<1> DEFINE c == Plus(b, 1)
<1>1. c \in Idx /\ c = IF b + 1 < IdxMod THEN b + 1 ELSE b + 1 - IdxMod
  <2>1. 1 \in 0 .. IdxMod
      BY SizesFact
  <2> QED
      BY <2>1, PlusIs
<1> HIDE DEF c
<1>2. Minus(a, b) = IF b <= a THEN a - b ELSE a - b + IdxMod
    BY MinusIs
<1>3. Minus(a, c) = IF c <= a THEN a - c ELSE a - c + IdxMod
    BY <1>1, MinusIs
<1>4. Minus(a, c) = IF Minus(a, b) = 0 THEN IdxMod - 1 ELSE Minus(a, b) - 1
    BY <1>1, <1>2, <1>3, SizesFact DEF Idx
<1> QED
    BY <1>4 DEF c

LEMMA MinusPlus ==
    ASSUME NEW a \in Idx, NEW n \in Idx
    PROVE  Minus(Plus(a, n), a) = n
<1> DEFINE c == Plus(a, n)
<1>1. c \in Idx /\ c = IF a + n < IdxMod THEN a + n ELSE a + n - IdxMod
  <2>1. n \in 0 .. IdxMod
      BY SizesFact DEF Idx
  <2> QED
      BY <2>1, PlusIs
<1> HIDE DEF c
<1>2. Minus(c, a) = IF a <= c THEN c - a ELSE c - a + IdxMod
    BY <1>1, MinusIs
<1>3. Minus(c, a) = n
    BY <1>1, <1>2, SizesFact DEF Idx
<1> QED
    BY <1>3 DEF c

LEMMA MinusMinus ==
    ASSUME NEW a \in Idx, NEW n \in Idx
    PROVE  Minus(a, Minus(a, n)) = n
<1> DEFINE c == Minus(a, n)
<1>1. c \in Idx /\ c = IF n <= a THEN a - n ELSE a - n + IdxMod
    BY MinusIs
<1> HIDE DEF c
<1>2. Minus(a, c) = IF c <= a THEN a - c ELSE a - c + IdxMod
    BY <1>1, MinusIs
<1>3. Minus(a, c) = n
    BY <1>1, <1>2, SizesFact DEF Idx
<1> QED
    BY <1>3 DEF c

(* vring_need_event in terms of distances: the event lies behind new, and   *)
(* no further than old.                                                    *)
LEMMA NeedEventIs ==
    ASSUME NEW event \in Idx, NEW new \in Idx, NEW old \in Idx
    PROVE  NeedEvent(event, new, old)
              <=> Minus(new, event) # 0 /\ Minus(new, event) <= Minus(new, old)
<1>1. Minus(new, event + 1) = Minus(new, Plus(event, 1))
  <2>1. Plus(event, 1) = IF event + 1 < IdxMod THEN event + 1 ELSE event + 1 - IdxMod
    <3>1. 1 \in 0 .. IdxMod
        BY SizesFact
    <3> QED
        BY <3>1, PlusIs
  <2>2. CASE event + 1 < IdxMod
      BY <2>1, <2>2
  <2>3. CASE event + 1 = IdxMod
    <3>1. Plus(event, 1) = 0
        BY <2>1, <2>3, SizesFact DEF Idx
    <3>2. (new - IdxMod) % IdxMod = new % IdxMod
      <4>1. new + IdxMod * (-1) = new - IdxMod /\ new \in Int
          BY SizesFact DEF Idx
      <4> QED
          BY <4>1, ModShift, SizesFact, -1 \in Int
    <3>3. new - 0 = new
        BY DEF Idx
    <3> QED
        BY <3>1, <3>2, <3>3, <2>3 DEF Minus
  <2> QED
      BY <2>2, <2>3, SizesFact DEF Idx
<1>2. Minus(new, event + 1) = IF Minus(new, event) = 0 THEN IdxMod - 1 ELSE Minus(new, event) - 1
    BY <1>1, MinusBehind
<1> DEFINE d == Minus(new, event)
           f == Minus(new, old)
<1>3. d \in Idx /\ f \in Idx
    BY MinusIs
<1>4. NeedEvent(event, new, old) <=> (IF d = 0 THEN IdxMod - 1 ELSE d - 1) < f
    BY <1>2 DEF NeedEvent
<1> HIDE DEF d, f
<1>5. ((IF d = 0 THEN IdxMod - 1 ELSE d - 1) < f) <=> (d # 0 /\ d <= f)
    BY <1>3, SizesFact DEF Idx
<1> QED
    BY <1>4, <1>5 DEF d, f

-----------------------------------------------------------------------------
(* The ranges of the variables.  numFree is left to the invariant of the    *)
(* table: that it stays in range is a property of the chains.               *)
DevStates == {"asleep", "awake", "dozing", "reset"}
DescType == [next : Slots, flags : SUBSET Flag]

TypeInv ==
    /\ setup \in Setups
    /\ desc \in [Slots -> DescType] /\ freeHead \in Slots
    /\ data \in [Slots -> Tokens \cup {NoToken}]
    /\ shape \in [Slots -> Shapes \cup {<<0, 0>>}]
    /\ availRing \in [Slots -> Slots] /\ usedRing \in [Slots -> 0 .. Num]
    /\ availIdx \in Idx /\ usedIdx \in Idx /\ lastUsed \in Idx /\ devLast \in Idx
    /\ usedEvent \in Idx /\ availEvent \in Idx /\ signalled \in Idx
    /\ numAdded \in 0 .. IdxMod - 2
    /\ noInterrupt \in BOOLEAN /\ noNotify \in BOOLEAN
    /\ notified \in BOOLEAN /\ intr \in BOOLEAN
    /\ polling \in BOOLEAN /\ spurious \in BOOLEAN
    /\ inflight \subseteq Slots
    /\ devState \in DevStates
    /\ adding \in 0 .. Num
    /\ devState = "reset" => adding = NoHead /\ inflight = {}

LEMMA SlotsFact ==
    /\ Slots \subseteq Int /\ Num \notin Slots /\ 0 \in Slots
    /\ \A d \in Slots : d \in Int /\ 0 <= d /\ d < Num /\ (d + 1) % Num \in Slots
    /\ \A i \in Int : i % Num \in Slots
<1>1. \A i \in Int : i % Num \in Slots
    BY SizesFact, ModRange DEF Slots
<1>2. \A d \in Slots : d \in Int /\ d + 1 \in Int /\ 0 <= d /\ d < Num
    BY SizesFact DEF Slots
<1> QED
    BY <1>1, <1>2, SizesFact DEF Slots

LEMMA SetupFact ==
    ASSUME TypeInv
    PROVE  setup \in SetupOK /\ (setup.vqEvent => setup.devEvent \/ setup.kickEach)
    BY SetupAssumption, KickAssumption DEF TypeInv

LEMMA Fresh ==
    /\ FreshDesc \in [Slots -> DescType]
    /\ Every(NoToken) \in [Slots -> Tokens \cup {NoToken}]
    /\ Every(<<0, 0>>) \in [Slots -> Shapes \cup {<<0, 0>>}]
    /\ Every(0) \in [Slots -> Slots]
    /\ Every(0) \in [Slots -> 0 .. Num]
<1>1. FreshDesc \in [Slots -> DescType]
    BY SlotsFact DEF FreshDesc, DescType
<1>2. Every(0) \in [Slots -> Slots] /\ Every(0) \in [Slots -> 0 .. Num]
    BY SlotsFact, SizesFact DEF Every
<1> QED
    BY <1>1, <1>2 DEF Every

LEMMA TypeStart == Init => TypeInv
<1> SUFFICES ASSUME Init PROVE TypeInv
    OBVIOUS
<1>1. 0 \in Idx /\ 0 \in 0 .. IdxMod - 2 /\ NoHead \in 0 .. Num
    BY SizesFact, IdxFact, IdxAssumption DEF NoHead
<1>2. FirstState \in DevStates /\ FirstState # "reset"
    BY DEF FirstState, DevStates
<1> QED
    BY <1>1, <1>2, Fresh, SlotsFact DEF Init, TypeInv

(* Any index one further on, or back, is an index.                         *)
LEMMA IdxSteps ==
    \A a \in Idx : /\ Plus(a, 1) \in Idx /\ Minus(a, 1) \in Idx
                   /\ \A n \in Idx : Plus(a, n) \in Idx /\ Minus(a, n) \in Idx
<1>1. 1 \in Idx /\ \A n \in Idx : n \in 0 .. IdxMod
    BY SizesFact, IdxAssumption DEF Idx
<1> QED
    BY <1>1, PlusIs, MinusIs

(* What the table operations leave typed.                                  *)
TableTypes ==
    /\ desc \in [Slots -> DescType] /\ freeHead \in Slots
    /\ data \in [Slots -> Tokens \cup {NoToken}]
    /\ shape \in [Slots -> Shapes \cup {<<0, 0>>}]

LEMMA DetachTypes ==
    ASSUME TypeInv, NEW h \in Slots, DetachBuf(h)
    PROVE  TableTypes'
<1> DEFINE e == ChainEnd(h)
<1>1. desc' = [desc EXCEPT ![e].next = freeHead] /\ freeHead' = h
      /\ data' = [data EXCEPT ![h] = NoToken] /\ shape' = [shape EXCEPT ![h] = <<0, 0>>]
    BY DEF DetachBuf
<1> HIDE DEF e
<1>2. desc' \in [Slots -> DescType]
    BY <1>1 DEF TypeInv, DescType
<1>3. data' \in [Slots -> Tokens \cup {NoToken}] /\ shape' \in [Slots -> Shapes \cup {<<0, 0>>}]
    BY <1>1 DEF TypeInv
<1> QED
    BY <1>1, <1>2, <1>3 DEF TableTypes

LEMMA SetupStep == Next => UNCHANGED setup
  BY DEF Next, Driver, Device, Add, AddFill, AddNoSpace, AddExpose, Kick, KickAlways, GetBuf,
     GetBufNull, DisableCb, EnableCb, EnableCbChecks, EnableCbDelayed, EnableCbDelayedChecks,
     TakeInterrupt, DetachUnused, Shutdown, DevWake, DevFetch, DevDoze, DevRecheck, DevUse,
     DevSpurious, PostUsed, DevSignal, DevReset

-----------------------------------------------------------------------------
(* The functions by which descriptors are followed.  A function that is     *)
(* defined by recursion has its defining equation, since by induction there  *)
(* is such a function up to every length.                                   *)
LEMMA WalkExists ==
    ASSUME NEW step \in [Slots -> Slots], NEW h \in Slots, NEW n \in Nat
    PROVE  \E f \in [0 .. n -> Slots] : f[0] = h /\ \A k \in 1 .. n : f[k] = step[f[k - 1]]
<1> DEFINE Good(m) == \E f \in [0 .. m -> Slots] :
                         f[0] = h /\ \A k \in 1 .. m : f[k] = step[f[k - 1]]
           T == {m \in Nat : Good(m)}
<1>1. 0 \in T
  <2> DEFINE f == [k \in 0 .. 0 |-> h]
  <2>1. f \in [0 .. 0 -> Slots] /\ f[0] = h /\ \A k \in 1 .. 0 : f[k] = step[f[k - 1]]
      OBVIOUS
  <2> QED
      BY <2>1
<1>2. ASSUME NEW m \in Nat, m \in T
      PROVE  m + 1 \in T
  <2>1. PICK f \in [0 .. m -> Slots] : f[0] = h /\ \A k \in 1 .. m : f[k] = step[f[k - 1]]
      BY <1>2
  <2> DEFINE g == [k \in 0 .. m + 1 |-> IF k = m + 1 THEN step[f[m]] ELSE f[k]]
  <2>2. g \in [0 .. m + 1 -> Slots]
    <3>1. m \in 0 .. m /\ \A k \in 0 .. m + 1 : k # m + 1 => k \in 0 .. m
        OBVIOUS
    <3> QED
        BY <3>1
  <2>3. g[0] = h
      BY <2>1
  <2>4. ASSUME NEW k \in 1 .. m + 1
        PROVE  g[k] = step[g[k - 1]]
    <3>1. CASE k = m + 1
      <4>1. k - 1 = m /\ m # m + 1 /\ m \in 0 .. m + 1 /\ k \in 0 .. m + 1
          BY <3>1
      <4> QED
          BY <4>1, <3>1
    <3>2. CASE k # m + 1
      <4>1. k \in 1 .. m /\ k - 1 # m + 1 /\ k - 1 \in 0 .. m + 1 /\ k \in 0 .. m + 1
          BY <3>2
      <4>2. g[k] = f[k] /\ g[k - 1] = f[k - 1]
          BY <4>1, <3>2
      <4> QED
          BY <4>1, <4>2, <2>1
    <3> QED
        BY <3>1, <3>2
  <2>5. Good(m + 1)
    <3> HIDE DEF g
    <3> QED
        BY <2>2, <2>3, <2>4
  <2> HIDE DEF Good
  <2> QED
      BY <2>5
<1>3. n \in T
  <2> HIDE DEF T
  <2> QED
      BY <1>1, <1>2, ForAllNat
<1> QED
    BY <1>3

LEMMA LinksFromIs ==
    ASSUME TypeInv, NEW h \in Slots, NEW n \in Nat
    PROVE  /\ LinksFrom(h, n) \in [0 .. n -> Slots]
           /\ LinksFrom(h, n)[0] = h
           /\ \A k \in 1 .. n : LinksFrom(h, n)[k] = desc[LinksFrom(h, n)[k - 1]].next
<1> DEFINE step == [d \in Slots |-> desc[d].next]
           Is(f) == f = [k \in 0 .. n |-> IF k = 0 THEN h ELSE desc[f[k - 1]].next]
<1>1. step \in [Slots -> Slots]
    BY DEF TypeInv, DescType
<1>2. PICK f \in [0 .. n -> Slots] :
              f[0] = h /\ \A k \in 1 .. n : f[k] = step[f[k - 1]]
  <2>1. \A s \in [Slots -> Slots] : \A d \in Slots : \A m \in Nat :
            \E f \in [0 .. m -> Slots] : f[0] = d /\ \A k \in 1 .. m : f[k] = s[f[k - 1]]
      BY WalkExists
  <2> HIDE DEF step, Is
  <2> QED
      BY <1>1, <2>1
<1>3. Is(f)
  <2>1. ASSUME NEW k \in 0 .. n
        PROVE  f[k] = IF k = 0 THEN h ELSE desc[f[k - 1]].next
    <3>1. k # 0 => k \in 1 .. n /\ f[k - 1] \in Slots
        OBVIOUS
    <3> QED
        BY <3>1, <1>2
  <2> QED
      BY <2>1
<1>4. LinksFrom(h, n) = CHOOSE g : Is(g)
    BY DEF LinksFrom
<1>5. Is(LinksFrom(h, n))
  <2> HIDE DEF Is
  <2> QED
      BY <1>3, <1>4
<1> DEFINE g == LinksFrom(h, n)
<1> HIDE DEF g
<1>6. g = [k \in 0 .. n |-> IF k = 0 THEN h ELSE desc[g[k - 1]].next]
    BY <1>5 DEF g
<1>7. \A k \in 0 .. n : g[k] = IF k = 0 THEN h ELSE desc[g[k - 1]].next
    BY <1>6
<1>8. g[0] = h /\ \A k \in 1 .. n : g[k] = desc[g[k - 1]].next
  <2>1. 0 \in 0 .. n /\ \A k \in 1 .. n : k \in 0 .. n /\ k # 0
      OBVIOUS
  <2> QED
      BY <1>7, <2>1
<1>9. \A k \in 0 .. n : g[k] \in Slots
  <2> DEFINE T == {k \in 0 .. n : g[k] \in Slots}
  <2>1. 0 \in T
      BY <1>8
  <2>2. ASSUME NEW k \in 0 .. n - 1, k \in T
        PROVE  k + 1 \in T
    <3>1. k + 1 \in 1 .. n /\ (k + 1) - 1 = k /\ k + 1 \in 0 .. n
        OBVIOUS
    <3>2. g[k + 1] = desc[g[k]].next
        BY <3>1, <1>8
    <3> QED
        BY <3>1, <3>2, <2>2 DEF TypeInv, DescType
  <2>3. 0 .. n \subseteq T
    <3> HIDE DEF T
    <3> QED
        BY <2>1, <2>2, UpTo
  <2> QED
      BY <2>3
<1> QED
    BY <1>6, <1>8, <1>9 DEF g

(* Where ChainFrom goes on from a descriptor.                              *)
Onward(d) == IF "NEXT" \in desc[d].flags THEN desc[d].next ELSE d

LEMMA ChainFromIs ==
    ASSUME TypeInv, NEW h \in Slots
    PROVE  /\ ChainFrom(h) \in [0 .. Num -> Slots]
           /\ ChainFrom(h)[0] = h
           /\ \A k \in 1 .. Num : ChainFrom(h)[k] = Onward(ChainFrom(h)[k - 1])
<1> DEFINE step == [d \in Slots |-> Onward(d)]
           Is(f) == f = [k \in 0 .. Num |->
                           IF k = 0 THEN h
                           ELSE IF "NEXT" \in desc[f[k - 1]].flags THEN desc[f[k - 1]].next
                           ELSE f[k - 1]]
<1>1. step \in [Slots -> Slots]
    BY DEF TypeInv, DescType, Onward
<1>n. Num \in Nat
    BY SizesFact
<1>2. PICK f \in [0 .. Num -> Slots] :
              f[0] = h /\ \A k \in 1 .. Num : f[k] = step[f[k - 1]]
  <2>1. \A s \in [Slots -> Slots] : \A d \in Slots : \A m \in Nat :
            \E f \in [0 .. m -> Slots] : f[0] = d /\ \A k \in 1 .. m : f[k] = s[f[k - 1]]
      BY WalkExists
  <2> HIDE DEF step, Is
  <2> QED
      BY <1>1, <1>n, <2>1
<1>3. Is(f)
  <2>1. ASSUME NEW k \in 0 .. Num
        PROVE  f[k] = IF k = 0 THEN h
                      ELSE IF "NEXT" \in desc[f[k - 1]].flags THEN desc[f[k - 1]].next
                      ELSE f[k - 1]
    <3>1. k # 0 => k \in 1 .. Num /\ f[k - 1] \in Slots
        BY <1>n
    <3> QED
        BY <3>1, <1>2 DEF Onward
  <2> QED
      BY <2>1
<1>4. ChainFrom(h) = CHOOSE g : Is(g)
    BY DEF ChainFrom
<1>5. Is(ChainFrom(h))
  <2> HIDE DEF Is
  <2> QED
      BY <1>3, <1>4
<1> DEFINE g == ChainFrom(h)
<1> HIDE DEF g
<1>6. g = [k \in 0 .. Num |-> IF k = 0 THEN h
                              ELSE IF "NEXT" \in desc[g[k - 1]].flags THEN desc[g[k - 1]].next
                              ELSE g[k - 1]]
    BY <1>5 DEF g
<1>7. \A k \in 0 .. Num : g[k] = IF k = 0 THEN h ELSE Onward(g[k - 1])
    BY <1>6 DEF Onward
<1>8. g[0] = h /\ \A k \in 1 .. Num : g[k] = Onward(g[k - 1])
  <2>1. 0 \in 0 .. Num /\ \A k \in 1 .. Num : k \in 0 .. Num /\ k # 0
      BY <1>n
  <2> QED
      BY <1>7, <2>1
<1>9. \A k \in 0 .. Num : g[k] \in Slots
  <2> DEFINE T == {k \in 0 .. Num : g[k] \in Slots}
  <2>1. 0 \in T
      BY <1>8, <1>n
  <2>2. ASSUME NEW k \in 0 .. Num - 1, k \in T
        PROVE  k + 1 \in T
    <3>1. k + 1 \in 1 .. Num /\ (k + 1) - 1 = k /\ k + 1 \in 0 .. Num
        BY <1>n
    <3>2. g[k + 1] = Onward(g[k])
        BY <3>1, <1>8
    <3> QED
        BY <3>1, <3>2, <2>2 DEF TypeInv, DescType, Onward
  <2>3. 0 .. Num \subseteq T
    <3> HIDE DEF T
    <3> QED
        BY <2>1, <2>2, <1>n, UpTo
  <2> QED
      BY <2>3
<1> QED
    BY <1>6, <1>8, <1>9 DEF g

LEMMA ShapeFact ==
    \A s \in Shapes : /\ s[1] \in Nat /\ s[2] \in Nat /\ s[1] + s[2] \in 1 .. Num
                      /\ s[1] + s[2] \in Nat /\ s[1] + s[2] > 0
    BY ShapeAssumption, SizesFact

-----------------------------------------------------------------------------
(* The ranges are kept.                                                    *)

LEMMA AddFillTypes ==
    ASSUME TypeInv, NEW s \in Shapes, NEW t \in Tokens, AddFill(t, s)
    PROVE  TypeInv'
<1> USE DEF AddFill
<1>1. desc' \in [Slots -> DescType] /\ freeHead' \in Slots
  <2>1. CASE AddDirect(t, s)
    <3> DEFINE n == s[1] + s[2]
               at == LinksFrom(freeHead, n)
    <3>1. n \in Nat
        BY ShapeFact
    <3>2. at \in [0 .. n -> Slots]
      <4>1. freeHead \in Slots
          BY DEF TypeInv
      <4> HIDE DEF n
      <4> QED
          BY <4>1, <3>1, LinksFromIs
    <3>3. freeHead' = at[n]
        BY <2>1 DEF AddDirect
    <3>4. ASSUME NEW d \in Slots
          PROVE  desc[d] \in DescType
                 /\ \A k : [next |-> desc[d].next, flags |-> DescFlags(s[1], s[2], k)] \in DescType
        BY DEF TypeInv, DescType, DescFlags, Flag
    <3>5. desc' = [d \in Slots |->
                      IF \E k \in 0 .. n - 1 : at[k] = d
                      THEN [next |-> desc[d].next,
                            flags |-> DescFlags(s[1], s[2], CHOOSE k \in 0 .. n - 1 : at[k] = d)]
                      ELSE desc[d]]
        BY <2>1 DEF AddDirect
    <3>6. freeHead' \in Slots
      <4> HIDE DEF n, at
      <4>1. n \in 0 .. n
          BY <3>1
      <4> QED
          BY <4>1, <3>2, <3>3
    <3> HIDE DEF n, at
    <3> QED
        BY <3>4, <3>5, <3>6
  <2>2. CASE AddIndirect(t, s)
    <3>1. desc' = [desc EXCEPT ![freeHead].flags = {"INDIRECT"}] /\ freeHead' = desc[freeHead].next
        BY <2>2 DEF AddIndirect
    <3> QED
        BY <3>1 DEF TypeInv, DescType, Flag
  <2> QED
      BY <2>1, <2>2
<1>2. shape' = [shape EXCEPT ![freeHead] = s] /\ data' = [data EXCEPT ![freeHead] = t]
    BY DEF AddDirect, AddIndirect
<1>3. availRing' \in [Slots -> Slots]
    BY DEF TypeInv
<1>4. adding' \in 0 .. Num /\ devState' # "reset"
  <2>1. adding' = freeHead /\ devState' = devState /\ devState # "reset" /\ freeHead \in Slots
      BY DEF TypeInv, Ready, deviceVars
  <2> QED
      BY <2>1, SizesFact DEF Slots
<1>5. UNCHANGED <<availIdx, numAdded, noInterrupt, usedEvent, lastUsed,
                  deviceVars, notified, intr, polling, setup, spurious>>
    OBVIOUS
<1> HIDE DEF AddFill
<1>6. shape' \in [Slots -> Shapes \cup {<<0, 0>>}] /\ data' \in [Slots -> Tokens \cup {NoToken}]
    BY <1>2 DEF TypeInv
<1> QED
    BY <1>1, <1>3, <1>4, <1>5, <1>6 DEF TypeInv, deviceVars

LEMMA ExposeTypes ==
    ASSUME TypeInv, AddExpose
    PROVE  TypeInv'
<1>1. availIdx' \in Idx
    BY IdxSteps DEF AddExpose, TypeInv
<1>2. numAdded' \in 0 .. IdxMod - 2
    BY IdxAssumption DEF AddExpose, TypeInv
<1>3. notified' \in BOOLEAN
    BY DEF AddExpose, TypeInv
<1>4. adding' \in 0 .. Num /\ adding' = NoHead
    BY SizesFact DEF AddExpose, NoHead
<1> QED
    BY <1>1, <1>2, <1>3, <1>4 DEF TypeInv, AddExpose, tableVars, deviceVars

LEMMA GetBufTypes ==
    ASSUME TypeInv, GetBuf
    PROVE  TypeInv'
<1> DEFINE h == usedRing[lastUsed % Num]
<1>1. h \in Slots /\ DetachBuf(h)
    BY DEF GetBuf, HeadsInUse
<1>2. TableTypes'
  <2> HIDE DEF h
  <2> QED
      BY <1>1, DetachTypes
<1>3. lastUsed' \in Idx /\ usedEvent' \in Idx /\ polling' \in BOOLEAN
    BY IdxSteps DEF GetBuf, TypeInv
<1>4. UNCHANGED <<availRing, availIdx, numAdded, noInterrupt,
                  deviceVars, notified, intr, adding, setup, spurious>>
    BY DEF GetBuf
<1> QED
    BY <1>2, <1>3, <1>4 DEF TypeInv, TableTypes, deviceVars

LEMMA DetachUnusedTypes ==
    ASSUME TypeInv, DetachUnused
    PROVE  TypeInv'
<1>1. PICK h \in HeadsInUse :
        /\ DetachBuf(h)
        /\ availIdx' = Minus(availIdx, 1)
        /\ UNCHANGED <<availRing, numAdded, noInterrupt, usedEvent,
                       lastUsed, deviceVars, notified, intr, adding,
                       polling, setup, spurious>>
    BY DEF DetachUnused
<1>2. TableTypes'
    BY <1>1, DetachTypes DEF HeadsInUse
<1>3. availIdx' \in Idx
    BY <1>1, IdxSteps DEF TypeInv
<1> QED
    BY <1>1, <1>2, <1>3 DEF TypeInv, TableTypes, deviceVars

LEMMA ShutdownTypes ==
    ASSUME TypeInv, Shutdown
    PROVE  TypeInv'
<1>1. 0 \in Idx /\ 0 \in 0 .. IdxMod - 2
    BY SizesFact, IdxFact, IdxAssumption
<1>2. FirstState \in DevStates /\ FirstState # "reset"
    BY DEF FirstState, DevStates
<1> QED
    BY <1>1, <1>2, Fresh, SlotsFact DEF Shutdown, TypeInv

(* The driver's other operations leave the table alone.                     *)
LEMMA PlainDriverTypes ==
    ASSUME TypeInv, tableVars' = tableVars, deviceVars' = deviceVars,
           setup' = setup, adding' = adding, spurious' = spurious,
           \/ \E s \in Shapes : AddNoSpace(s)
           \/ Kick \/ KickAlways \/ GetBufNull
           \/ DisableCb
           \/ EnableCb \/ EnableCbChecks \/ EnableCbDelayed \/ EnableCbDelayedChecks
           \/ TakeInterrupt
    PROVE  TypeInv'
<1>1. UNCHANGED <<desc, freeHead, data, shape, usedRing, usedIdx, availEvent, noNotify,
                  devLast, inflight, devState, signalled, setup, adding, spurious>>
    BY DEF tableVars, deviceVars
<1>2. UNCHANGED <<availRing, availIdx, lastUsed>>
    BY DEF AddNoSpace, Kick, KickAlways, GetBufNull, DisableCb, EnableCb, EnableCbChecks,
       EnableCbDelayed, EnableCbDelayedChecks, TakeInterrupt, driverVars
<1>3. usedEvent' \in Idx
  <2>1. CASE EnableCb
      BY <2>1 DEF EnableCb, TypeInv
  <2>2. CASE EnableCbDelayed
    <3>1. DelayedBufs \in Idx
      <4> DEFINE m == Minus(availIdx, lastUsed)
      <4>1. m \in Idx
          BY MinusIs DEF TypeInv
      <4> HIDE DEF m
      <4>2. (m * 3) \div 4 \in Idx
          BY <4>1, SizesFact DEF Idx
      <4> QED
          BY <4>2 DEF DelayedBufs, m
    <3> QED
        BY <2>2, <3>1, IdxSteps DEF EnableCbDelayed, TypeInv
  <2>3. CASE ~ EnableCb /\ ~ EnableCbDelayed
    <3>1. usedEvent' = usedEvent
        BY <2>3 DEF AddNoSpace, Kick, KickAlways, GetBufNull, DisableCb, EnableCbChecks,
           EnableCbDelayedChecks, TakeInterrupt, driverVars
    <3> QED
        BY <3>1 DEF TypeInv
  <2> QED
      BY <2>1, <2>2, <2>3
<1>4. numAdded' \in 0 .. IdxMod - 2
    BY IdxAssumption DEF AddNoSpace, Kick, KickAlways, GetBufNull, DisableCb, EnableCb,
       EnableCbChecks, EnableCbDelayed, EnableCbDelayedChecks, TakeInterrupt, driverVars,
       TypeInv
<1>5. noInterrupt' \in BOOLEAN /\ intr' \in BOOLEAN /\ polling' \in BOOLEAN
  <2>1. noInterrupt' \in BOOLEAN
      BY DEF AddNoSpace, Kick, KickAlways, GetBufNull, DisableCb, EnableCb, EnableCbChecks,
         EnableCbDelayed, EnableCbDelayedChecks, TakeInterrupt, driverVars, TypeInv
  <2>2. intr' \in BOOLEAN
      BY DEF AddNoSpace, Kick, KickAlways, GetBufNull, DisableCb, EnableCb, EnableCbChecks,
         EnableCbDelayed, EnableCbDelayedChecks, TakeInterrupt, driverVars, TypeInv
  <2>3. polling' \in BOOLEAN
    <3>1. CASE EnableCbChecks
        BY <3>1 DEF EnableCbChecks, MoreUsed
    <3>2. CASE EnableCbDelayedChecks
        BY <3>2 DEF EnableCbDelayedChecks
    <3>3. CASE ~ EnableCbChecks /\ ~ EnableCbDelayedChecks
        BY <3>3 DEF AddNoSpace, Kick, KickAlways, GetBufNull, DisableCb, EnableCb,
           EnableCbDelayed, TakeInterrupt, TypeInv
    <3> QED
        BY <3>1, <3>2, <3>3
  <2> QED
      BY <2>1, <2>2, <2>3
<1>6. notified' \in BOOLEAN
    BY DEF AddNoSpace, Kick, KickAlways, GetBufNull, DisableCb, EnableCb, EnableCbChecks,
       EnableCbDelayed, EnableCbDelayedChecks, TakeInterrupt, TypeInv
<1> QED
    BY <1>1, <1>2, <1>3, <1>4, <1>5, <1>6 DEF TypeInv

LEMMA DeviceTypes ==
    ASSUME TypeInv, Device
    PROVE  TypeInv'
<1>1. UNCHANGED <<tableVars, driverVars, adding, polling, setup>>
  BY DEF Device, DevWake, DevFetch, DevDoze, DevRecheck, DevUse, DevSpurious, PostUsed, DevSignal,
         DevReset
<1>2. /\ usedRing' \in [Slots -> 0 .. Num]
      /\ usedIdx' \in Idx /\ signalled' \in Idx
  <2>1. ASSUME NEW h \in 0 .. Num, PostUsed(h)
        PROVE  usedRing' \in [Slots -> 0 .. Num] /\ usedIdx' \in Idx /\ signalled' \in Idx
      BY <2>1, IdxSteps DEF PostUsed, TypeInv
  <2>2. \A h \in Slots : h \in 0 .. Num
      BY SizesFact DEF Slots
  <2>3. NoHead \in 0 .. Num
      BY SizesFact DEF NoHead
  <2>4. CASE \E h \in Slots : DevUse(h)
      BY <2>4, <2>1, <2>2 DEF DevUse
  <2>5. CASE DevSpurious
    <3>1. PICK h \in (Slots \ HeadsInUse) \cup {NoHead} : PostUsed(h)
        BY <2>5 DEF DevSpurious
    <3> QED
        BY <3>1, <2>1, <2>2, <2>3
  <2>6. CASE DevWake \/ DevFetch \/ DevDoze \/ DevRecheck \/ DevSignal \/ DevReset
      BY <2>6 DEF DevWake, DevFetch, DevDoze, DevRecheck, DevSignal, DevReset, TypeInv
  <2> QED
      BY <2>4, <2>5, <2>6 DEF Device
<1>3. availEvent' \in Idx /\ devLast' \in Idx
  BY IdxSteps DEF Device, DevWake, DevFetch, DevDoze, DevRecheck, DevUse, DevSpurious, PostUsed,
     DevSignal, DevReset, TypeInv
<1>4. noNotify' \in BOOLEAN
  BY DEF Device, DevWake, DevFetch, DevDoze, DevRecheck, DevUse, DevSpurious, PostUsed,
     DevSignal, DevReset, TypeInv
<1>5. notified' \in BOOLEAN /\ spurious' \in BOOLEAN
  BY DEF Device, DevWake, DevFetch, DevDoze, DevRecheck, DevUse, DevSpurious, PostUsed,
     DevSignal, DevReset, TypeInv
<1>6. intr' \in BOOLEAN
  BY DEF Device, DevWake, DevFetch, DevDoze, DevRecheck, DevUse, DevSpurious, PostUsed,
     DevSignal, DevReset, TypeInv
<1>7. inflight' \subseteq Slots
  <2>1. devLast % Num \in Slots
      BY SlotsFact, IdxFact DEF TypeInv
  <2> QED
      BY <2>1 DEF Device, DevWake, DevFetch, DevDoze, DevRecheck, DevUse, DevSpurious, PostUsed,
         DevSignal, DevReset, TypeInv
<1>8. devState' \in DevStates /\ (devState' = "reset" => adding = NoHead /\ inflight' = {})
  BY DEF Device, DevWake, DevFetch, DevDoze, DevRecheck, DevUse, DevSpurious, PostUsed,
     DevSignal, DevReset, TypeInv, DevStates, Ready
<1> QED
    BY <1>1, <1>2, <1>3, <1>4, <1>5, <1>6, <1>7, <1>8 DEF TypeInv, tableVars, driverVars

LEMMA TypeNext == TypeInv /\ [Next]_vars => TypeInv'
<1> SUFFICES ASSUME TypeInv, [Next]_vars
             PROVE  TypeInv'
    OBVIOUS
<1>1. ASSUME NEW s \in Shapes, NEW t \in Tokens, AddFill(t, s)
      PROVE  TypeInv'
    BY <1>1, AddFillTypes
<1>2. ASSUME NEW s \in Shapes, AddNoSpace(s)
      PROVE  TypeInv'
  <2>1. UNCHANGED <<tableVars, deviceVars, setup, adding, spurious>>
      BY <1>2 DEF AddNoSpace
  <2> QED
      BY <1>2, <2>1, PlainDriverTypes
<1>3. CASE AddExpose
    BY <1>3, ExposeTypes
<1>4. CASE \/ Kick \/ KickAlways \/ GetBufNull
           \/ DisableCb
           \/ EnableCb \/ EnableCbChecks \/ EnableCbDelayed \/ EnableCbDelayedChecks
           \/ TakeInterrupt
  <2>1. UNCHANGED <<tableVars, deviceVars, setup, adding, spurious>>
      BY <1>4 DEF Kick, KickAlways, GetBufNull, DisableCb, EnableCb, EnableCbChecks,
         EnableCbDelayed, EnableCbDelayedChecks, TakeInterrupt
  <2> QED
      BY <1>4, <2>1, PlainDriverTypes
<1>5. CASE GetBuf
    BY <1>5, GetBufTypes
<1>6. CASE DetachUnused
    BY <1>6, DetachUnusedTypes
<1>7. CASE Shutdown
    BY <1>7, ShutdownTypes
<1>8. CASE Device
    BY <1>8, DeviceTypes
<1>9. CASE UNCHANGED vars
    BY <1>9 DEF vars, tableVars, driverVars, deviceVars, TypeInv
<1> QED
    BY <1>1, <1>2, <1>3, <1>4, <1>5, <1>6, <1>7, <1>8, <1>9 DEF Next, Driver, Add

LEMMA Typed == Spec => []TypeInv
    BY TypeStart, TypeNext, PTL DEF Spec

-----------------------------------------------------------------------------
(* The suppression of kicks.  A device that sleeps, or is about to, asks for *)
(* a kick, by the flag or with avail_event at the entry it will read next;   *)
(* and a sleeping device that was not notified lags at most num_added        *)
(* entries behind, so that need_event cannot take the event for passed.      *)
KickInv ==
    /\ devState \in {"asleep", "dozing"} =>
          ~ noNotify /\ (setup.devEvent => availEvent = devLast)
    /\ devState = "asleep" /\ ~ notified => Minus(availIdx, devLast) <= numAdded
    /\ setup.kickEach /\ adding # NoHead => numAdded = 0

LEMMA KickStart == Init => KickInv
<1> SUFFICES ASSUME Init PROVE KickInv
    OBVIOUS
<1>1. Minus(0, 0) = 0
    BY MinusZero, IdxFact
<1> QED
    BY <1>1 DEF Init, KickInv

(* A kick_prepare that finds nothing to announce is right about it.          *)
LEMMA KickPrepared ==
    ASSUME TypeInv, NEW new \in Idx, NEW added \in 0 .. IdxMod - 1,
           devState = "asleep", ~ noNotify, setup.devEvent => availEvent = devLast,
           setup.vqEvent => setup.devEvent,
           Minus(new, devLast) <= added, ~ NeedsKick(new, added)
    PROVE  Minus(new, devLast) = 0
<1>1. CASE ~ setup.vqEvent
    BY <1>1 DEF NeedsKick
<1>2. CASE setup.vqEvent
  <2>1. ~ NeedEvent(devLast, new, Minus(new, added))
      BY <1>2 DEF NeedsKick
  <2>2. added \in Idx /\ devLast \in Idx
      BY DEF Idx, TypeInv
  <2>3. Minus(new, added) \in Idx /\ Minus(new, Minus(new, added)) = added
      BY <2>2, MinusIs, MinusMinus
  <2> QED
      BY <2>1, <2>2, <2>3, NeedEventIs
<1> QED
    BY <1>1, <1>2

LEMMA KickNext ==
    ASSUME TypeInv, KickInv, [Next]_vars
    PROVE  KickInv'
<1> USE DEF KickInv
<1>t. /\ availIdx \in Idx /\ devLast \in Idx /\ numAdded \in 0 .. IdxMod - 2
      /\ numAdded \in Int /\ numAdded + 1 \in Int
      /\ numAdded + 1 \in 0 .. IdxMod - 1 /\ numAdded \in 0 .. IdxMod - 1
      /\ Minus(availIdx, devLast) \in Idx
  <2>1. availIdx \in Idx /\ devLast \in Idx /\ numAdded \in 0 .. IdxMod - 2
      BY DEF TypeInv
  <2> QED
      BY <2>1, MinusIs, IdxAssumption
<1>s. setup.vqEvent => setup.devEvent \/ setup.kickEach
    BY SetupFact
<1>1. CASE AddExpose
  <2>1. /\ UNCHANGED <<devState, noNotify, availEvent, devLast, setup>>
        /\ adding' = NoHead /\ adding # NoHead /\ availIdx' = Plus(availIdx, 1)
      BY <1>1 DEF AddExpose, deviceVars
  <2>2. ASSUME devState = "asleep", ~ notified'
        PROVE  Minus(availIdx', devLast) <= numAdded'
    <3>1. Minus(availIdx', devLast) <= numAdded + 1 /\ availIdx' \in Idx
      <4>1. ~ notified
          BY <1>1, <2>2 DEF AddExpose
      <4>2. Minus(availIdx, devLast) <= numAdded
          BY <2>2, <4>1
      <4>3. Minus(availIdx', devLast)
              = IF Minus(availIdx, devLast) = IdxMod - 1 THEN 0 ELSE Minus(availIdx, devLast) + 1
          BY <2>1, <1>t, MinusAhead
      <4>4. availIdx' \in Idx
          BY <2>1, <1>t, IdxSteps
      <4> DEFINE m == Minus(availIdx, devLast)
      <4>5. /\ m \in Int /\ m <= numAdded
            /\ Minus(availIdx', devLast) = IF m = IdxMod - 1 THEN 0 ELSE m + 1
          BY <4>2, <4>3, <1>t DEF Idx
      <4> HIDE DEF m
      <4> QED
          BY <4>4, <4>5, <1>t
    <3>2. CASE numAdded + 1 = IdxMod - 1
      <4>1. ~ NeedsKick(availIdx', numAdded + 1) /\ numAdded' = 0
          BY <1>1, <3>2, <2>2 DEF AddExpose
      <4>2. ~ setup.kickEach
          BY <2>1, <3>2, IdxAssumption
      <4>3. Minus(availIdx', devLast) = 0
          BY <4>1, <4>2, <3>1, <2>2, <1>t, <1>s, KickPrepared
      <4> QED
          BY <4>1, <4>3
    <3>3. CASE numAdded + 1 # IdxMod - 1
        BY <3>1, <3>3, <1>1 DEF AddExpose
    <3> QED
        BY <3>2, <3>3
  <2> QED
      BY <2>1, <2>2
<1>2. CASE Kick
  <2>1. /\ UNCHANGED <<devState, noNotify, availEvent, devLast, setup, availIdx, adding>>
        /\ numAdded' = 0 /\ ~ setup.kickEach
      BY <1>2 DEF Kick, deviceVars
  <2>2. ASSUME devState = "asleep", ~ notified'
        PROVE  Minus(availIdx, devLast) = 0
    <3>1. ~ notified /\ ~ NeedsKick(availIdx, numAdded)
        BY <1>2, <2>2 DEF Kick
    <3> QED
        BY <2>1, <2>2, <3>1, <1>t, <1>s, KickPrepared
  <2> QED
      BY <2>1, <2>2
<1>3. CASE KickAlways
    BY <1>3 DEF KickAlways, deviceVars, Ready
<1>4. ASSUME NEW s \in Shapes, NEW t \in Tokens, AddFill(t, s)
      PROVE  KickInv'
    BY <1>4 DEF AddFill, deviceVars
<1>5. ASSUME NEW s \in Shapes, AddNoSpace(s)
      PROVE  KickInv'
    BY <1>5 DEF AddNoSpace, deviceVars, driverVars
<1>6. CASE GetBuf
    BY <1>6 DEF GetBuf, deviceVars
<1>7. CASE GetBufNull \/ TakeInterrupt
    BY <1>7 DEF GetBufNull, TakeInterrupt, deviceVars, driverVars
<1>8. CASE DisableCb \/ EnableCb \/ EnableCbDelayed \/ EnableCbChecks \/ EnableCbDelayedChecks
    BY <1>8 DEF DisableCb, EnableCb, EnableCbDelayed, EnableCbChecks, EnableCbDelayedChecks,
       deviceVars, driverVars
<1>9. CASE DetachUnused
    BY <1>9 DEF DetachUnused, deviceVars
<1>10. CASE Shutdown
  <2>1. Minus(0, 0) = 0
      BY MinusZero, IdxFact
  <2> QED
      BY <1>10, <2>1 DEF Shutdown, FirstState, TypeInv
<1>11. CASE DevDoze \/ DevRecheck
  <2>1. devLast = availIdx => Minus(availIdx, devLast) = 0
      BY <1>t, MinusZero
  <2>2. /\ UNCHANGED <<setup, availIdx, devLast, numAdded, adding, notified>>
      BY <1>11 DEF DevDoze, DevRecheck, driverVars
  <2>3. CASE DevDoze
      BY <2>2, <2>3 DEF DevDoze
  <2>4. CASE DevRecheck /\ devLast # availIdx
      BY <2>2, <2>4 DEF DevRecheck
  <2>5. CASE DevRecheck /\ devLast = availIdx
    <3>1. ~ noNotify' /\ devState' = "asleep" /\ devState = "dozing" /\ availEvent' = availEvent
        BY <2>5 DEF DevRecheck
    <3>2. Minus(availIdx, devLast) <= numAdded
        BY <2>1, <2>5, <1>t
    <3> QED
        BY <2>2, <3>1, <3>2
  <2> QED
      BY <1>11, <2>3, <2>4, <2>5
<1>12. CASE DevWake \/ DevFetch \/ DevReset
    BY <1>12 DEF DevWake, DevFetch, DevReset, driverVars
<1>13. CASE (\E h \in Slots : DevUse(h)) \/ DevSpurious \/ DevSignal
    BY <1>13 DEF DevUse, DevSpurious, PostUsed, DevSignal, driverVars
<1>14. CASE UNCHANGED vars
    BY <1>14 DEF vars, driverVars, deviceVars
<1> QED
    BY <1>1, <1>2, <1>3, <1>4, <1>5, <1>6, <1>7, <1>8, <1>9, <1>10, <1>11, <1>12, <1>13, <1>14
       DEF Next, Driver, Device, Add

(* A device that went to sleep with entries it has not seen is notified, or  *)
(* the driver has yet to make its kick call: kick_prepare, kick_always and   *)
(* the kick that virtqueue_add_buf makes by itself never leave it asleep.     *)
THEOREM KicksCorrect == Spec => []NoLostKick
<1>1. TypeInv /\ KickInv => NoLostKick
  <2> SUFFICES ASSUME TypeInv, KickInv, devState = "asleep", devLast # availIdx, ~ notified
               PROVE  numAdded > 0
      BY DEF NoLostKick
  <2>1. availIdx \in Idx /\ devLast \in Idx /\ numAdded \in 0 .. IdxMod - 2
      BY DEF TypeInv
  <2>2. Minus(availIdx, devLast) # 0 /\ Minus(availIdx, devLast) \in Idx
      BY <2>1, MinusZero, MinusIs
  <2>3. Minus(availIdx, devLast) <= numAdded
      BY DEF KickInv
  <2> QED
      BY <2>1, <2>2, <2>3, SizesFact DEF Idx
<1>2. KickInv /\ TypeInv /\ [Next]_vars => KickInv'
    BY KickNext
<1> QED
    BY <1>1, <1>2, KickStart, Typed, PTL DEF Spec

-----------------------------------------------------------------------------
(* The descriptor table.  Every descriptor belongs to one list, the free     *)
(* list or the chain of a head in use, and has its own place there; from     *)
(* each place but the last one the next link leads to the following place.   *)
Lists == HeadsInUse \cup {NoHead}
Size(h) == IF "INDIRECT" \in desc[h].flags THEN 1 ELSE shape[h][1] + shape[h][2]
Extent(l) == IF l = NoHead THEN numFree ELSE Size(l)
First(l) == IF l = NoHead THEN freeHead ELSE l

Placed(own, pos) ==
    /\ own \in [Slots -> 0 .. Num] /\ pos \in [Slots -> Nat]
    /\ \A d \in Slots : own[d] \in Lists /\ pos[d] < Extent(own[d])
    /\ \A d, e \in Slots : own[d] = own[e] /\ pos[d] = pos[e] => d = e
    /\ \A l \in Lists : Extent(l) > 0 => own[First(l)] = l /\ pos[First(l)] = 0
    /\ \A d \in Slots : pos[d] + 1 < Extent(own[d]) =>
          own[desc[d].next] = own[d] /\ pos[desc[d].next] = pos[d] + 1

(* The flags tell of each descriptor in a chain what was asked for.          *)
Flagged(own, pos) ==
    \A d \in Slots : own[d] # NoHead =>
        IF "INDIRECT" \in desc[own[d]].flags
        THEN desc[own[d]].flags = {"INDIRECT"} /\ shape[own[d]][1] + shape[own[d]][2] > 1
        ELSE desc[d].flags = DescFlags(shape[own[d]][1], shape[own[d]][2], pos[d])

TableInv ==
    /\ numFree \in 0 .. Num
    /\ \A h \in HeadsInUse : shape[h] \in Shapes
    /\ \E own \in [Slots -> 0 .. Num] : \E pos \in [Slots -> Nat] :
          Placed(own, pos) /\ Flagged(own, pos)

LEMMA ListsFact ==
    ASSUME TypeInv, numFree \in 0 .. Num, \A h \in HeadsInUse : shape[h] \in Shapes
    PROVE  /\ \A h \in HeadsInUse : h \in Lists /\ h \in Slots /\ h # NoHead
                 /\ Size(h) \in 1 .. Num /\ Extent(h) = Size(h) /\ First(h) = h
           /\ NoHead \in Lists /\ Extent(NoHead) = numFree /\ First(NoHead) = freeHead
           /\ \A l \in Lists : Extent(l) \in 0 .. Num /\ Extent(l) \in Int /\ First(l) \in Slots
<1>1. \A h \in HeadsInUse : h \in Slots /\ h # NoHead
    BY SlotsFact DEF HeadsInUse, NoHead
<1>2. ASSUME NEW h \in HeadsInUse
      PROVE  Size(h) \in 1 .. Num
    BY ShapeFact, SizesFact DEF Size
<1>3. NoHead \in Lists /\ Extent(NoHead) = numFree /\ First(NoHead) = freeHead
    BY DEF Lists, Extent, First
<1>4. freeHead \in Slots /\ Num \in Nat
    BY SizesFact DEF TypeInv
<1>5. \A h \in HeadsInUse : Extent(h) = Size(h) /\ First(h) = h
    BY <1>1 DEF Extent, First
<1>6. \A l \in Lists : Extent(l) \in 0 .. Num /\ First(l) \in Slots
    BY <1>1, <1>2, <1>3, <1>4, <1>5 DEF Lists
<1> QED
    BY <1>1, <1>2, <1>3, <1>4, <1>5, <1>6 DEF Lists

(* The next links from the first descriptor of a list run through its places.*)
LEMMA LinksPlaced ==
    ASSUME TypeInv, numFree \in 0 .. Num, \A h \in HeadsInUse : shape[h] \in Shapes,
           NEW own, NEW pos, Placed(own, pos),
           NEW l \in Lists, NEW n \in Nat, NEW k \in 0 .. n, k < Extent(l)
    PROVE  /\ LinksFrom(First(l), n)[k] \in Slots
           /\ own[LinksFrom(First(l), n)[k]] = l
           /\ pos[LinksFrom(First(l), n)[k]] = k
<1> DEFINE at == LinksFrom(First(l), n)
           T == {j \in 0 .. k : own[at[j]] = l /\ pos[at[j]] = j}
<1>1. First(l) \in Slots /\ Extent(l) \in Int /\ k \in Nat
    BY ListsFact
<1>2. at \in [0 .. n -> Slots] /\ at[0] = First(l) /\ \A j \in 1 .. n : at[j] = desc[at[j - 1]].next
    BY <1>1, LinksFromIs
<1> HIDE DEF at
<1>3. 0 \in T
    BY <1>1, <1>2 DEF Placed
<1>4. ASSUME NEW j \in 0 .. k - 1, j \in T
      PROVE  j + 1 \in T
  <2>1. j + 1 \in 1 .. n /\ j + 1 - 1 = j /\ j \in 0 .. n /\ j + 1 \in 0 .. k
      BY <1>1
  <2>2. at[j] \in Slots /\ at[j + 1] = desc[at[j]].next
      BY <1>2, <2>1
  <2>3. own[at[j]] = l /\ pos[at[j]] = j /\ j + 1 < Extent(l)
      BY <1>4, <1>1
  <2> QED
      BY <2>1, <2>2, <2>3 DEF Placed
<1>5. k \in T
  <2> HIDE DEF T
  <2>1. 0 .. k \subseteq T
      BY <1>1, <1>3, <1>4, UpTo
  <2> QED
      BY <2>1, <1>1
<1> QED
    BY <1>1, <1>2, <1>5 DEF at

(* Each place in a list is taken.                                          *)
LEMMA PlacesTaken ==
    ASSUME TypeInv, numFree \in 0 .. Num, \A h \in HeadsInUse : shape[h] \in Shapes,
           NEW own, NEW pos, Placed(own, pos), NEW l \in Lists
    PROVE  \E f \in [0 .. Extent(l) - 1 -> {d \in Slots : own[d] = l}] :
              /\ \A k \in 0 .. Extent(l) - 1 : pos[f[k]] = k
              /\ f \in Bijection(0 .. Extent(l) - 1, {d \in Slots : own[d] = l})
<1> DEFINE K == 0 .. Extent(l) - 1
           S == {d \in Slots : own[d] = l}
           at == LinksFrom(First(l), Num)
           f == [k \in K |-> at[k]]
<1>1. Extent(l) \in 0 .. Num /\ Num \in Nat
    BY ListsFact, SizesFact
<1>2. ASSUME NEW k \in K
      PROVE  f[k] \in S /\ pos[f[k]] = k
  <2>1. k \in 0 .. Num /\ k < Extent(l)
      BY <1>1
  <2> QED
      BY <2>1, <1>1, LinksPlaced
<1>3. f \in [K -> S]
    BY <1>2
<1>4. \A j, k \in K : f[j] = f[k] => j = k
    BY <1>2
<1>5. ASSUME NEW d \in S
      PROVE  \E k \in K : f[k] = d
  <2>1. pos[d] \in K
      BY <1>1 DEF Placed
  <2>2. f[pos[d]] = d
      BY <2>1, <1>2 DEF Placed
  <2> QED
      BY <2>1, <2>2
<1>6. f \in Bijection(K, S)
  <2> HIDE DEF f, K, S
  <2> QED
      BY <1>3, <1>4, <1>5 DEF Bijection, Injection, Surjection, IsInjective
<1> QED
    BY <1>2, <1>3, <1>6

LEMMA IntervalCount ==
    ASSUME NEW n \in Nat
    PROVE  IsFiniteSet(0 .. n - 1) /\ Cardinality(0 .. n - 1) = n
<1>1. 0 \in Int /\ n - 1 \in Int
    OBVIOUS
<1>2. IsFiniteSet(0 .. n - 1) /\ Cardinality(0 .. n - 1) = IF 0 > n - 1 THEN 0 ELSE n - 1 - 0 + 1
    BY <1>1, FS_Interval
<1> QED
    BY <1>2

LEMMA ListCount ==
    ASSUME TypeInv, numFree \in 0 .. Num, \A h \in HeadsInUse : shape[h] \in Shapes,
           NEW own, NEW pos, Placed(own, pos), NEW l \in Lists
    PROVE  /\ IsFiniteSet({d \in Slots : own[d] = l})
           /\ Cardinality({d \in Slots : own[d] = l}) = Extent(l)
<1> DEFINE K == 0 .. Extent(l) - 1
           S == {d \in Slots : own[d] = l}
<1>1. ExistsBijection(K, S)
    BY PlacesTaken DEF ExistsBijection
<1>2. IsFiniteSet(K) /\ Cardinality(K) = Extent(l)
  <2>1. Extent(l) \in Nat
      BY ListsFact
  <2> QED
      BY <2>1, IntervalCount
<1> HIDE DEF K, S
<1>3. IsFiniteSet(S) /\ Cardinality(S) = Cardinality(K)
    BY <1>1, <1>2, FS_Bijection
<1> QED
    BY <1>2, <1>3 DEF S

(* The number of elements of a union, when the parts are subsets of Slots.   *)
LEMMA SlotsCount ==
    /\ IsFiniteSet(Slots) /\ Cardinality(Slots) = Num
    /\ \A S \in SUBSET Slots : IsFiniteSet(S) /\ Cardinality(S) \in 0 .. Num
    /\ \A S, T \in SUBSET Slots :
          S \cap T = {} => Cardinality(S \cup T) = Cardinality(S) + Cardinality(T)
<1>1. Num \in Nat
    BY SizesFact
<1>2. IsFiniteSet(Slots) /\ Cardinality(Slots) = Num
    BY <1>1, IntervalCount DEF Slots
<1>3. ASSUME NEW S \in SUBSET Slots
      PROVE  IsFiniteSet(S) /\ Cardinality(S) \in 0 .. Num
  <2>1. IsFiniteSet(S) /\ Cardinality(S) <= Num
      BY <1>2, FS_Subset
  <2>2. Cardinality(S) \in Nat
      BY <2>1, FS_CardinalityType
  <2> QED
      BY <1>1, <2>1, <2>2
<1>4. ASSUME NEW S \in SUBSET Slots, NEW T \in SUBSET Slots, S \cap T = {}
      PROVE  Cardinality(S \cup T) = Cardinality(S) + Cardinality(T)
  <2>1. Cardinality(S \cup T) = Cardinality(S) + Cardinality(T) - Cardinality(S \cap T)
      BY <1>3, FS_Union
  <2>2. Cardinality(S \cap T) = 0
      BY <1>4, FS_EmptySet
  <2>3. Cardinality(S) \in Int /\ Cardinality(T) \in Int
      BY <1>3
  <2> QED
      BY <2>1, <2>2, <2>3
<1> QED
    BY <1>2, <1>3, <1>4

(* The chain of a head in use runs through the places of its list, and stays *)
(* at the last one.                                                        *)
LEMMA ChainPlaced ==
    ASSUME TypeInv, numFree \in 0 .. Num, \A h \in HeadsInUse : shape[h] \in Shapes,
           NEW own, NEW pos, Placed(own, pos), Flagged(own, pos),
           NEW h \in HeadsInUse, NEW k \in 0 .. Num
    PROVE  /\ ChainFrom(h)[k] \in Slots
           /\ own[ChainFrom(h)[k]] = h
           /\ pos[ChainFrom(h)[k]] = IF k < Size(h) THEN k ELSE Size(h) - 1
<1> DEFINE at == ChainFrom(h)
           Place(j) == IF j < Size(h) THEN j ELSE Size(h) - 1
           T == {j \in 0 .. k : own[at[j]] = h /\ pos[at[j]] = Place(j)}
<1>1. h \in Slots /\ h # NoHead /\ h \in Lists /\ Size(h) \in 1 .. Num /\ Num \in Nat
      /\ Size(h) \in Int /\ Extent(h) = Size(h) /\ First(h) = h
    BY ListsFact, SizesFact
<1>2. at \in [0 .. Num -> Slots] /\ at[0] = h /\ \A j \in 1 .. Num : at[j] = Onward(at[j - 1])
    BY <1>1, ChainFromIs
<1> HIDE DEF at
<1>3. 0 \in T
  <2>1. own[h] = h /\ pos[h] = 0
      BY <1>1 DEF Placed
  <2> QED
      BY <1>1, <1>2, <2>1
<1>4. ASSUME NEW d \in Slots, own[d] = h
      PROVE  /\ pos[d] + 1 < Size(h) => own[Onward(d)] = h /\ pos[Onward(d)] = pos[d] + 1
             /\ pos[d] + 1 >= Size(h) => Onward(d) = d
             /\ pos[d] < Size(h) /\ pos[d] \in Nat
  <2>1. pos[d] < Size(h) /\ pos[d] \in Nat
      BY <1>1, <1>4 DEF Placed
  <2>2. pos[d] + 1 < Size(h) => own[desc[d].next] = h /\ pos[desc[d].next] = pos[d] + 1
      BY <1>1, <1>4 DEF Placed
  <2>3. "NEXT" \in desc[d].flags <=> pos[d] + 1 < Size(h)
    <3>1. CASE "INDIRECT" \in desc[h].flags
      <4>1. Size(h) = 1 /\ desc[h].flags = {"INDIRECT"}
          BY <3>1, <1>1, <1>4 DEF Size, Flagged
      <4>2. pos[d] = 0 /\ own[h] = h /\ pos[h] = 0
          BY <4>1, <2>1, <1>1 DEF Placed
      <4>3. d = h
          BY <4>2, <1>1, <1>4 DEF Placed
      <4> QED
          BY <4>1, <4>2, <4>3
    <3>2. CASE "INDIRECT" \notin desc[h].flags
      <4>1. desc[d].flags = DescFlags(shape[h][1], shape[h][2], pos[d])
          BY <3>2, <1>1, <1>4 DEF Flagged
      <4>2. Size(h) = shape[h][1] + shape[h][2]
          BY <3>2 DEF Size
      <4>3. "NEXT" \in desc[d].flags <=> pos[d] < shape[h][1] + shape[h][2] - 1
          BY <4>1 DEF DescFlags
      <4>4. "NEXT" \in desc[d].flags <=> pos[d] < Size(h) - 1
        <5>1. shape[h][1] \in Nat /\ shape[h][2] \in Nat
            BY ShapeFact
        <5> QED
            BY <5>1, <4>2, <4>3
      <4> QED
          BY <4>4, <2>1, <1>1
    <3> QED
        BY <3>1, <3>2
  <2>4. pos[d] + 1 >= Size(h) => ~ (pos[d] + 1 < Size(h))
      BY <2>1, <1>1
  <2> QED
      BY <2>1, <2>2, <2>3, <2>4 DEF Onward
<1>5. ASSUME NEW j \in 0 .. k - 1, j \in T
      PROVE  j + 1 \in T
  <2>1. j + 1 \in 1 .. Num /\ j + 1 - 1 = j /\ j \in 0 .. Num /\ j + 1 \in 0 .. k
      BY <1>1
  <2>2. at[j] \in Slots /\ at[j + 1] = Onward(at[j]) /\ own[at[j]] = h /\ pos[at[j]] = Place(j)
      BY <1>2, <1>5, <2>1
  <2>3. CASE j + 1 < Size(h)
    <3>1. Place(j) = j /\ Place(j + 1) = j + 1
        BY <2>3, <2>1, <1>1
    <3> HIDE DEF Place
    <3> QED
        BY <3>1, <2>1, <2>2, <2>3, <1>4
  <2>4. CASE ~ (j + 1 < Size(h))
    <3>1. Place(j) = Size(h) - 1 /\ Place(j + 1) = Size(h) - 1 /\ Place(j) + 1 >= Size(h)
        BY <2>4, <2>1, <1>1
    <3> HIDE DEF Place
    <3> QED
        BY <3>1, <2>1, <2>2, <1>4
  <2> QED
      BY <2>3, <2>4
<1>6. k \in T
  <2> HIDE DEF T
  <2>1. 0 .. k \subseteq T
      BY <1>1, <1>3, <1>5, UpTo
  <2> QED
      BY <2>1, <1>1
<1> QED
    BY <1>1, <1>2, <1>6 DEF at

(* So the chain of a head is its list, ...                                 *)
LEMMA ChainIs ==
    ASSUME TypeInv, numFree \in 0 .. Num, \A h \in HeadsInUse : shape[h] \in Shapes,
           NEW own, NEW pos, Placed(own, pos), Flagged(own, pos), NEW h \in HeadsInUse
    PROVE  /\ ChainSlots(h) = {d \in Slots : own[d] = h}
           /\ Cardinality(ChainSlots(h)) = Size(h)
           /\ ChainEnd(h) \in Slots /\ own[ChainEnd(h)] = h /\ pos[ChainEnd(h)] = Size(h) - 1
<1> DEFINE at == ChainFrom(h)
<1>1. Size(h) \in 1 .. Num /\ Num \in Nat /\ Size(h) \in Int /\ h \in Lists /\ Extent(h) = Size(h)
    BY ListsFact, SizesFact
<1>2. \A k \in 0 .. Num : /\ at[k] \in Slots /\ own[at[k]] = h
                          /\ pos[at[k]] = IF k < Size(h) THEN k ELSE Size(h) - 1
    BY ChainPlaced
<1>3. ChainSlots(h) = {at[k] : k \in 0 .. Num} /\ ChainEnd(h) = at[Num]
    BY DEF ChainSlots, ChainEnd
<1> HIDE DEF at
<1>4. ASSUME NEW d \in Slots, own[d] = h
      PROVE  \E k \in 0 .. Num : at[k] = d
  <2>1. pos[d] \in 0 .. Num /\ pos[d] < Size(h)
      BY <1>1, <1>4 DEF Placed
  <2>2. own[at[pos[d]]] = h /\ pos[at[pos[d]]] = pos[d] /\ at[pos[d]] \in Slots
      BY <2>1, <1>2
  <2>3. at[pos[d]] = d
      BY <2>2, <1>4 DEF Placed
  <2> QED
      BY <2>1, <2>3
<1>5. {at[k] : k \in 0 .. Num} = {d \in Slots : own[d] = h}
    BY <1>2, <1>4
<1>6. Cardinality(ChainSlots(h)) = Size(h)
    BY <1>1, <1>3, <1>5, ListCount
<1>7. Num \in 0 .. Num /\ (IF Num < Size(h) THEN Num ELSE Size(h) - 1) = Size(h) - 1
    BY <1>1
<1> QED
    BY <1>2, <1>3, <1>5, <1>6, <1>7

(* ... and the free descriptors are the free list.                         *)
LEMMA FreeIs ==
    ASSUME TypeInv, numFree \in 0 .. Num, \A h \in HeadsInUse : shape[h] \in Shapes,
           NEW own, NEW pos, Placed(own, pos)
    PROVE  /\ FreeSlots = {d \in Slots : own[d] = NoHead}
           /\ Cardinality(FreeSlots) = numFree
<1> DEFINE at == LinksFrom(freeHead, Num)
<1>1. Num \in Nat /\ NoHead \in Lists /\ Extent(NoHead) = numFree /\ First(NoHead) = freeHead
      /\ numFree \in Int
    BY ListsFact, SizesFact
<1>2. ASSUME NEW k \in 0 .. numFree - 1
      PROVE  at[k] \in Slots /\ own[at[k]] = NoHead /\ pos[at[k]] = k
  <2>1. k \in 0 .. Num /\ k < Extent(NoHead)
      BY <1>1
  <2> QED
      BY <2>1, <1>1, LinksPlaced
<1>3. FreeSlots = {at[k] : k \in 0 .. numFree - 1}
    BY DEF FreeSlots
<1> HIDE DEF at
<1>4. ASSUME NEW d \in Slots, own[d] = NoHead
      PROVE  \E k \in 0 .. numFree - 1 : at[k] = d
  <2>1. pos[d] \in 0 .. numFree - 1
      BY <1>1, <1>4 DEF Placed
  <2>2. at[pos[d]] = d
      BY <2>1, <1>2, <1>4 DEF Placed
  <2> QED
      BY <2>1, <2>2
<1>5. {at[k] : k \in 0 .. numFree - 1} = {d \in Slots : own[d] = NoHead}
    BY <1>2, <1>4
<1> QED
    BY <1>1, <1>3, <1>5, ListCount

-----------------------------------------------------------------------------
(* What the table is for, from its invariant.                              *)
Partitioned ==
    /\ Cardinality(FreeSlots) = numFree
    /\ \A h \in HeadsInUse : ChainSlots(h) \cap FreeSlots = {}
    /\ \A g, h \in HeadsInUse : g # h => ChainSlots(g) \cap ChainSlots(h) = {}
    /\ FreeSlots \cup UNION {ChainSlots(h) : h \in HeadsInUse} = Slots

LEMMA TablePartitioned == TypeInv /\ TableInv => Partitioned
<1> SUFFICES ASSUME TypeInv, TableInv
             PROVE  Partitioned
    OBVIOUS
<1>1. PICK own \in [Slots -> 0 .. Num], pos \in [Slots -> Nat] :
              Placed(own, pos) /\ Flagged(own, pos)
    BY DEF TableInv
<1>2. FreeSlots = {d \in Slots : own[d] = NoHead} /\ Cardinality(FreeSlots) = numFree
    BY <1>1, FreeIs DEF TableInv
<1>3. \A h \in HeadsInUse : ChainSlots(h) = {d \in Slots : own[d] = h}
    BY <1>1, ChainIs DEF TableInv
<1>4. NoHead \notin HeadsInUse
    BY SlotsFact DEF HeadsInUse, NoHead
<1>5. \A d \in Slots : own[d] \in HeadsInUse \cup {NoHead}
    BY <1>1 DEF Placed, Lists
<1> QED
    BY <1>2, <1>3, <1>4, <1>5 DEF Partitioned

(* The tables of the buffers that were added through one are as filled.      *)
Filled ==
    /\ DOMAIN table = Slots
    /\ \A h \in HeadsInUse : "INDIRECT" \in desc[h].flags =>
          table[h] = IndirectTable(shape[h][1], shape[h][2])

LEMMA FlagsAsAsked ==
    ASSUME NEW out \in Nat, NEW n \in Nat, NEW in \in Nat, n = out + in, NEW k \in 0 .. n - 1
    PROVE  AsAsked(DescFlags(out, in, k), out, n, k)
    BY DEF AsAsked, DescFlags

LEMMA TableChains == TypeInv /\ TableInv /\ Filled => ChainsAsAsked
<1> SUFFICES ASSUME TypeInv, TableInv, Filled, NEW h \in HeadsInUse
             PROVE  LET out == shape[h][1]
                        n == shape[h][1] + shape[h][2]
                    IN  IF "INDIRECT" \in desc[h].flags
                        THEN /\ desc[h].flags = {"INDIRECT"} /\ n > 1
                             /\ DOMAIN table[h] = 0 .. n - 1
                             /\ \A k \in 0 .. n - 1 : /\ AsAsked(table[h][k].flags, out, n, k)
                                                     /\ k < n - 1 => table[h][k].next = k + 1
                        ELSE /\ Cardinality(ChainSlots(h)) = n
                             /\ \A k \in 0 .. n - 1 :
                                   AsAsked(desc[ChainFrom(h)[k]].flags, out, n, k)
    BY DEF ChainsAsAsked
<1>1. PICK own \in [Slots -> 0 .. Num], pos \in [Slots -> Nat] :
              Placed(own, pos) /\ Flagged(own, pos)
    BY DEF TableInv
<1>2. h \in Slots /\ h # NoHead /\ h \in Lists /\ First(h) = h /\ Size(h) \in 1 .. Num
      /\ Num \in Nat /\ Extent(h) = Size(h)
    BY ListsFact, SizesFact DEF TableInv
<1>3. own[h] = h
    BY <1>1, <1>2 DEF Placed
<1> DEFINE out == shape[h][1]
           writable == shape[h][2]
           n == out + writable
<1>6. out \in Nat /\ writable \in Nat /\ n \in Nat
    BY ShapeFact DEF TableInv
<1>4. CASE "INDIRECT" \in desc[h].flags
  <2>1. desc[h].flags = {"INDIRECT"} /\ n > 1
      BY <1>1, <1>2, <1>3, <1>4 DEF Flagged
  <2>2. table[h] = IndirectTable(out, writable)
      BY <1>4 DEF Filled
  <2> HIDE DEF out, writable
  <2>3. DOMAIN table[h] = 0 .. n - 1
      BY <2>2, <1>6 DEF IndirectTable
  <2>4. ASSUME NEW k \in 0 .. n - 1
        PROVE  AsAsked(table[h][k].flags, out, n, k) /\ (k < n - 1 => table[h][k].next = k + 1)
    <3>1. table[h][k].flags = DescFlags(out, writable, k)
          /\ table[h][k].next = IF k < out + writable - 1 THEN k + 1 ELSE 0
        BY <2>2, <1>6 DEF IndirectTable
    <3> QED
        BY <3>1, <1>6, FlagsAsAsked
  <2> QED
      BY <1>4, <2>1, <2>3, <2>4 DEF out, writable
<1>5. CASE "INDIRECT" \notin desc[h].flags
  <2>1. n = Size(h)
      BY <1>5 DEF Size
  <2>2. Cardinality(ChainSlots(h)) = n
      BY <1>1, <2>1, ChainIs DEF TableInv
  <2>3. ASSUME NEW k \in 0 .. n - 1
        PROVE  AsAsked(desc[ChainFrom(h)[k]].flags, out, n, k)
    <3>1. k \in 0 .. Num /\ k < Size(h)
        BY <2>1, <1>2
    <3>2. ChainFrom(h)[k] \in Slots /\ own[ChainFrom(h)[k]] = h /\ pos[ChainFrom(h)[k]] = k
        BY <3>1, <1>1, ChainPlaced DEF TableInv
    <3>3. desc[ChainFrom(h)[k]].flags = DescFlags(out, writable, k)
        BY <3>2, <1>1, <1>2, <1>5 DEF Flagged
    <3> HIDE DEF out, writable
    <3> QED
        BY <3>3, <1>6, FlagsAsAsked
  <2> QED
      BY <1>5, <2>2, <2>3
<1> QED
    BY <1>4, <1>5

-----------------------------------------------------------------------------
(* A queue that was just made has one list.                                *)
FreshOwn == Every(NoHead)
FreshPos == [d \in Slots |-> d]

LEMMA FreshTable ==
    /\ FreshOwn \in [Slots -> 0 .. Num] /\ FreshPos \in [Slots -> Nat]
    /\ \A d \in Slots : FreshOwn[d] = NoHead /\ FreshPos[d] = d
    /\ \A d \in Slots : d + 1 < Num => FreshDesc[d].next = d + 1 /\ d + 1 \in Slots
    /\ 0 \in Slots
<1>1. \A d \in Slots : d \in Nat
    BY DEF Slots
<1>2. ASSUME NEW d \in Slots, d + 1 < Num
      PROVE  FreshDesc[d].next = d + 1 /\ d + 1 \in Slots
  <2>1. d + 1 \in 0 .. Num - 1 /\ d \in Nat
      BY <1>2, SizesFact DEF Slots
  <2>2. (d + 1) % Num = d + 1
      BY <2>1, SizesFact, ModSmall
  <2> QED
      BY <2>1, <2>2 DEF FreshDesc, Slots
<1>3. \A d \in Slots : FreshOwn[d] = NoHead /\ FreshPos[d] = d
    BY DEF FreshOwn, FreshPos, Every
<1>4. NoHead \in 0 .. Num /\ 0 \in Slots
    BY SizesFact DEF NoHead, Slots
<1>5. FreshOwn \in [Slots -> 0 .. Num]
    BY <1>4 DEF FreshOwn, Every
<1>6. FreshPos \in [Slots -> Nat]
    BY <1>1 DEF FreshPos
<1> QED
    BY <1>2, <1>3, <1>4, <1>5, <1>6

LEMMA TableStart == Init => TableInv
<1> SUFFICES ASSUME Init PROVE TableInv
    OBVIOUS
<1>1. HeadsInUse = {} /\ numFree = Num /\ freeHead = 0 /\ desc = FreshDesc
    BY DEF Init, HeadsInUse, Every
<1>2. Lists = {NoHead} /\ Extent(NoHead) = Num /\ First(NoHead) = 0
    BY <1>1 DEF Lists, Extent, First
<1>3. \A d \in Slots : d < Num
    BY SlotsFact
<1>4. Placed(FreshOwn, FreshPos)
    BY <1>1, <1>2, <1>3, FreshTable DEF Placed
<1>5. Flagged(FreshOwn, FreshPos)
    BY FreshTable DEF Flagged
<1> QED
    BY <1>1, <1>4, <1>5, FreshTable, SizesFact DEF TableInv

LEMMA TableAgain ==
    ASSUME Shutdown
    PROVE  TableInv'
<1>1. HeadsInUse' = {} /\ numFree' = Num /\ freeHead' = 0 /\ desc' = FreshDesc
    BY DEF Shutdown, HeadsInUse, Every
<1>2. Lists' = {NoHead} /\ Extent(NoHead)' = Num /\ First(NoHead)' = 0
    BY <1>1 DEF Lists, Extent, First
<1>3. \A d \in Slots : d < Num
    BY SlotsFact
<1>4. Placed(FreshOwn, FreshPos)'
    BY <1>1, <1>2, <1>3, FreshTable DEF Placed
<1>5. Flagged(FreshOwn, FreshPos)'
    BY FreshTable DEF Flagged
<1> QED
    BY <1>1, <1>4, <1>5, FreshTable, SizesFact DEF TableInv

(* A request takes the first places of the free list: n descriptors become   *)
(* the chain of the one at its front.                                      *)
TakenOwn(own, pos, h, n) ==
    [d \in Slots |-> IF own[d] = NoHead /\ pos[d] < n THEN h ELSE own[d]]
TakenPos(own, pos, n) ==
    [d \in Slots |-> IF own[d] = NoHead /\ pos[d] >= n THEN pos[d] - n ELSE pos[d]]

LEMMA Taken ==
    ASSUME TypeInv, numFree \in 0 .. Num, \A g \in HeadsInUse : shape[g] \in Shapes,
           NEW own \in [Slots -> 0 .. Num], NEW pos \in [Slots -> Nat], Placed(own, pos),
           NEW n \in 1 .. Num, n <= numFree, NEW h \in Slots, h = freeHead,
           NEW own2, own2 = TakenOwn(own, pos, h, n), NEW pos2, pos2 = TakenPos(own, pos, n),
           numFree' = numFree - n,
           HeadsInUse' = HeadsInUse \cup {h},
           Size(h)' = n,
           \A g \in HeadsInUse : Size(g)' = Size(g),
           \A d \in Slots : desc'[d].next = desc[d].next,
           freeHead' \in Slots,
           n < numFree => own[freeHead'] = NoHead /\ pos[freeHead'] = n
    PROVE  own2 \in [Slots -> 0 .. Num] /\ pos2 \in [Slots -> Nat] /\ Placed(own2, pos2)'
<1>1. /\ h \in Slots /\ NoHead \notin Slots /\ Num \in Nat /\ n \in Nat /\ n > 0
      /\ numFree \in Nat /\ NoHead = Num
      /\ own[h] = NoHead /\ pos[h] = 0
  <2>1. NoHead \in Lists /\ Extent(NoHead) = numFree /\ First(NoHead) = h
      BY ListsFact
  <2>2. Num \in Nat /\ n \in Nat /\ n > 0 /\ numFree \in Nat /\ numFree > 0
      BY SizesFact
  <2> QED
      BY <2>1, <2>2, SlotsFact DEF Placed, TypeInv, NoHead
<1>2. \A g \in HeadsInUse : g \in Slots /\ g # h /\ own[g] = g /\ pos[g] = 0 /\ Size(g) > 0
  <2> SUFFICES ASSUME NEW g \in HeadsInUse
               PROVE  g \in Slots /\ g # h /\ own[g] = g /\ pos[g] = 0 /\ Size(g) > 0
      OBVIOUS
  <2>1. g \in Lists /\ g \in Slots /\ Size(g) \in 1 .. Num /\ Extent(g) = Size(g) /\ First(g) = g
      BY ListsFact
  <2>2. own[g] = g /\ pos[g] = 0
      BY <2>1, <1>1 DEF Placed
  <2> QED
      BY <2>1, <2>2, <1>1
<1>3. /\ Lists' = HeadsInUse \cup {h, NoHead}
      /\ Extent(NoHead)' = numFree - n /\ Extent(h)' = n
      /\ \A g \in HeadsInUse : Extent(g)' = Extent(g)
      /\ First(NoHead)' = freeHead' /\ First(h)' = h
      /\ \A g \in HeadsInUse : First(g)' = g
  <2>1. h # NoHead /\ \A g \in HeadsInUse : g # NoHead
      BY <1>1, <1>2
  <2> QED
      BY <2>1 DEF Lists, Extent, First
<1>4. ASSUME NEW d \in Slots
      PROVE  /\ own2[d] = IF own[d] = NoHead /\ pos[d] < n THEN h ELSE own[d]
             /\ pos2[d] = IF own[d] = NoHead /\ pos[d] >= n THEN pos[d] - n ELSE pos[d]
             /\ own2[d] \in 0 .. Num /\ pos2[d] \in Nat
             /\ own[d] \in HeadsInUse \cup {NoHead} /\ pos[d] \in Nat
             /\ own[d] = NoHead => pos[d] < numFree
             /\ own[d] # NoHead => own[d] \in HeadsInUse /\ pos[d] < Size(own[d])
                                   /\ pos[d] < Extent(own[d])
  <2>1. own[d] \in Lists /\ pos[d] < Extent(own[d]) /\ pos[d] \in Nat
      BY DEF Placed
  <2>2. own2[d] = IF own[d] = NoHead /\ pos[d] < n THEN h ELSE own[d]
      BY DEF TakenOwn
  <2>3. pos2[d] = IF own[d] = NoHead /\ pos[d] >= n THEN pos[d] - n ELSE pos[d]
      BY DEF TakenPos
  <2>4. own2[d] \in 0 .. Num
      BY <2>2, <1>1 DEF Slots
  <2>5. pos2[d] \in Nat
      BY <2>1, <2>3, <1>1
  <2>6. Extent(NoHead) = numFree /\ \A g \in HeadsInUse : Extent(g) = Size(g)
      BY ListsFact
  <2> QED
      BY <2>1, <2>2, <2>3, <2>4, <2>5, <2>6 DEF Lists
<1>5. own2 \in [Slots -> 0 .. Num] /\ pos2 \in [Slots -> Nat]
  <2>1. own2 = [d \in Slots |-> own2[d]] /\ pos2 = [d \in Slots |-> pos2[d]]
      BY DEF TakenOwn, TakenPos
  <2> QED
      BY <2>1, <1>4
<1>6. ASSUME NEW d \in Slots
      PROVE  own2[d] \in Lists' /\ pos2[d] < Extent(own2[d])'
  <2>1. CASE own[d] = NoHead /\ pos[d] < n
      BY <2>1, <1>4, <1>3, <1>1
  <2>2. CASE own[d] = NoHead /\ pos[d] >= n
    <3>1. own2[d] = NoHead /\ pos2[d] = pos[d] - n /\ pos[d] < numFree /\ pos[d] \in Nat
        BY <2>2, <1>4
    <3>2. pos[d] - n < numFree - n
        BY <3>1, <1>1
    <3> QED
        BY <3>1, <3>2, <1>3
  <2>3. CASE own[d] # NoHead
      BY <2>3, <1>4, <1>3
  <2> QED
      BY <2>1, <2>2, <2>3, <1>4, <1>1
<1>7. ASSUME NEW d \in Slots, NEW e \in Slots, own2[d] = own2[e], pos2[d] = pos2[e]
      PROVE  d = e
  <2>1. own[d] = own[e] /\ pos[d] = pos[e]
    <3>1. CASE own2[d] = NoHead
      <4>1. own[d] = NoHead /\ own[e] = NoHead /\ pos[d] >= n /\ pos[e] >= n
          BY <3>1, <1>7, <1>4, <1>1
      <4>2. pos[d] - n = pos[e] - n
          BY <4>1, <1>7, <1>4
      <4>3. pos[d] \in Int /\ pos[e] \in Int /\ n \in Int
          BY <1>4, <1>1
      <4>4. pos[d] = pos[e]
          BY <4>2, <4>3
      <4> QED
          BY <4>1, <4>4
    <3>2. CASE own2[d] = h
      <4>1. own[d] = NoHead /\ own[e] = NoHead /\ pos[d] < n /\ pos[e] < n
          BY <3>2, <1>7, <1>4, <1>1, <1>2
      <4> QED
          BY <4>1, <1>7, <1>4, <1>1
    <3>3. CASE own2[d] # NoHead /\ own2[d] # h
      <4>1. own[d] # NoHead /\ own[e] # NoHead
          BY <3>3, <1>7, <1>4, <1>1
      <4> QED
          BY <4>1, <1>7, <1>4
    <3> QED
        BY <3>1, <3>2, <3>3
  <2> QED
      BY <2>1 DEF Placed
<1>8. ASSUME NEW l \in Lists', Extent(l)' > 0
      PROVE  own2[First(l)'] = l /\ pos2[First(l)'] = 0
  <2>1. CASE l = NoHead
    <3>1. n < numFree
        BY <2>1, <1>8, <1>3, <1>1
    <3>2. own[freeHead'] = NoHead /\ pos[freeHead'] = n
        BY <3>1
    <3>3. own2[freeHead'] = NoHead /\ pos2[freeHead'] = n - n
        BY <3>2, <1>4, <1>1
    <3> QED
        BY <3>3, <2>1, <1>3, <1>1
  <2>2. CASE l = h
      BY <2>2, <1>1, <1>3, <1>4
  <2>3. CASE l \in HeadsInUse
    <3>1. l \in Slots /\ own[l] = l /\ pos[l] = 0 /\ l # NoHead /\ First(l)' = l
        BY <2>3, <1>2, <1>3, <1>1
    <3> QED
        BY <3>1, <1>4
  <2> QED
      BY <2>1, <2>2, <2>3, <1>3
<1>9. ASSUME NEW d \in Slots, pos2[d] + 1 < Extent(own2[d])'
      PROVE  own2[desc'[d].next] = own2[d] /\ pos2[desc'[d].next] = pos2[d] + 1
  <2> DEFINE x == desc[d].next
  <2>0. x \in Slots /\ desc'[d].next = x
      BY DEF TypeInv, DescType
  <2>n. \A e \in Slots : pos[e] + 1 < Extent(own[e]) =>
                           own[desc[e].next] = own[e] /\ pos[desc[e].next] = pos[e] + 1
      BY DEF Placed
  <2> HIDE DEF x
  <2>1. CASE own[d] = NoHead /\ pos[d] < n
    <3>1. own2[d] = h /\ pos2[d] = pos[d] /\ pos[d] + 1 < n /\ pos[d] \in Nat
        BY <2>1, <1>9, <1>4, <1>3
    <3>2. pos[d] + 1 < Extent(own[d])
      <4>1. Extent(own[d]) = numFree
          BY <2>1, ListsFact
      <4> QED
          BY <4>1, <3>1, <1>1
    <3>3. own[x] = NoHead /\ pos[x] = pos[d] + 1
        BY <2>1, <2>n, <3>2 DEF x
    <3> QED
        BY <3>1, <3>3, <2>0, <1>4
  <2>2. CASE own[d] = NoHead /\ pos[d] >= n
    <3>1. own2[d] = NoHead /\ pos2[d] = pos[d] - n /\ pos[d] \in Nat
        BY <2>2, <1>4
    <3>2. pos[d] - n + 1 < numFree - n
        BY <3>1, <1>9, <1>3
    <3>3. pos[d] + 1 < numFree
        BY <3>1, <3>2, <1>1
    <3>4. pos[d] + 1 < Extent(own[d])
      <4>1. Extent(own[d]) = numFree
          BY <2>2, ListsFact
      <4> QED
          BY <4>1, <3>3
    <3>5. own[x] = NoHead /\ pos[x] = pos[d] + 1
        BY <2>2, <2>n, <3>4 DEF x
    <3>6. pos[x] >= n /\ pos[x] - n = pos[d] - n + 1
        BY <3>5, <3>1, <2>2, <1>1
    <3> QED
        BY <3>1, <3>5, <3>6, <2>0, <1>4
  <2>3. CASE own[d] # NoHead
    <3>1. own2[d] = own[d] /\ pos2[d] = pos[d] /\ own[d] \in HeadsInUse
        BY <2>3, <1>4
    <3>2. pos[d] + 1 < Extent(own[d])
        BY <3>1, <1>9, <1>3
    <3>3. own[x] = own[d] /\ pos[x] = pos[d] + 1
        BY <2>n, <3>2 DEF x
    <3> QED
        BY <3>1, <3>3, <2>0, <2>3, <1>4
  <2> QED
      BY <2>1, <2>2, <2>3, <1>4, <1>1
<1> QED
    BY <1>5, <1>6, <1>7, <1>8, <1>9 DEF Placed

(* detach_buf puts the places of a chain before those of the free list.      *)
GivenOwn(own, h) == [d \in Slots |-> IF own[d] = h THEN NoHead ELSE own[d]]
GivenPos(own, pos, n) == [d \in Slots |-> IF own[d] = NoHead THEN pos[d] + n ELSE pos[d]]

LEMMA Given ==
    ASSUME TypeInv, numFree \in 0 .. Num, \A g \in HeadsInUse : shape[g] \in Shapes,
           NEW own \in [Slots -> 0 .. Num], NEW pos \in [Slots -> Nat], Placed(own, pos),
           NEW h \in HeadsInUse, NEW n \in 1 .. Num, Size(h) = n,
           NEW own2, own2 = GivenOwn(own, h), NEW pos2, pos2 = GivenPos(own, pos, n),
           NEW last \in Slots, own[last] = h, pos[last] = n - 1,
           numFree' = numFree + n,
           HeadsInUse' = HeadsInUse \ {h},
           \A g \in HeadsInUse \ {h} : Size(g)' = Size(g),
           \A d \in Slots : desc'[d].next = IF d = last THEN freeHead ELSE desc[d].next,
           freeHead' = h
    PROVE  own2 \in [Slots -> 0 .. Num] /\ pos2 \in [Slots -> Nat] /\ Placed(own2, pos2)'
<1>1. /\ h \in Slots /\ h # NoHead /\ Num \in Nat /\ n \in Nat /\ n > 0
      /\ numFree \in Nat /\ NoHead = Num /\ freeHead \in Slots
      /\ own[h] = h /\ pos[h] = 0
      /\ numFree > 0 => own[freeHead] = NoHead /\ pos[freeHead] = 0
  <2>1. NoHead \in Lists /\ Extent(NoHead) = numFree /\ First(NoHead) = freeHead
        /\ h \in Lists /\ h \in Slots /\ h # NoHead /\ Extent(h) = n /\ First(h) = h
      BY ListsFact
  <2>2. Num \in Nat /\ n \in Nat /\ n > 0 /\ numFree \in Nat
      BY SizesFact
  <2> QED
      BY <2>1, <2>2 DEF Placed, TypeInv, NoHead
<1>2. \A g \in HeadsInUse : g \in Slots /\ g # NoHead /\ own[g] = g /\ pos[g] = 0 /\ Size(g) > 0
  <2> SUFFICES ASSUME NEW g \in HeadsInUse
               PROVE  g \in Slots /\ g # NoHead /\ own[g] = g /\ pos[g] = 0 /\ Size(g) > 0
      OBVIOUS
  <2>1. g \in Lists /\ g \in Slots /\ g # NoHead /\ Size(g) \in 1 .. Num /\ Extent(g) = Size(g)
        /\ First(g) = g
      BY ListsFact
  <2>2. own[g] = g /\ pos[g] = 0
      BY <2>1, <1>1 DEF Placed
  <2> QED
      BY <2>1, <2>2, <1>1
<1>3. /\ Lists' = (HeadsInUse \ {h}) \cup {NoHead}
      /\ Extent(NoHead)' = numFree + n
      /\ \A g \in HeadsInUse \ {h} : Extent(g)' = Extent(g)
      /\ First(NoHead)' = h
      /\ \A g \in HeadsInUse \ {h} : First(g)' = g
  <2>1. \A g \in HeadsInUse : g # NoHead
      BY <1>2
  <2> QED
      BY <2>1 DEF Lists, Extent, First
<1>4. ASSUME NEW d \in Slots
      PROVE  /\ own2[d] = IF own[d] = h THEN NoHead ELSE own[d]
             /\ pos2[d] = IF own[d] = NoHead THEN pos[d] + n ELSE pos[d]
             /\ own2[d] \in 0 .. Num /\ pos2[d] \in Nat
             /\ own[d] \in HeadsInUse \cup {NoHead} /\ pos[d] \in Nat
             /\ own[d] = NoHead => pos[d] < numFree
             /\ own[d] # NoHead => own[d] \in HeadsInUse /\ pos[d] < Size(own[d])
                                   /\ pos[d] < Extent(own[d])
  <2>1. own[d] \in Lists /\ pos[d] < Extent(own[d]) /\ pos[d] \in Nat
      BY DEF Placed
  <2>2. own2[d] = IF own[d] = h THEN NoHead ELSE own[d]
      BY DEF GivenOwn
  <2>3. pos2[d] = IF own[d] = NoHead THEN pos[d] + n ELSE pos[d]
      BY DEF GivenPos
  <2>4. own2[d] \in 0 .. Num
      BY <2>2, <1>1
  <2>5. pos2[d] \in Nat
      BY <2>1, <2>3, <1>1
  <2>6. Extent(NoHead) = numFree /\ \A g \in HeadsInUse : Extent(g) = Size(g)
      BY ListsFact
  <2> QED
      BY <2>1, <2>2, <2>3, <2>4, <2>5, <2>6 DEF Lists
<1>5. own2 \in [Slots -> 0 .. Num] /\ pos2 \in [Slots -> Nat]
  <2>1. own2 = [d \in Slots |-> own2[d]] /\ pos2 = [d \in Slots |-> pos2[d]]
      BY DEF GivenOwn, GivenPos
  <2> QED
      BY <2>1, <1>4
<1>6. ASSUME NEW d \in Slots
      PROVE  own2[d] \in Lists' /\ pos2[d] < Extent(own2[d])'
  <2>1. CASE own[d] = h
    <3>1. own2[d] = NoHead /\ pos2[d] = pos[d] /\ pos[d] < n /\ pos[d] \in Nat
        BY <2>1, <1>4, <1>1
    <3>2. pos[d] < numFree + n
        BY <3>1, <1>1
    <3> QED
        BY <3>1, <3>2, <1>3
  <2>2. CASE own[d] = NoHead
    <3>1. own2[d] = NoHead /\ pos2[d] = pos[d] + n /\ pos[d] < numFree /\ pos[d] \in Nat
        BY <2>2, <1>4, <1>1
    <3>2. pos[d] + n < numFree + n
        BY <3>1, <1>1
    <3> QED
        BY <3>1, <3>2, <1>3
  <2>3. CASE own[d] # h /\ own[d] # NoHead
      BY <2>3, <1>4, <1>3
  <2> QED
      BY <2>1, <2>2, <2>3
<1>7. ASSUME NEW d \in Slots, NEW e \in Slots, own2[d] = own2[e], pos2[d] = pos2[e]
      PROVE  d = e
  <2> DEFINE Low(x) == own[x] = h /\ pos2[x] < n /\ pos2[x] = pos[x]
             High(x) == own[x] = NoHead /\ pos2[x] >= n /\ pos2[x] = pos[x] + n
  <2>1. \A x \in Slots : own2[x] = NoHead => Low(x) \/ High(x)
    <3> SUFFICES ASSUME NEW x \in Slots, own2[x] = NoHead
                 PROVE  Low(x) \/ High(x)
        OBVIOUS
    <3>1. CASE own[x] = h
        BY <3>1, <1>4, <1>1
    <3>2. CASE own[x] = NoHead
        BY <3>2, <1>4, <1>1
    <3> QED
        BY <3>1, <3>2, <1>4
  <2>2. own[d] = own[e] /\ pos[d] = pos[e]
    <3>1. CASE own2[d] = NoHead
      <4>1. pos2[d] \in Nat /\ pos[d] \in Nat /\ pos[e] \in Nat
          BY <1>4
      <4>2. (Low(d) /\ Low(e)) \/ (High(d) /\ High(e))
          BY <2>1, <3>1, <1>7, <4>1, <1>1
      <4> QED
          BY <4>1, <4>2, <1>7, <1>1
    <3>2. CASE own2[d] # NoHead
        BY <3>2, <1>7, <1>4, <1>1
    <3> QED
        BY <3>1, <3>2
  <2> QED
      BY <2>2 DEF Placed
<1>8. ASSUME NEW l \in Lists', Extent(l)' > 0
      PROVE  own2[First(l)'] = l /\ pos2[First(l)'] = 0
  <2>1. CASE l = NoHead
      BY <2>1, <1>1, <1>3, <1>4
  <2>2. CASE l \in HeadsInUse \ {h}
    <3>1. l \in Slots /\ own[l] = l /\ pos[l] = 0 /\ l # NoHead /\ First(l)' = l /\ l # h
        BY <2>2, <1>2, <1>3
    <3> QED
        BY <3>1, <1>4
  <2> QED
      BY <2>1, <2>2, <1>3
<1>9. ASSUME NEW d \in Slots, pos2[d] + 1 < Extent(own2[d])'
      PROVE  own2[desc'[d].next] = own2[d] /\ pos2[desc'[d].next] = pos2[d] + 1
  <2> DEFINE x == desc[d].next
  <2>0. x \in Slots /\ (d # last => desc'[d].next = x)
      BY DEF TypeInv, DescType
  <2>n. \A e \in Slots : pos[e] + 1 < Extent(own[e]) =>
                           own[desc[e].next] = own[e] /\ pos[desc[e].next] = pos[e] + 1
      BY DEF Placed
  <2>l. Extent(NoHead) = numFree /\ \A g \in HeadsInUse : Extent(g) = Size(g)
      BY ListsFact
  <2> HIDE DEF x
  <2>1. CASE d = last
    <3>1. own2[d] = NoHead /\ pos2[d] = n - 1 /\ desc'[d].next = freeHead
        BY <2>1, <1>4, <1>1
    <3>2. n - 1 + 1 < numFree + n
        BY <3>1, <1>9, <1>3
    <3>3. numFree > 0
        BY <3>2, <1>1
    <3>4. own[freeHead] = NoHead /\ pos[freeHead] = 0
        BY <3>3, <1>1
    <3>5. own2[freeHead] = NoHead /\ pos2[freeHead] = 0 + n
        BY <3>4, <1>1, <1>4
    <3> QED
        BY <3>1, <3>5, <1>1
  <2>2. CASE d # last /\ own[d] = h
    <3>1. own2[d] = NoHead /\ pos2[d] = pos[d] /\ pos[d] \in Nat /\ pos[d] < n
        BY <2>2, <1>4, <1>1
    <3>2. pos[d] # n - 1
        BY <2>2 DEF Placed
    <3>3. pos[d] + 1 < Extent(own[d])
        BY <3>1, <3>2, <2>2, <2>l, <1>1
    <3>4. own[x] = h /\ pos[x] = pos[d] + 1
        BY <2>2, <2>n, <3>3 DEF x
    <3> QED
        BY <3>1, <3>4, <2>0, <2>2, <1>4, <1>1
  <2>3. CASE d # last /\ own[d] = NoHead
    <3>1. own2[d] = NoHead /\ pos2[d] = pos[d] + n /\ pos[d] \in Nat
        BY <2>3, <1>4, <1>1
    <3>2. pos[d] + n + 1 < numFree + n
        BY <3>1, <1>9, <1>3
    <3>3. pos[d] + 1 < Extent(own[d])
        BY <3>1, <3>2, <2>3, <2>l, <1>1
    <3>4. own[x] = NoHead /\ pos[x] = pos[d] + 1
        BY <2>3, <2>n, <3>3 DEF x
    <3>5. own2[x] = NoHead /\ pos2[x] = pos[d] + 1 + n
        BY <3>4, <2>0, <1>4, <1>1
    <3> QED
        BY <3>1, <3>5, <2>0, <2>3, <1>1
  <2>4. CASE d # last /\ own[d] # h /\ own[d] # NoHead
    <3>1. own2[d] = own[d] /\ pos2[d] = pos[d] /\ own[d] \in HeadsInUse \ {h}
        BY <2>4, <1>4
    <3>2. pos[d] + 1 < Extent(own[d])
        BY <3>1, <1>9, <1>3
    <3>3. own[x] = own[d] /\ pos[x] = pos[d] + 1
        BY <2>n, <3>2 DEF x
    <3> QED
        BY <3>1, <3>3, <2>0, <2>4, <1>4
  <2> QED
      BY <2>1, <2>2, <2>3, <2>4
<1> QED
    BY <1>5, <1>6, <1>7, <1>8, <1>9 DEF Placed

LEMMA DetachTable ==
    ASSUME TypeInv, TableInv, NEW h \in HeadsInUse, DetachBuf(h)
    PROVE  TableInv'
<1>1. PICK own \in [Slots -> 0 .. Num], pos \in [Slots -> Nat] :
              Placed(own, pos) /\ Flagged(own, pos)
    BY DEF TableInv
<1>t. numFree \in 0 .. Num /\ \A g \in HeadsInUse : shape[g] \in Shapes
    BY DEF TableInv
<1>2. PICK n \in 1 .. Num : n = Size(h)
    BY <1>t, ListsFact
<1>3. PICK last \in Slots : last = ChainEnd(h) /\ own[last] = h /\ pos[last] = n - 1
    BY <1>1, <1>t, <1>2, ChainIs
<1>4. /\ ChainSlots(h) = {d \in Slots : own[d] = h} /\ Cardinality(ChainSlots(h)) = n
      /\ FreeSlots = {d \in Slots : own[d] = NoHead} /\ Cardinality(FreeSlots) = numFree
    BY <1>1, <1>t, <1>2, ChainIs, FreeIs
<1>5. h \in Slots /\ h # NoHead /\ Num \in Nat /\ n \in Nat /\ numFree \in Nat
      /\ NoToken \notin Tokens
    BY <1>t, ListsFact, SizesFact, TokenAssumption
<1>6. numFree + n <= Num
  <2>1. FreeSlots \in SUBSET Slots /\ ChainSlots(h) \in SUBSET Slots
        /\ FreeSlots \cap ChainSlots(h) = {}
      BY <1>4, <1>5
  <2>2. FreeSlots \cup ChainSlots(h) \in SUBSET Slots
      BY <2>1
  <2>3. Cardinality(FreeSlots \cup ChainSlots(h)) \in 0 .. Num
      BY <2>2, SlotsCount
  <2>4. Cardinality(FreeSlots \cup ChainSlots(h)) = numFree + n
      BY <2>1, <1>4, SlotsCount
  <2> QED
      BY <2>3, <2>4
<1>7. /\ numFree' = numFree + n /\ freeHead' = h
      /\ desc' = [desc EXCEPT ![last].next = freeHead]
      /\ data' = [data EXCEPT ![h] = NoToken]
      /\ shape' = [shape EXCEPT ![h] = <<0, 0>>]
    BY <1>3, <1>4 DEF DetachBuf
<1>8. /\ HeadsInUse' = HeadsInUse \ {h}
      /\ \A d \in Slots : desc'[d].next = IF d = last THEN freeHead ELSE desc[d].next
      /\ \A d \in Slots : desc'[d].flags = desc[d].flags
      /\ \A d \in Slots \ {h} : shape'[d] = shape[d]
  <2>1. HeadsInUse' = HeadsInUse \ {h}
      BY <1>5, <1>7 DEF HeadsInUse, TypeInv
  <2>2. /\ \A d \in Slots : desc'[d].next = IF d = last THEN freeHead ELSE desc[d].next
        /\ \A d \in Slots : desc'[d].flags = desc[d].flags
      BY <1>7 DEF TypeInv, DescType
  <2>3. \A d \in Slots \ {h} : shape'[d] = shape[d]
      BY <1>7 DEF TypeInv
  <2> QED
      BY <2>1, <2>2, <2>3
<1>9. \A g \in HeadsInUse \ {h} : Size(g)' = Size(g) /\ g \in Slots
    BY <1>8 DEF Size, HeadsInUse
<1>10. PICK own2, pos2 : own2 = GivenOwn(own, h) /\ pos2 = GivenPos(own, pos, n)
    OBVIOUS
<1>11. own2 \in [Slots -> 0 .. Num] /\ pos2 \in [Slots -> Nat] /\ Placed(own2, pos2)'
  <2>1. \A g \in HeadsInUse \ {h} : Size(g)' = Size(g)
      BY <1>9
  <2>2. Size(h) = n /\ own[last] = h /\ pos[last] = n - 1
      BY <1>2, <1>3
  <2> QED
      BY <1>1, <1>t, <1>7, <1>8, <1>10, <2>1, <2>2, Given
<1>12. Flagged(own2, pos2)'
  <2> SUFFICES ASSUME NEW d \in Slots, own2[d] # NoHead
               PROVE  (IF "INDIRECT" \in desc[own2[d]].flags
                       THEN /\ desc[own2[d]].flags = {"INDIRECT"}
                            /\ shape[own2[d]][1] + shape[own2[d]][2] > 1
                       ELSE desc[d].flags
                              = DescFlags(shape[own2[d]][1], shape[own2[d]][2], pos2[d]))'
      BY DEF Flagged
  <2>1. own2[d] = own[d] /\ pos2[d] = pos[d] /\ own[d] # h /\ own[d] # NoHead
      BY <1>10 DEF GivenOwn, GivenPos
  <2>2. own[d] \in HeadsInUse /\ own[d] \in Slots
      BY <1>1, <2>1 DEF Placed, Lists, HeadsInUse
  <2>3. desc'[own[d]].flags = desc[own[d]].flags /\ desc'[d].flags = desc[d].flags
        /\ shape'[own[d]] = shape[own[d]]
      BY <1>8, <2>1, <2>2
  <2> QED
      BY <1>1, <2>1, <2>3 DEF Flagged
<1>13. numFree' \in 0 .. Num
    BY <1>5, <1>6, <1>7
<1>14. \A g \in HeadsInUse' : shape'[g] \in Shapes
    BY <1>t, <1>8 DEF HeadsInUse
<1> QED
    BY <1>11, <1>12, <1>13, <1>14 DEF TableInv

LEMMA AddTable ==
    ASSUME TypeInv, TableInv, NEW s \in Shapes, NEW t \in Tokens, AddFill(t, s)
    PROVE  /\ TableInv' /\ freeHead \notin HeadsInUse /\ numFree > 0
           /\ \E h \in Slots, n \in 1 .. numFree :
                 /\ h = freeHead /\ numFree' = numFree - n /\ HeadsInUse' = HeadsInUse \cup {h}
                 /\ Size(h)' = n /\ \A g \in HeadsInUse : Size(g)' = Size(g)
                 /\ \A g \in HeadsInUse : desc'[g] = desc[g] /\ shape'[g] = shape[g]
<1>1. PICK own \in [Slots -> 0 .. Num], pos \in [Slots -> Nat] :
              Placed(own, pos) /\ Flagged(own, pos)
    BY DEF TableInv
<1>t. numFree \in 0 .. Num /\ \A g \in HeadsInUse : shape[g] \in Shapes
    BY DEF TableInv
<1>h. PICK h \in Slots : h = freeHead
    BY DEF TypeInv
<1>s. s[1] \in Nat /\ s[2] \in Nat /\ s[1] + s[2] \in 1 .. Num /\ Num \in Nat
      /\ s[1] + s[2] \in Int /\ NoToken \notin Tokens
    BY ShapeFact, SizesFact, TokenAssumption
<1>l. NoHead \in Lists /\ Extent(NoHead) = numFree /\ First(NoHead) = h
      /\ \A g \in HeadsInUse : g \in Slots /\ g # NoHead
    BY <1>t, <1>h, ListsFact
(* The two ways to add a buffer differ in how many descriptors they take.    *)
<1>2. PICK n \in 1 .. Num :
        /\ n <= numFree /\ numFree' = numFree - n
        /\ \A d \in Slots : desc'[d].next = desc[d].next
        /\ freeHead' \in Slots
        /\ n < numFree => own[freeHead'] = NoHead /\ pos[freeHead'] = n
        /\ \A d \in Slots : ~ (own[d] = NoHead /\ pos[d] < n) => desc'[d] = desc[d]
        /\ \/ /\ n = s[1] + s[2]
              /\ \A d \in Slots : own[d] = NoHead /\ pos[d] < n
                                    => desc'[d].flags = DescFlags(s[1], s[2], pos[d])
           \/ n = 1 /\ s[1] + s[2] > 1 /\ desc'[h].flags = {"INDIRECT"}
  <2>1. CASE AddDirect(t, s)
    <3> DEFINE n == s[1] + s[2]
               at == LinksFrom(freeHead, n)
    <3>1. n <= numFree /\ numFree' = numFree - n /\ n \in 1 .. Num /\ n \in Nat
        BY <2>1, <1>s, <1>t DEF AddDirect
    <3>2. at \in [0 .. n -> Slots] /\ freeHead' = at[n]
      <4>1. at \in [0 .. n -> Slots]
        <5> HIDE DEF n
        <5> QED
            BY <1>h, <3>1, LinksFromIs
      <4> QED
          BY <4>1, <2>1 DEF AddDirect
    <3>3. desc' = [d \in Slots |->
                      IF \E k \in 0 .. n - 1 : at[k] = d
                      THEN [next |-> desc[d].next,
                            flags |-> DescFlags(s[1], s[2], CHOOSE k \in 0 .. n - 1 : at[k] = d)]
                      ELSE desc[d]]
        BY <2>1 DEF AddDirect
    <3> HIDE DEF n
    <3>4. ASSUME NEW k \in 0 .. n, k < numFree
          PROVE  at[k] \in Slots /\ own[at[k]] = NoHead /\ pos[at[k]] = k
      <4>1. n \in Nat
          BY <3>1
      <4>2. NoHead \in Lists /\ k < Extent(NoHead) /\ First(NoHead) = freeHead
          BY <1>l, <1>h, <3>4
      <4>3. LinksFrom(First(NoHead), n)[k] \in Slots /\ own[LinksFrom(First(NoHead), n)[k]] = NoHead
            /\ pos[LinksFrom(First(NoHead), n)[k]] = k
          BY <4>1, <4>2, <1>1, <1>t, LinksPlaced
      <4> QED
          BY <4>2, <4>3
    <3> HIDE DEF at
    <3>5. freeHead' \in Slots /\ (n < numFree => own[freeHead'] = NoHead /\ pos[freeHead'] = n)
      <4>1. n \in 0 .. n
          BY <3>1
      <4> QED
          BY <4>1, <3>2, <3>4
    <3>6. ASSUME NEW d \in Slots
          PROVE  (\E k \in 0 .. n - 1 : at[k] = d) <=> own[d] = NoHead /\ pos[d] < n
      <4>1. \A k \in 0 .. n - 1 : k \in 0 .. n /\ k < numFree /\ k < n
          BY <3>1, <1>t
      <4>2. ASSUME own[d] = NoHead, pos[d] < n
            PROVE  \E k \in 0 .. n - 1 : at[k] = d
        <5>1. pos[d] \in 0 .. n - 1
            BY <4>2, <3>1
        <5>2. at[pos[d]] \in Slots /\ own[at[pos[d]]] = NoHead /\ pos[at[pos[d]]] = pos[d]
            BY <5>1, <4>1, <3>4
        <5>3. at[pos[d]] = d
            BY <5>2, <4>2, <1>1 DEF Placed
        <5> QED
            BY <5>1, <5>3
      <4> QED
          BY <4>1, <4>2, <3>4
    <3>7. ASSUME NEW d \in Slots, own[d] = NoHead /\ pos[d] < n
          PROVE  (CHOOSE k \in 0 .. n - 1 : at[k] = d) = pos[d]
      <4> DEFINE j == CHOOSE k \in 0 .. n - 1 : at[k] = d
      <4>1. j \in 0 .. n - 1 /\ at[j] = d
          BY <3>6, <3>7
      <4> HIDE DEF j
      <4>2. j \in 0 .. n /\ j < numFree
          BY <4>1, <3>1, <1>t
      <4>3. pos[d] = j
          BY <4>1, <4>2, <3>4
      <4> QED
          BY <4>3 DEF j
    <3>8. \A d \in Slots :
             desc'[d] = IF own[d] = NoHead /\ pos[d] < n
                        THEN [next |-> desc[d].next, flags |-> DescFlags(s[1], s[2], pos[d])]
                        ELSE desc[d]
        BY <3>3, <3>6, <3>7
    <3>9. n = s[1] + s[2]
        BY DEF n
    <3>10. /\ \A d \in Slots : desc'[d].next = desc[d].next
           /\ \A d \in Slots : ~ (own[d] = NoHead /\ pos[d] < n) => desc'[d] = desc[d]
           /\ \A d \in Slots : own[d] = NoHead /\ pos[d] < n
                                  => desc'[d].flags = DescFlags(s[1], s[2], pos[d])
      <4> SUFFICES ASSUME NEW d \in Slots
                   PROVE  /\ desc'[d].next = desc[d].next
                          /\ ~ (own[d] = NoHead /\ pos[d] < n) => desc'[d] = desc[d]
                          /\ own[d] = NoHead /\ pos[d] < n
                                => desc'[d].flags = DescFlags(s[1], s[2], pos[d])
          OBVIOUS
      <4>1. CASE own[d] = NoHead /\ pos[d] < n
        <5>1. desc'[d] = [next |-> desc[d].next, flags |-> DescFlags(s[1], s[2], pos[d])]
            BY <3>8, <4>1
        <5> QED
            BY <5>1, <4>1
      <4>2. CASE ~ (own[d] = NoHead /\ pos[d] < n)
        <5>1. desc'[d] = desc[d]
            BY <3>8, <4>2
        <5> QED
            BY <5>1, <4>2
      <4> QED
          BY <4>1, <4>2
    <3>11. n = s[1] + s[2] /\ n \in 1 .. Num /\ n <= numFree /\ numFree' = numFree - n
        BY <3>1, <3>9
    <3> QED
        BY <3>5, <3>10, <3>11
  <2>2. CASE AddIndirect(t, s)
    <3>1. /\ s[1] + s[2] > 1 /\ numFree > 0 /\ numFree' = numFree - 1
          /\ desc' = [desc EXCEPT ![h].flags = {"INDIRECT"}] /\ freeHead' = desc[h].next
        BY <2>2, <1>h DEF AddIndirect
    <3>2. own[h] = NoHead /\ pos[h] = 0
        BY <1>1, <1>l, <3>1 DEF Placed
    <3>3. \A d \in Slots : own[d] = NoHead /\ pos[d] < 1 => d = h
        BY <1>1, <3>2 DEF Placed
    <3>4. freeHead' \in Slots /\ (\A d \in Slots : desc'[d].next = desc[d].next)
          /\ desc'[h].flags = {"INDIRECT"} /\ \A d \in Slots : d # h => desc'[d] = desc[d]
        BY <3>1 DEF TypeInv, DescType
    <3>5. 1 < numFree => own[freeHead'] = NoHead /\ pos[freeHead'] = 1
      <4>1. 0 + 1 = 1
          OBVIOUS
      <4> QED
          BY <4>1, <1>1, <1>l, <3>1, <3>2 DEF Placed
    <3>6. 1 \in 1 .. Num /\ 1 <= numFree
        BY <1>t, <3>1, SizesFact
    <3>7. \A d \in Slots : ~ (own[d] = NoHead /\ pos[d] < 1) => desc'[d] = desc[d]
        BY <3>2, <3>4
    <3> QED
        BY <3>1, <3>4, <3>5, <3>6, <3>7
  <2> QED
      BY <2>1, <2>2 DEF AddFill
<1>3. numFree > 0 /\ own[h] = NoHead /\ pos[h] = 0
  <2>1. numFree > 0
      BY <1>2, <1>t
  <2> QED
      BY <2>1, <1>1, <1>l DEF Placed
<1>4. /\ h \notin HeadsInUse
      /\ \A g \in HeadsInUse : own[g] = g
  <2> SUFFICES ASSUME NEW g \in HeadsInUse
               PROVE  own[g] = g /\ g # h
      OBVIOUS
  <2>1. g \in Lists /\ Extent(g) > 0 /\ First(g) = g /\ g # NoHead
    <3>1. g \in Lists /\ Size(g) \in 1 .. Num /\ Extent(g) = Size(g) /\ First(g) = g /\ g # NoHead
        BY <1>t, ListsFact
    <3> QED
        BY <3>1
  <2>2. own[g] = g
      BY <2>1, <1>1 DEF Placed
  <2> QED
      BY <2>1, <2>2, <1>3
<1>5. HeadsInUse' = HeadsInUse \cup {h} /\ shape' = [shape EXCEPT ![h] = s]
  <2>1. data' = [data EXCEPT ![h] = t] /\ shape' = [shape EXCEPT ![h] = s]
      BY <1>h DEF AddFill, AddDirect, AddIndirect
  <2> QED
      BY <2>1, <1>s DEF HeadsInUse, TypeInv
<1>6. shape'[h] = s /\ \A d \in Slots : d # h => shape'[d] = shape[d]
    BY <1>5 DEF TypeInv
<1>7. \A g \in HeadsInUse : Size(g)' = Size(g) /\ desc'[g] = desc[g] /\ shape'[g] = shape[g]
    BY <1>l, <1>2, <1>4, <1>6 DEF Size
<1>8. Size(h)' = n
  <2>1. CASE n = s[1] + s[2] /\ desc'[h].flags = DescFlags(s[1], s[2], pos[h])
      BY <2>1, <1>6 DEF Size, DescFlags
  <2>2. CASE n = 1 /\ desc'[h].flags = {"INDIRECT"}
      BY <2>2 DEF Size
  <2>3. pos[h] < n
      BY <1>3
  <2> QED
      BY <1>2, <1>3, <2>1, <2>2, <2>3
<1>9. PICK own2, pos2 : own2 = TakenOwn(own, pos, h, n) /\ pos2 = TakenPos(own, pos, n)
    OBVIOUS
<1>10. own2 \in [Slots -> 0 .. Num] /\ pos2 \in [Slots -> Nat] /\ Placed(own2, pos2)'
  <2>1. \A g \in HeadsInUse : Size(g)' = Size(g)
      BY <1>7
  <2>2. HeadsInUse' = HeadsInUse \cup {h}
      BY <1>5
  <2> QED
      BY <1>1, <1>t, <1>h, <1>2, <1>8, <1>9, <2>1, <2>2, Taken
<1>11. Flagged(own2, pos2)'
  <2> SUFFICES ASSUME NEW d \in Slots, own2[d] # NoHead
               PROVE  (IF "INDIRECT" \in desc[own2[d]].flags
                       THEN /\ desc[own2[d]].flags = {"INDIRECT"}
                            /\ shape[own2[d]][1] + shape[own2[d]][2] > 1
                       ELSE desc[d].flags
                              = DescFlags(shape[own2[d]][1], shape[own2[d]][2], pos2[d]))'
      BY DEF Flagged
  <2>1. CASE own[d] = NoHead /\ pos[d] < n
    <3>1. own2[d] = h /\ pos2[d] = pos[d]
        BY <1>1, <1>9, <2>1 DEF TakenOwn, TakenPos
    <3>2. CASE n = s[1] + s[2] /\ \A e \in Slots : own[e] = NoHead /\ pos[e] < n
                                    => desc'[e].flags = DescFlags(s[1], s[2], pos[e])
      <4>1. desc'[d].flags = DescFlags(s[1], s[2], pos[d])
          BY <3>2, <2>1
      <4>2. desc'[h].flags = DescFlags(s[1], s[2], pos[h])
          BY <3>2, <1>3
      <4>3. "INDIRECT" \notin desc'[h].flags
          BY <4>2 DEF DescFlags
      <4> QED
          BY <3>1, <4>1, <4>3, <1>6
    <3>3. CASE n = 1 /\ s[1] + s[2] > 1 /\ desc'[h].flags = {"INDIRECT"}
        BY <3>1, <3>3, <1>6
    <3> QED
        BY <3>2, <3>3, <1>2
  <2>2. CASE ~ (own[d] = NoHead /\ pos[d] < n)
    <3>1. own2[d] = own[d] /\ own[d] # NoHead
        BY <1>9, <2>2 DEF TakenOwn
    <3>2. pos2[d] = pos[d]
        BY <1>9, <3>1 DEF TakenPos
    <3>3. own[d] \in HeadsInUse
        BY <1>1, <3>1 DEF Placed, Lists
    <3>4. desc'[d] = desc[d]
        BY <1>2, <2>2
    <3>5. desc'[own[d]] = desc[own[d]] /\ shape'[own[d]] = shape[own[d]]
        BY <1>7, <3>3
    <3> QED
        BY <1>1, <3>1, <3>2, <3>4, <3>5 DEF Flagged
  <2> QED
      BY <2>1, <2>2
<1>12. numFree' \in 0 .. Num
  <2>1. numFree' = numFree - n /\ n <= numFree /\ n \in 1 .. Num /\ numFree \in 0 .. Num
        /\ Num \in Nat
      BY <1>2, <1>t, SizesFact
  <2> QED
      BY <2>1
<1>13. \A g \in HeadsInUse' : shape'[g] \in Shapes
    BY <1>t, <1>5, <1>6, <1>7
<1>14. TableInv'
    BY <1>10, <1>11, <1>12, <1>13 DEF TableInv
<1>15. n \in 1 .. numFree /\ numFree' = numFree - n
    BY <1>2, <1>t
<1> QED
    BY <1>h, <1>3, <1>4, <1>5, <1>7, <1>8, <1>14, <1>15

LEMMA TableSame ==
    ASSUME TableInv, UNCHANGED <<desc, freeHead, numFree, data, shape>>
    PROVE  TableInv' /\ HeadsInUse' = HeadsInUse
<1>1. HeadsInUse' = HeadsInUse /\ Lists' = Lists
    BY DEF HeadsInUse, Lists
<1>2. \A l : Extent(l)' = Extent(l) /\ First(l)' = First(l)
    BY DEF Extent, First, Size
<1>3. PICK own \in [Slots -> 0 .. Num], pos \in [Slots -> Nat] :
              Placed(own, pos) /\ Flagged(own, pos)
    BY DEF TableInv
<1>4. Placed(own, pos)'
    BY <1>1, <1>2, <1>3 DEF Placed
<1>5. Flagged(own, pos)'
    BY <1>3 DEF Flagged
<1> QED
    BY <1>1, <1>4, <1>5 DEF TableInv

(* What the steps do to the table.                                         *)
LEMMA TableSteps ==
    ASSUME [Next]_vars
    PROVE  \/ \E s \in Shapes, t \in Tokens : AddFill(t, s)
           \/ GetBuf
           \/ DetachUnused
           \/ Shutdown
           \/ UNCHANGED tableVars
<1>1. CASE Driver
    BY <1>1 DEF Driver, Add, AddNoSpace, AddExpose, Kick, KickAlways, GetBufNull, DisableCb,
       EnableCb, EnableCbChecks, EnableCbDelayed, EnableCbDelayedChecks, TakeInterrupt,
       tableVars
<1>2. CASE Device
    BY <1>2 DEF Device, DevWake, DevFetch, DevDoze, DevRecheck, DevUse, DevSpurious, PostUsed,
       DevSignal, DevReset, tableVars
<1>3. CASE UNCHANGED vars
    BY <1>3 DEF vars, tableVars
<1> QED
    BY <1>1, <1>2, <1>3 DEF Next

LEMMA TableNext ==
    ASSUME TypeInv, TableInv, [Next]_vars
    PROVE  TableInv'
<1>1. ASSUME NEW s \in Shapes, NEW t \in Tokens, AddFill(t, s)
      PROVE  TableInv'
    BY <1>1, AddTable
<1>2. CASE GetBuf
  <2>1. PICK h \in HeadsInUse : DetachBuf(h)
      BY <1>2 DEF GetBuf
  <2> QED
      BY <2>1, DetachTable
<1>3. CASE DetachUnused
  <2>1. PICK h \in HeadsInUse : DetachBuf(h)
      BY <1>3 DEF DetachUnused
  <2> QED
      BY <2>1, DetachTable
<1>4. CASE Shutdown
    BY <1>4, TableAgain
<1>5. CASE UNCHANGED tableVars
    BY <1>5, TableSame DEF tableVars
<1> QED
    BY <1>1, <1>2, <1>3, <1>4, <1>5, TableSteps

LEMMA TableKept == Spec => []TableInv
<1>1. TableInv /\ TypeInv /\ [Next]_vars => TableInv'
    BY TableNext
<1> QED
    BY <1>1, TableStart, Typed, PTL DEF Spec

LEMMA AddFilled ==
    ASSUME TypeInv, TableInv, Filled, NEW s \in Shapes, NEW t \in Tokens, AddFill(t, s)
    PROVE  Filled'
<1>1. PICK h \in Slots :
        /\ h = freeHead /\ h \notin HeadsInUse /\ HeadsInUse' = HeadsInUse \cup {h}
        /\ \A g \in HeadsInUse : desc'[g] = desc[g] /\ shape'[g] = shape[g]
    BY AddTable
<1>2. shape'[h] = s
    BY <1>1 DEF AddFill, AddDirect, AddIndirect, TypeInv
<1>3. CASE AddDirect(t, s)
  <2> DEFINE n == s[1] + s[2]
             at == LinksFrom(freeHead, n)
  <2>1. n \in 1 .. Num /\ n \in Nat /\ 0 \in 0 .. n - 1
      BY ShapeFact, SizesFact
  <2>2. at[0] = h
    <3> HIDE DEF n
    <3> QED
        BY <1>1, <2>1, LinksFromIs
  <2>3. desc' = [d \in Slots |->
                    IF \E k \in 0 .. n - 1 : at[k] = d
                    THEN [next |-> desc[d].next,
                          flags |-> DescFlags(s[1], s[2], CHOOSE k \in 0 .. n - 1 : at[k] = d)]
                    ELSE desc[d]]
      BY <1>3 DEF AddDirect
  <2> HIDE DEF n, at
  <2>4. \E k : desc'[h].flags = DescFlags(s[1], s[2], k)
      BY <1>1, <2>1, <2>2, <2>3
  <2>5. "INDIRECT" \notin desc'[h].flags
      BY <2>4 DEF DescFlags
  <2>6. table' = table
      BY <1>3 DEF AddDirect
  <2> QED
      BY <1>1, <2>5, <2>6 DEF Filled
<1>4. CASE AddIndirect(t, s)
  <2>1. table' = [table EXCEPT ![h] = IndirectTable(s[1], s[2])]
      BY <1>1, <1>4 DEF AddIndirect
  <2>2. DOMAIN table' = Slots /\ table'[h] = IndirectTable(s[1], s[2])
        /\ \A g \in HeadsInUse : table'[g] = table[g]
      BY <1>1, <2>1 DEF Filled, HeadsInUse
  <2> QED
      BY <1>1, <1>2, <2>2 DEF Filled
<1> QED
    BY <1>3, <1>4 DEF AddFill

LEMMA DetachFilled ==
    ASSUME TypeInv, Filled, NEW h \in HeadsInUse, DetachBuf(h)
    PROVE  Filled'
<1>1. /\ data' = [data EXCEPT ![h] = NoToken] /\ table' = table
      /\ shape' = [shape EXCEPT ![h] = <<0, 0>>]
      /\ desc' = [desc EXCEPT ![ChainEnd(h)].next = freeHead]
    BY DEF DetachBuf
<1>2. ASSUME NEW g \in HeadsInUse'
      PROVE  g \in HeadsInUse /\ g # h /\ desc'[g].flags = desc[g].flags /\ shape'[g] = shape[g]
  <2>1. g \in HeadsInUse /\ g # h /\ g \in Slots
      BY <1>1 DEF HeadsInUse, TypeInv
  <2>2. desc'[g].flags = desc[g].flags
      BY <1>1, <2>1 DEF TypeInv, DescType
  <2>3. shape'[g] = shape[g]
      BY <1>1, <2>1 DEF TypeInv
  <2> QED
      BY <2>1, <2>2, <2>3
<1> QED
    BY <1>1, <1>2 DEF Filled

LEMMA FilledNext ==
    ASSUME TypeInv, TableInv, Filled, [Next]_vars
    PROVE  Filled'
<1>1. ASSUME NEW s \in Shapes, NEW t \in Tokens, AddFill(t, s)
      PROVE  Filled'
    BY <1>1, AddFilled
<1>2. CASE GetBuf \/ DetachUnused
  <2>1. PICK h \in HeadsInUse : DetachBuf(h)
      BY <1>2 DEF GetBuf, DetachUnused
  <2> QED
      BY <2>1, DetachFilled
<1>3. CASE Shutdown
  <2>1. HeadsInUse' = {} /\ table' = table
      BY <1>3 DEF Shutdown, HeadsInUse, Every
  <2> QED
      BY <2>1 DEF Filled
<1>4. CASE UNCHANGED tableVars
    BY <1>4 DEF Filled, HeadsInUse, tableVars
<1> QED
    BY <1>1, <1>2, <1>3, <1>4, TableSteps

LEMMA FilledKept == Spec => []Filled
<1>1. Init => Filled
    BY DEF Init, Filled, HeadsInUse, Every
<1>2. TypeInv /\ TableInv /\ Filled /\ [Next]_vars => Filled'
    BY FilledNext
<1> QED
    BY <1>1, <1>2, TableKept, Typed, PTL DEF Spec

(* As long as a head is in use, its chain, or the indirect table it names,   *)
(* is what the caller of virtqueue_add_buf asked for, whatever add_buf and    *)
(* detach_buf do to the other chains and to the free list.                  *)
THEOREM ChainsCorrect == Spec => []ChainsAsAsked
    BY TableChains, TableKept, FilledKept, Typed, PTL

-----------------------------------------------------------------------------
(* The rings.  An entry of a window is where its distance from the window's  *)
(* start says, however often the indices have wrapped.                      *)
LEMMA IdxMultiple == \E q \in Int : IdxMod = Num * q
<1>1. 2 * Num \in Nat \ {0} /\ IdxMod \in Int /\ IdxMod % (2 * Num) = 0 /\ Num \in Int
    BY SizesFact, IdxAssumption
<1>2. PICK q \in Int : IdxMod = (2 * Num) * q + (IdxMod % (2 * Num))
  <2> DEFINE n == 2 * Num
  <2>1. n \in Nat \ {0}
      BY <1>1
  <2> HIDE DEF n
  <2>2. \E q \in Int : IdxMod = n * q + (IdxMod % n)
      BY <2>1, <1>1, ModSplit
  <2> QED
      BY <2>2 DEF n
<1>3. IdxMod = (2 * Num) * q
  <2>1. (2 * Num) * q \in Int
      BY <1>1
  <2> QED
      BY <2>1, <1>1, <1>2
<1>4. (2 * Num) * q = Num * (2 * q) /\ 2 * q \in Int
    BY <1>1, SMTT(30)
<1> QED
    BY <1>3, <1>4

LEMMA PosWrap ==
    ASSUME NEW a \in Int
    PROVE  (a + IdxMod) % Num = a % Num /\ (a - IdxMod) % Num = a % Num
<1>1. PICK q \in Int : IdxMod = Num * q
    BY IdxMultiple
<1>2. (a + Num * q) % Num = a % Num
    BY SizesFact, ModShift
<1>3. (a + Num * (-q)) % Num = a % Num
  <2>1. -q \in Int
      OBVIOUS
  <2> QED
      BY <2>1, SizesFact, ModShift
<1>4. Num * (-q) = - (Num * q) /\ Num * q \in Int
    BY SizesFact
<1>5. a + Num * (-q) = a - Num * q
    BY <1>4
<1> QED
    BY <1>1, <1>2, <1>3, <1>5

LEMMA PosNext ==
    ASSUME NEW i \in Idx, NEW k \in Int
    PROVE  (Plus(i, 1) + k) % Num = (i + (k + 1)) % Num
<1>1. Plus(i, 1) = IF i + 1 < IdxMod THEN i + 1 ELSE i + 1 - IdxMod
  <2>1. 1 \in 0 .. IdxMod
      BY SizesFact
  <2> QED
      BY <2>1, PlusIs
<1>2. i \in Int /\ IdxMod \in Int /\ i + (k + 1) \in Int
    BY SizesFact, IdxFact
<1>3. CASE i + 1 < IdxMod
  <2>1. Plus(i, 1) + k = i + (k + 1)
      BY <1>1, <1>2, <1>3
  <2> QED
      BY <2>1
<1>4. CASE ~ (i + 1 < IdxMod)
  <2>1. Plus(i, 1) + k = i + (k + 1) - IdxMod
      BY <1>1, <1>2, <1>4
  <2> QED
      BY <2>1, <1>2, PosWrap
<1> QED
    BY <1>3, <1>4

LEMMA PosEnd ==
    ASSUME NEW i \in Idx, NEW j \in Idx
    PROVE  (i + Minus(j, i)) % Num = j % Num
<1>1. Minus(j, i) = IF i <= j THEN j - i ELSE j - i + IdxMod
    BY MinusIs
<1>2. i \in Int /\ j \in Int /\ IdxMod \in Int
    BY SizesFact, IdxFact
<1>3. CASE i <= j
  <2>1. i + Minus(j, i) = j
      BY <1>1, <1>2, <1>3
  <2> QED
      BY <2>1
<1>4. CASE ~ (i <= j)
  <2>1. i + Minus(j, i) = j + IdxMod
      BY <1>1, <1>2, <1>4
  <2> QED
      BY <2>1, <1>2, PosWrap
<1> QED
    BY <1>3, <1>4

LEMMA QuotientUnique ==
    ASSUME NEW m \in Nat \ {0}, NEW q \in Int, NEW p \in Int, NEW a \in 0 .. m - 1,
           NEW b \in 0 .. m - 1, m * q + a = m * p + b
    PROVE  a = b
<1>1. q = p
    BY SMTT(30)
<1>2. m * q \in Int
    OBVIOUS
<1> QED
    BY <1>1, <1>2

LEMMA PosOrdered ==
    ASSUME NEW i \in Int, NEW j \in 0 .. Num - 1, NEW k \in 0 .. Num - 1, j <= k,
           (i + j) % Num = (i + k) % Num
    PROVE  j = k
<1> DEFINE r == (i + j) % Num
<1>1. Num \in Nat \ {0} /\ i + j \in Int /\ i + k \in Int /\ k - j \in 0 .. Num - 1
      /\ 0 \in 0 .. Num - 1
    BY SizesFact
<1>2. r \in Int
    BY <1>1, ModRange
<1>3. PICK q \in Int : i + j = Num * q + r
    BY <1>1, ModSplit
<1>4. PICK p \in Int : i + k = Num * p + r
    BY <1>1, ModSplit
<1> HIDE DEF r
<1>5. Num * q \in Int /\ Num * p \in Int
    BY <1>1
<1>6. Num * q + (k - j) = Num * p + 0
    BY <1>1, <1>2, <1>3, <1>4, <1>5
<1>7. k - j = 0
    BY <1>1, <1>6, QuotientUnique
<1> QED
    BY <1>7, <1>1

LEMMA PosDistinct ==
    ASSUME NEW i \in Int, NEW j \in 0 .. Num - 1, NEW k \in 0 .. Num - 1,
           (i + j) % Num = (i + k) % Num
    PROVE  j = k
<1>1. CASE j <= k
    BY <1>1, PosOrdered
<1>2. CASE k <= j
    BY <1>2, PosOrdered
<1> QED
    BY <1>1, <1>2, SizesFact

(* Distinct entries, counted.                                              *)
LEMMA EntryCount ==
    ASSUME NEW n \in Nat, NEW f, \A k \in 0 .. n - 1 : f[k] \in Slots,
           \A j, k \in 0 .. n - 1 : f[j] = f[k] => j = k
    PROVE  /\ {f[k] : k \in 0 .. n - 1} \in SUBSET Slots
           /\ Cardinality({f[k] : k \in 0 .. n - 1}) = n
           /\ n <= Num
<1> DEFINE K == 0 .. n - 1
           S == {f[k] : k \in K}
           g == [k \in K |-> f[k]]
<1>1. S \in SUBSET Slots
    OBVIOUS
<1>2. g \in Bijection(K, S)
  <2>1. /\ g \in [K -> S] /\ (\A j, k \in K : g[j] = g[k] => j = k)
        /\ \A d \in S : \E k \in K : g[k] = d
      OBVIOUS
  <2> HIDE DEF g, K, S
  <2> QED
      BY <2>1 DEF Bijection, Injection, Surjection, IsInjective
<1>3. ExistsBijection(K, S)
    BY <1>2 DEF ExistsBijection
<1>4. IsFiniteSet(K) /\ Cardinality(K) = n
    BY IntervalCount
<1>5. Cardinality(S) = n
  <2> HIDE DEF K, S
  <2> QED
      BY <1>3, <1>4, FS_Bijection
<1>6. Cardinality(S) \in 0 .. Num
    BY <1>1, SlotsCount
<1> QED
    BY <1>1, <1>5, <1>6, SizesFact

-----------------------------------------------------------------------------
(* What waits in the two rings, and how much.                              *)
Waiting == Minus(availIdx, devLast)
Done == Minus(usedIdx, lastUsed)
AvailAt(k) == availRing[(devLast + k) % Num]
UsedAt(k) == usedRing[(lastUsed + k) % Num]
Exposed == HeadsInUse \ {adding}

(* While the device posts only heads it was given, each exposed head is at   *)
(* one place, and a head that is being filled is in the entry that will be   *)
(* exposed next.                                                           *)
Traced ==
    /\ \A k \in 0 .. Waiting - 1 : AvailAt(k) \in Exposed
    /\ \A j, k \in 0 .. Waiting - 1 : AvailAt(j) = AvailAt(k) => j = k
    /\ \A k \in 0 .. Done - 1 : UsedAt(k) \in Exposed
    /\ \A j, k \in 0 .. Done - 1 : UsedAt(j) = UsedAt(k) => j = k
    /\ inflight \subseteq Exposed
    /\ \A k \in 0 .. Waiting - 1 : AvailAt(k) \notin inflight
    /\ \A k \in 0 .. Done - 1 : UsedAt(k) \notin inflight
    /\ \A j \in 0 .. Waiting - 1 : \A k \in 0 .. Done - 1 : AvailAt(j) # UsedAt(k)
    /\ \A h \in Exposed : \/ h \in inflight
                          \/ \E k \in 0 .. Waiting - 1 : AvailAt(k) = h
                          \/ \E k \in 0 .. Done - 1 : UsedAt(k) = h
    /\ adding # NoHead => adding \in HeadsInUse /\ availRing[availIdx % Num] = adding

RingInv ==
    /\ Done <= Num
    /\ devState # "reset" /\ ~ spurious => Traced

LEMMA RingTypes ==
    ASSUME TypeInv
    PROVE  /\ Waiting \in Idx /\ Done \in Idx /\ Waiting \in Nat /\ Done \in Nat
           /\ Waiting \in Int /\ Done \in Int
           /\ devLast \in Int /\ lastUsed \in Int /\ availIdx \in Int /\ usedIdx \in Int
           /\ availIdx % Num = (devLast + Waiting) % Num
           /\ usedIdx % Num = (lastUsed + Done) % Num
           /\ \A k \in Int : (devLast + k) % Num \in Slots /\ (lastUsed + k) % Num \in Slots
           /\ Exposed \subseteq Slots
<1>1. availIdx \in Idx /\ usedIdx \in Idx /\ devLast \in Idx /\ lastUsed \in Idx
    BY DEF TypeInv
<1>2. Waiting \in Idx /\ Done \in Idx
    BY <1>1, MinusIs DEF Waiting, Done
<1>3. \A i \in Idx : i \in Nat /\ i \in Int
    BY SizesFact DEF Idx
<1>4. availIdx % Num = (devLast + Waiting) % Num /\ usedIdx % Num = (lastUsed + Done) % Num
    BY <1>1, PosEnd DEF Waiting, Done
<1>5. \A k \in Int : (devLast + k) % Num \in Slots /\ (lastUsed + k) % Num \in Slots
    BY <1>1, <1>3, SlotsFact
<1> QED
    BY <1>1, <1>2, <1>3, <1>4, <1>5 DEF Exposed, HeadsInUse

(* No more can wait than there are heads, and one that is not exposed leaves *)
(* room for its own entry.                                                 *)
LEMMA WaitingBound ==
    ASSUME TypeInv, Traced
    PROVE  /\ Waiting <= Num
           /\ \A h \in Slots : h \notin Exposed => Waiting < Num
<1> DEFINE f == [k \in 0 .. Waiting - 1 |-> AvailAt(k)]
           S == {f[k] : k \in 0 .. Waiting - 1}
<1>1. Waiting \in Nat /\ Exposed \subseteq Slots
    BY RingTypes
<1>2. (\A k \in 0 .. Waiting - 1 : f[k] \in Exposed)
      /\ \A j, k \in 0 .. Waiting - 1 : f[j] = f[k] => j = k
    BY DEF Traced
<1>3. S \in SUBSET Slots /\ Cardinality(S) = Waiting /\ Waiting <= Num
  <2> HIDE DEF f
  <2>1. \A k \in 0 .. Waiting - 1 : f[k] \in Slots
      BY <1>1, <1>2
  <2> QED
      BY <2>1, <1>1, <1>2, EntryCount, SMTT(40)
<1>4. ASSUME NEW h \in Slots, h \notin Exposed
      PROVE  Waiting < Num
  <2>1. h \notin S
      BY <1>2, <1>4
  <2>2. Waiting # Num
    <3> SUFFICES ASSUME Waiting = Num PROVE FALSE
        OBVIOUS
    <3> HIDE DEF S
    <3>1. Cardinality(S) = Cardinality(Slots) /\ IsFiniteSet(Slots)
        BY <1>3, SlotsCount
    <3>2. S = Slots
        BY <3>1, <1>3, FS_Subset
    <3> QED
        BY <3>2, <2>1
  <2> QED
      BY <2>2, <1>1, <1>3, SizesFact
<1> QED
    BY <1>3, <1>4

LEMMA RingStart == Init => RingInv
<1> SUFFICES ASSUME Init PROVE RingInv
    OBVIOUS
<1>1. Minus(0, 0) = 0
    BY MinusZero, IdxFact
<1>2. Waiting = 0 /\ Done = 0 /\ Exposed = {} /\ inflight = {} /\ adding = NoHead
    BY <1>1 DEF Init, Waiting, Done, Exposed, HeadsInUse, Every
<1> QED
    BY <1>2, SizesFact DEF RingInv, Traced

(* The two windows grow and shrink by one entry.                           *)
LEMMA WindowGrows ==
    ASSUME NEW from \in Idx, NEW to \in Idx, Minus(to, from) < IdxMod - 1
    PROVE  Minus(Plus(to, 1), from) = Minus(to, from) + 1
<1>1. Minus(Plus(to, 1), from) = IF Minus(to, from) = IdxMod - 1 THEN 0 ELSE Minus(to, from) + 1
    BY MinusAhead
<1>2. Minus(to, from) # IdxMod - 1
  <2>1. Minus(to, from) \in Int /\ IdxMod - 1 \in Int
      BY MinusIs, SizesFact, IdxFact
  <2> QED
      BY <2>1
<1> QED
    BY <1>1, <1>2

LEMMA WindowShrinks ==
    ASSUME NEW from \in Idx, NEW to \in Idx, from # to
    PROVE  Minus(to, Plus(from, 1)) = Minus(to, from) - 1 /\ Minus(to, from) > 0
<1>1. Minus(to, Plus(from, 1)) = IF Minus(to, from) = 0 THEN IdxMod - 1 ELSE Minus(to, from) - 1
    BY MinusBehind
<1>2. Minus(to, from) # 0 /\ Minus(to, from) \in Idx
    BY MinusZero, MinusIs
<1> QED
    BY <1>1, <1>2, SizesFact DEF Idx

LEMMA AddRing ==
    ASSUME TypeInv, TableInv, Traced, NEW s \in Shapes, NEW t \in Tokens, AddFill(t, s)
    PROVE  Traced'
<1>h. PICK h \in Slots : h = freeHead
    BY DEF TypeInv
<1>1. h \notin HeadsInUse
    BY <1>h, AddTable
<1>2. adding = NoHead /\ adding' = h /\ NoHead \notin Slots
      /\ availRing' = [availRing EXCEPT ![availIdx % Num] = h]
      /\ data' = [data EXCEPT ![h] = t]
      /\ UNCHANGED <<availIdx, lastUsed, usedRing, usedIdx, devLast, inflight>>
    BY <1>h, SlotsFact DEF AddFill, Ready, deviceVars, NoHead
<1>3. HeadsInUse' = HeadsInUse \cup {h}
    BY <1>2, TokenAssumption DEF HeadsInUse, TypeInv
<1>4. Exposed = HeadsInUse /\ Exposed' = HeadsInUse
    BY <1>1, <1>2, <1>3 DEF Exposed, HeadsInUse
<1>5. Waiting' = Waiting /\ Done' = Done /\ \A k : UsedAt(k)' = UsedAt(k)
    BY <1>2 DEF Waiting, Done, UsedAt
<1>6. Waiting < Num /\ Waiting \in Nat /\ Num \in Nat
    BY <1>1, <1>4, WaitingBound, RingTypes, SizesFact
<1>7. ASSUME NEW k \in 0 .. Waiting - 1
      PROVE  AvailAt(k)' = AvailAt(k)
  <2>1. k \in 0 .. Num - 1 /\ Waiting \in 0 .. Num - 1 /\ k # Waiting /\ k \in Int
      BY <1>6
  <2>2. (devLast + k) % Num # availIdx % Num
      BY <2>1, RingTypes, PosDistinct
  <2>3. (devLast + k) % Num \in Slots
      BY <2>1, RingTypes
  <2> QED
      BY <1>2, <2>2, <2>3 DEF AvailAt, TypeInv
<1>8. availRing'[availIdx' % Num] = h
  <2>1. availIdx % Num \in Slots
      BY RingTypes, SlotsFact
  <2> QED
      BY <1>2, <2>1 DEF TypeInv
<1>9. adding' \in HeadsInUse' /\ availRing'[availIdx' % Num] = adding'
    BY <1>2, <1>3, <1>8
<1> QED
    BY <1>2, <1>4, <1>5, <1>7, <1>9 DEF Traced

LEMMA ExposeRing ==
    ASSUME TypeInv, Traced, AddExpose
    PROVE  Traced'
<1>a. PICK h \in HeadsInUse : h = adding
    BY DEF Traced, AddExpose
<1>1. /\ adding' = NoHead /\ h # NoHead /\ h \in Slots /\ NoHead \notin HeadsInUse
      /\ availIdx' = Plus(availIdx, 1) /\ availRing[availIdx % Num] = h
      /\ UNCHANGED <<data, availRing, lastUsed, usedRing, usedIdx, devLast, inflight>>
  <2>1. UNCHANGED <<data, availRing, lastUsed, usedRing, usedIdx, devLast, inflight>>
        /\ adding' = NoHead /\ adding # NoHead /\ availIdx' = Plus(availIdx, 1)
      BY DEF AddExpose, tableVars, deviceVars
  <2> QED
      BY <2>1, <1>a, SlotsFact DEF Traced, HeadsInUse, NoHead
<1>2. HeadsInUse' = HeadsInUse /\ Exposed' = HeadsInUse /\ Exposed = HeadsInUse \ {h}
      /\ Exposed' = Exposed \cup {h} /\ h \notin Exposed
  <2>1. HeadsInUse' = HeadsInUse
      BY <1>1 DEF HeadsInUse
  <2> QED
      BY <2>1, <1>a, <1>1 DEF Exposed
<1>3. /\ Waiting < Num /\ Waiting \in Nat /\ Num \in Nat /\ Num > 0
      /\ 2 * Num <= IdxMod /\ IdxMod \in Nat
    BY <1>1, <1>2, WaitingBound, RingTypes, SizesFact
<1>4. Waiting' = Waiting + 1
  <2>1. Waiting < IdxMod - 1
      BY <1>3
  <2>2. availIdx \in Idx /\ devLast \in Idx
      BY DEF TypeInv
  <2>3. Minus(Plus(availIdx, 1), devLast) = Minus(availIdx, devLast) + 1
      BY <2>1, <2>2, WindowGrows DEF Waiting
  <2> QED
      BY <2>3, <1>1 DEF Waiting
<1>5. Done' = Done /\ (\A k : UsedAt(k)' = UsedAt(k)) /\ \A k : AvailAt(k)' = AvailAt(k)
    BY <1>1 DEF Done, UsedAt, AvailAt
<1>6. AvailAt(Waiting) = h
    BY <1>1, RingTypes DEF AvailAt
<1>7. \A k \in 0 .. Waiting' - 1 : k \in 0 .. Waiting - 1 \/ k = Waiting
    BY <1>3, <1>4
<1>8. Waiting \in 0 .. Waiting' - 1 /\ \A k \in 0 .. Waiting - 1 : k \in 0 .. Waiting' - 1
    BY <1>3, <1>4
<1>9. /\ \A k \in 0 .. Waiting - 1 : AvailAt(k) # h
      /\ \A k \in 0 .. Done - 1 : UsedAt(k) # h
      /\ h \notin inflight
    BY <1>2 DEF Traced
<1>10. \A k \in 0 .. Waiting' - 1 : AvailAt(k)' \in Exposed'
    BY <1>2, <1>5, <1>6, <1>7 DEF Traced
<1>11. \A j, k \in 0 .. Waiting' - 1 : AvailAt(j)' = AvailAt(k)' => j = k
    BY <1>5, <1>6, <1>7, <1>9 DEF Traced
<1>12. \A k \in 0 .. Waiting' - 1 : AvailAt(k)' \notin inflight'
    BY <1>1, <1>5, <1>6, <1>7, <1>9 DEF Traced
<1>13. \A j \in 0 .. Waiting' - 1 : \A k \in 0 .. Done' - 1 : AvailAt(j)' # UsedAt(k)'
    BY <1>5, <1>6, <1>7, <1>9 DEF Traced
<1>14. \A g \in Exposed' : \/ g \in inflight'
                           \/ \E k \in 0 .. Waiting' - 1 : AvailAt(k)' = g
                           \/ \E k \in 0 .. Done' - 1 : UsedAt(k)' = g
    BY <1>1, <1>2, <1>5, <1>6, <1>8 DEF Traced
<1>15. /\ \A k \in 0 .. Done' - 1 : UsedAt(k)' \in Exposed' /\ UsedAt(k)' \notin inflight'
       /\ \A j, k \in 0 .. Done' - 1 : UsedAt(j)' = UsedAt(k)' => j = k
       /\ inflight' \subseteq Exposed'
    BY <1>1, <1>2, <1>5 DEF Traced
<1> QED
    BY <1>1, <1>10, <1>11, <1>12, <1>13, <1>14, <1>15 DEF Traced

(* virtqueue_get_buf takes the first used entry, the others move up.         *)
LEMMA GetBufEntries ==
    ASSUME TypeInv, GetBuf
    PROVE  /\ Done' = Done - 1 /\ Done > 0 /\ Done \in Nat
           /\ UsedAt(0) = usedRing[lastUsed % Num] /\ 0 \in 0 .. Done - 1
           /\ \A k \in 0 .. Done' - 1 : /\ UsedAt(k)' = UsedAt(k + 1)
                                        /\ k + 1 \in 0 .. Done - 1 /\ k + 1 # 0 /\ k \in Int
<1>1. /\ lastUsed # usedIdx /\ lastUsed' = Plus(lastUsed, 1)
      /\ UNCHANGED <<usedRing, usedIdx>>
    BY DEF GetBuf, MoreUsed, deviceVars
<1>2. lastUsed \in Idx /\ usedIdx \in Idx
    BY DEF TypeInv
<1>3. Done' = Done - 1 /\ Done > 0 /\ Done \in Nat
    BY <1>1, <1>2, WindowShrinks, RingTypes DEF Done
<1>4. ASSUME NEW k \in 0 .. Done' - 1
      PROVE  UsedAt(k)' = UsedAt(k + 1) /\ k + 1 \in 0 .. Done - 1 /\ k + 1 # 0 /\ k \in Int
  <2>1. k \in Int
      OBVIOUS
  <2>2. (Plus(lastUsed, 1) + k) % Num = (lastUsed + (k + 1)) % Num
      BY <2>1, <1>2, PosNext
  <2> QED
      BY <1>1, <1>3, <2>2 DEF UsedAt
<1>5. UsedAt(0) = usedRing[lastUsed % Num] /\ 0 \in 0 .. Done - 1
  <2>1. lastUsed + 0 = lastUsed
      BY RingTypes
  <2> QED
      BY <2>1, <1>3 DEF UsedAt
<1> QED
    BY <1>3, <1>4, <1>5

LEMMA GetBufRing ==
    ASSUME TypeInv, Traced, GetBuf
    PROVE  Traced'
<1>h. PICK h \in HeadsInUse : h = usedRing[lastUsed % Num]
    BY DEF GetBuf
<1>1. /\ lastUsed # usedIdx /\ lastUsed' = Plus(lastUsed, 1) /\ adding = NoHead
      /\ data' = [data EXCEPT ![h] = NoToken] /\ h \in Slots /\ NoHead \notin Slots
      /\ UNCHANGED <<availRing, availIdx, usedRing, usedIdx, devLast, inflight, adding>>
    BY <1>h, SlotsFact DEF GetBuf, DetachBuf, MoreUsed, Ready, deviceVars, HeadsInUse, NoHead
<1>2. HeadsInUse' = HeadsInUse \ {h} /\ Exposed = HeadsInUse /\ Exposed' = HeadsInUse \ {h}
  <2>1. HeadsInUse' = HeadsInUse \ {h}
      BY <1>1, TokenAssumption DEF HeadsInUse, TypeInv
  <2>2. NoHead \notin HeadsInUse
      BY <1>1 DEF HeadsInUse
  <2> QED
      BY <2>1, <2>2, <1>1 DEF Exposed
<1>3. Done' = Done - 1 /\ Done > 0 /\ Done \in Nat
    BY GetBufEntries
<1>4. Waiting' = Waiting /\ \A k : AvailAt(k)' = AvailAt(k)
    BY <1>1 DEF Waiting, AvailAt
<1>5. \A k \in 0 .. Done' - 1 : /\ UsedAt(k)' = UsedAt(k + 1)
                                 /\ k + 1 \in 0 .. Done - 1 /\ k + 1 # 0 /\ k \in Int
    BY GetBufEntries
<1>6. UsedAt(0) = h /\ 0 \in 0 .. Done - 1
    BY <1>h, GetBufEntries
<1>7. /\ \A k \in 0 .. Waiting - 1 : AvailAt(k) # h
      /\ \A k \in 0 .. Done - 1 : k # 0 => UsedAt(k) # h
      /\ h \notin inflight
    BY <1>6 DEF Traced
<1>8. \A k \in 0 .. Done' - 1 : UsedAt(k)' \in Exposed' /\ UsedAt(k)' \notin inflight'
    BY <1>1, <1>2, <1>5, <1>7 DEF Traced
<1>9. ASSUME NEW j \in 0 .. Done' - 1, NEW k \in 0 .. Done' - 1, UsedAt(j)' = UsedAt(k)'
      PROVE  j = k
  <2>1. j + 1 = k + 1
      BY <1>5, <1>9 DEF Traced
  <2> QED
      BY <2>1, <1>5
<1>10. \A j \in 0 .. Waiting' - 1 : \A k \in 0 .. Done' - 1 : AvailAt(j)' # UsedAt(k)'
    BY <1>4, <1>5 DEF Traced
<1>11. ASSUME NEW g \in Exposed'
       PROVE  \/ g \in inflight'
              \/ \E k \in 0 .. Waiting' - 1 : AvailAt(k)' = g
              \/ \E k \in 0 .. Done' - 1 : UsedAt(k)' = g
  <2>1. g \in Exposed /\ g # h
      BY <1>2
  <2>2. CASE g \in inflight \/ \E k \in 0 .. Waiting - 1 : AvailAt(k) = g
      BY <2>2, <1>1, <1>4
  <2>3. ASSUME NEW k \in 0 .. Done - 1, UsedAt(k) = g
        PROVE  \E j \in 0 .. Done' - 1 : UsedAt(j)' = g
    <3>1. k # 0
        BY <2>1, <2>3, <1>6
    <3>2. k - 1 \in 0 .. Done' - 1 /\ k - 1 + 1 = k
        BY <3>1, <1>3
    <3>3. UsedAt(k - 1)' = g
        BY <3>2, <2>3, <1>5
    <3> QED
        BY <3>2, <3>3
  <2> QED
      BY <2>1, <2>2, <2>3 DEF Traced
<1>12. /\ \A k \in 0 .. Waiting' - 1 : AvailAt(k)' \in Exposed' /\ AvailAt(k)' \notin inflight'
       /\ \A j, k \in 0 .. Waiting' - 1 : AvailAt(j)' = AvailAt(k)' => j = k
       /\ inflight' \subseteq Exposed'
    BY <1>1, <1>2, <1>4, <1>7 DEF Traced
<1> QED
    BY <1>1, <1>8, <1>9, <1>10, <1>11, <1>12 DEF Traced

LEMMA FetchRing ==
    ASSUME TypeInv, Traced, DevFetch
    PROVE  Traced'
<1>1. /\ devLast # availIdx /\ devLast' = Plus(devLast, 1)
      /\ inflight' = inflight \cup {availRing[devLast % Num]}
      /\ UNCHANGED <<data, availRing, availIdx, lastUsed, usedRing, usedIdx, adding>>
    BY DEF DevFetch, tableVars, driverVars
<1>2. HeadsInUse' = HeadsInUse /\ Exposed' = Exposed
    BY <1>1 DEF HeadsInUse, Exposed
<1>3. Waiting' = Waiting - 1 /\ Waiting > 0 /\ Waiting \in Nat
  <2>1. availIdx \in Idx /\ devLast \in Idx
      BY DEF TypeInv
  <2> QED
      BY <1>1, <2>1, WindowShrinks, RingTypes DEF Waiting
<1>4. Done' = Done /\ \A k : UsedAt(k)' = UsedAt(k)
    BY <1>1 DEF Done, UsedAt
<1>5. ASSUME NEW k \in 0 .. Waiting' - 1
      PROVE  AvailAt(k)' = AvailAt(k + 1) /\ k + 1 \in 0 .. Waiting - 1 /\ k + 1 # 0 /\ k \in Int
  <2>1. k \in Int /\ devLast \in Idx
      BY DEF TypeInv
  <2>2. (Plus(devLast, 1) + k) % Num = (devLast + (k + 1)) % Num
      BY <2>1, PosNext
  <2> QED
      BY <1>1, <1>3, <2>2 DEF AvailAt
<1>6. inflight' = inflight \cup {AvailAt(0)} /\ 0 \in 0 .. Waiting - 1
  <2>1. devLast + 0 = devLast
      BY RingTypes
  <2> QED
      BY <2>1, <1>1, <1>3 DEF AvailAt
<1>7. ASSUME NEW k \in 0 .. Waiting' - 1
      PROVE  AvailAt(k)' \in Exposed' /\ AvailAt(k)' \notin inflight'
  <2>1. AvailAt(k + 1) # AvailAt(0)
      BY <1>5, <1>6 DEF Traced
  <2> QED
      BY <2>1, <1>2, <1>5, <1>6 DEF Traced
<1>8. ASSUME NEW j \in 0 .. Waiting' - 1, NEW k \in 0 .. Waiting' - 1, AvailAt(j)' = AvailAt(k)'
      PROVE  j = k
  <2>1. j + 1 = k + 1
      BY <1>5, <1>8 DEF Traced
  <2> QED
      BY <2>1, <1>5
<1>9. \A j \in 0 .. Waiting' - 1 : \A k \in 0 .. Done' - 1 : AvailAt(j)' # UsedAt(k)'
    BY <1>4, <1>5 DEF Traced
<1>10. /\ \A k \in 0 .. Done' - 1 : UsedAt(k)' \in Exposed' /\ UsedAt(k)' \notin inflight'
       /\ \A j, k \in 0 .. Done' - 1 : UsedAt(j)' = UsedAt(k)' => j = k
       /\ inflight' \subseteq Exposed'
    BY <1>2, <1>4, <1>6 DEF Traced
<1>11. ASSUME NEW g \in Exposed'
       PROVE  \/ g \in inflight'
              \/ \E k \in 0 .. Waiting' - 1 : AvailAt(k)' = g
              \/ \E k \in 0 .. Done' - 1 : UsedAt(k)' = g
  <2>1. CASE g \in inflight \/ \E k \in 0 .. Done - 1 : UsedAt(k) = g
      BY <2>1, <1>4, <1>6
  <2>2. ASSUME NEW k \in 0 .. Waiting - 1, AvailAt(k) = g
        PROVE  g \in inflight' \/ \E j \in 0 .. Waiting' - 1 : AvailAt(j)' = g
    <3>1. CASE k = 0
        BY <3>1, <2>2, <1>6
    <3>2. CASE k # 0
      <4>1. k - 1 \in 0 .. Waiting' - 1 /\ k - 1 + 1 = k
          BY <3>2, <1>3
      <4>2. AvailAt(k - 1)' = g
          BY <4>1, <2>2, <1>5
      <4> QED
          BY <4>1, <4>2
    <3> QED
        BY <3>1, <3>2
  <2> QED
      BY <2>1, <2>2, <1>2 DEF Traced
<1>12. adding' # NoHead => adding' \in HeadsInUse' /\ availRing'[availIdx' % Num] = adding'
    BY <1>1, <1>2 DEF Traced
<1> QED
    BY <1>7, <1>8, <1>9, <1>10, <1>11, <1>12 DEF Traced

(* Posting a used entry, whatever it says.                                 *)
LEMMA PostDone ==
    ASSUME TypeInv, NEW h, PostUsed(h)
    PROVE  Done' = Done + 1 /\ Done < Num /\ Done' <= Num /\ Done \in Nat
<1>1. Done < Num /\ usedIdx' = Plus(usedIdx, 1) /\ lastUsed' = lastUsed
    BY DEF PostUsed, Done, driverVars
<1>2. Done < IdxMod - 1 /\ Done \in Nat /\ Num \in Nat
    BY <1>1, RingTypes, SizesFact
<1>3. usedIdx \in Idx /\ lastUsed \in Idx
    BY DEF TypeInv
<1>4. Done' = Done + 1
    BY <1>1, <1>2, <1>3, WindowGrows DEF Done
<1> QED
    BY <1>1, <1>2, <1>4

(* The device adds a used entry and leaves the others.                      *)
LEMMA UseEntries ==
    ASSUME TypeInv, NEW h \in Slots, DevUse(h)
    PROVE  /\ Done' = Done + 1 /\ Done < Num /\ Done \in Nat /\ Num \in Nat
           /\ \A k \in 0 .. Done - 1 : UsedAt(k)' = UsedAt(k)
           /\ \A n \in Nat : n = Done => UsedAt(n)' = h
<1>1. usedRing' = [usedRing EXCEPT ![usedIdx % Num] = h] /\ UNCHANGED lastUsed
    BY DEF DevUse, PostUsed, driverVars
<1>3. Done' = Done + 1 /\ Done < Num /\ Done \in Nat /\ Num \in Nat
    BY PostDone, SizesFact DEF DevUse
<1>5. ASSUME NEW k \in 0 .. Done - 1
      PROVE  UsedAt(k)' = UsedAt(k)
  <2>1. k \in 0 .. Num - 1 /\ Done \in 0 .. Num - 1 /\ k # Done /\ k \in Int
      BY <1>3
  <2>2. (lastUsed + k) % Num # usedIdx % Num
      BY <2>1, RingTypes, PosDistinct
  <2>3. (lastUsed + k) % Num \in Slots
      BY <2>1, RingTypes
  <2> QED
      BY <1>1, <2>2, <2>3 DEF UsedAt, TypeInv
<1>6. ASSUME NEW n \in Nat, n = Done
      PROVE  UsedAt(n)' = h
  <2>1. usedIdx % Num \in Slots /\ (lastUsed + n) % Num = usedIdx % Num
      BY <1>6, RingTypes, SlotsFact
  <2>2. usedRing'[usedIdx % Num] = h
      BY <1>1, <2>1 DEF TypeInv
  <2> QED
      BY <2>1, <2>2, <1>1 DEF UsedAt
<1> QED
    BY <1>3, <1>5, <1>6

LEMMA UseRing ==
    ASSUME TypeInv, Traced, NEW h \in Slots, DevUse(h)
    PROVE  Traced'
<1>1. /\ h \in inflight /\ inflight' = inflight \ {h}
      /\ usedRing' = [usedRing EXCEPT ![usedIdx % Num] = h]
      /\ UNCHANGED <<data, availRing, availIdx, lastUsed, devLast, adding>>
    BY DEF DevUse, PostUsed, tableVars, driverVars
<1>2. HeadsInUse' = HeadsInUse /\ Exposed' = Exposed
    BY <1>1 DEF HeadsInUse, Exposed
<1>3. Done' = Done + 1 /\ Done < Num /\ Done \in Nat /\ Num \in Nat
    BY UseEntries
<1>4. Waiting' = Waiting /\ \A k : AvailAt(k)' = AvailAt(k)
    BY <1>1 DEF Waiting, AvailAt
<1>5. \A k \in 0 .. Done - 1 : UsedAt(k)' = UsedAt(k)
    BY UseEntries
<1>n. PICK n \in Nat : n = Done
    BY <1>3
<1>6. UsedAt(n)' = h
    BY <1>n, UseEntries
<1>7. \A k \in 0 .. Done' - 1 : k \in 0 .. Done - 1 \/ k = n
    BY <1>3, <1>n
<1>8. n \in 0 .. Done' - 1 /\ \A k \in 0 .. Done - 1 : k \in 0 .. Done' - 1
    BY <1>3, <1>n
<1>9. /\ h \in Exposed
      /\ \A k \in 0 .. Waiting - 1 : AvailAt(k) # h
      /\ \A k \in 0 .. Done - 1 : UsedAt(k) # h
    BY <1>1 DEF Traced
<1>10. \A k \in 0 .. Done' - 1 : UsedAt(k)' \in Exposed' /\ UsedAt(k)' \notin inflight'
    BY <1>1, <1>2, <1>5, <1>6, <1>7, <1>9 DEF Traced
<1>11. \A j, k \in 0 .. Done' - 1 : UsedAt(j)' = UsedAt(k)' => j = k
    BY <1>5, <1>6, <1>7, <1>9 DEF Traced
<1>12. \A j \in 0 .. Waiting' - 1 : \A k \in 0 .. Done' - 1 : AvailAt(j)' # UsedAt(k)'
    BY <1>4, <1>5, <1>6, <1>7, <1>9 DEF Traced
<1>13. \A g \in Exposed' : \/ g \in inflight'
                           \/ \E k \in 0 .. Waiting' - 1 : AvailAt(k)' = g
                           \/ \E k \in 0 .. Done' - 1 : UsedAt(k)' = g
  <2> SUFFICES ASSUME NEW g \in Exposed, g \notin inflight',
                      ~ \E k \in 0 .. Waiting' - 1 : AvailAt(k)' = g
               PROVE  \E k \in 0 .. Done' - 1 : UsedAt(k)' = g
      BY <1>2
  <2>1. CASE g = h
      BY <2>1, <1>6, <1>8
  <2>2. CASE g # h
    <3>1. PICK k \in 0 .. Done - 1 : UsedAt(k) = g
        BY <2>2, <1>1, <1>4 DEF Traced
    <3> QED
        BY <3>1, <1>5, <1>8
  <2> QED
      BY <2>1, <2>2
<1>14. /\ \A k \in 0 .. Waiting' - 1 : AvailAt(k)' \in Exposed' /\ AvailAt(k)' \notin inflight'
       /\ \A j, k \in 0 .. Waiting' - 1 : AvailAt(j)' = AvailAt(k)' => j = k
       /\ inflight' \subseteq Exposed'
    BY <1>1, <1>2, <1>4 DEF Traced
<1>15. adding' # NoHead => adding' \in HeadsInUse' /\ availRing'[availIdx' % Num] = adding'
    BY <1>1, <1>2 DEF Traced
<1> QED
    BY <1>10, <1>11, <1>12, <1>13, <1>14, <1>15 DEF Traced

LEMMA RingNext ==
    ASSUME TypeInv, TableInv, RingInv, [Next]_vars
    PROVE  RingInv'
<1>1. ASSUME NEW s \in Shapes, NEW t \in Tokens, AddFill(t, s)
      PROVE  RingInv'
  <2>1. UNCHANGED <<usedIdx, lastUsed, devState, spurious>>
      BY <1>1 DEF AddFill, deviceVars
  <2>2. Done' = Done
      BY <2>1 DEF Done
  <2> QED
      BY <1>1, <2>1, <2>2, AddRing DEF RingInv
<1>2. CASE AddExpose
  <2>1. UNCHANGED <<usedIdx, lastUsed, devState, spurious>>
      BY <1>2 DEF AddExpose, deviceVars
  <2>2. Done' = Done
      BY <2>1 DEF Done
  <2> QED
      BY <1>2, <2>1, <2>2, ExposeRing DEF RingInv
<1>3. CASE GetBuf
  <2>1. UNCHANGED <<usedIdx, devState, spurious>> /\ lastUsed' = Plus(lastUsed, 1)
        /\ lastUsed # usedIdx
      BY <1>3 DEF GetBuf, deviceVars, MoreUsed
  <2>2. Done' = Done - 1 /\ Done \in Int /\ Num \in Int
    <3>1. lastUsed \in Idx /\ usedIdx \in Idx
        BY DEF TypeInv
    <3> QED
        BY <3>1, <2>1, WindowShrinks, RingTypes, SizesFact DEF Done
  <2>3. Done' <= Num
      BY <2>2 DEF RingInv
  <2> QED
      BY <1>3, <2>1, <2>3, GetBufRing DEF RingInv
<1>4. CASE DevFetch
  <2>1. UNCHANGED <<usedIdx, lastUsed, devState, spurious>>
      BY <1>4 DEF DevFetch, driverVars
  <2>2. Done' = Done
      BY <2>1 DEF Done
  <2> QED
      BY <1>4, <2>1, <2>2, FetchRing DEF RingInv
<1>5. ASSUME NEW h \in Slots, DevUse(h)
      PROVE  RingInv'
  <2>1. UNCHANGED <<devState, spurious>> /\ PostUsed(h)
      BY <1>5 DEF DevUse, PostUsed
  <2>2. Done' <= Num
      BY <2>1, PostDone
  <2> QED
      BY <1>5, <2>1, <2>2, UseRing DEF RingInv
<1>6. CASE DevSpurious
  <2>1. PICK h : PostUsed(h)
      BY <1>6 DEF DevSpurious
  <2>2. Done' <= Num
      BY <2>1, PostDone
  <2> QED
      BY <1>6, <2>2 DEF RingInv, DevSpurious
<1>7. CASE DevReset \/ DetachUnused
  <2>1. devState' = "reset" /\ UNCHANGED <<usedIdx, lastUsed>>
      BY <1>7 DEF DevReset, DetachUnused, driverVars, deviceVars
  <2>2. Done' = Done
      BY <2>1 DEF Done
  <2> QED
      BY <2>1, <2>2 DEF RingInv
<1>8. CASE Shutdown
  <2>1. Minus(0, 0) = 0
      BY MinusZero, IdxFact
  <2>2. Waiting' = 0 /\ Done' = 0 /\ Exposed' = {} /\ inflight' = {} /\ adding' = NoHead
      BY <1>8, <2>1 DEF Shutdown, Waiting, Done, Exposed, HeadsInUse, Every, TypeInv
  <2> QED
      BY <2>2, SizesFact DEF RingInv, Traced
<1>9. CASE /\ UNCHANGED <<data, availRing, availIdx, devLast, usedRing, usedIdx, lastUsed>>
           /\ UNCHANGED <<inflight, adding, spurious>>
           /\ (devState' = "reset") = (devState = "reset")
  <2>1. Waiting' = Waiting /\ Done' = Done /\ HeadsInUse' = HeadsInUse /\ Exposed' = Exposed
      BY <1>9 DEF Waiting, Done, HeadsInUse, Exposed
  <2>2. \A k : AvailAt(k)' = AvailAt(k) /\ UsedAt(k)' = UsedAt(k)
      BY <1>9 DEF AvailAt, UsedAt
  <2>3. Traced => Traced'
      BY <1>9, <2>1, <2>2 DEF Traced
  <2> QED
      BY <1>9, <2>1, <2>3 DEF RingInv
<1>10. CASE \/ \E s \in Shapes : AddNoSpace(s)
            \/ Kick \/ KickAlways \/ GetBufNull \/ DisableCb
            \/ EnableCb \/ EnableCbChecks \/ EnableCbDelayed \/ EnableCbDelayedChecks
            \/ TakeInterrupt
  <2>1. /\ UNCHANGED <<data, availRing, availIdx, devLast, usedRing, usedIdx, lastUsed>>
        /\ UNCHANGED <<inflight, adding, spurious, devState>>
    BY <1>10 DEF AddNoSpace, Kick, KickAlways, GetBufNull, DisableCb, EnableCb, EnableCbChecks,
       EnableCbDelayed, EnableCbDelayedChecks, TakeInterrupt, tableVars, driverVars, deviceVars
  <2> QED
      BY <2>1, <1>9
<1>11. CASE DevWake \/ DevDoze \/ DevRecheck \/ DevSignal
  <2>1. /\ UNCHANGED <<data, availRing, availIdx, devLast, usedRing, usedIdx, lastUsed>>
        /\ UNCHANGED <<inflight, adding, spurious>>
      BY <1>11 DEF DevWake, DevDoze, DevRecheck, DevSignal, tableVars, driverVars
  <2>2. devState' # "reset" /\ devState # "reset"
      BY <1>11 DEF DevWake, DevDoze, DevRecheck, DevSignal
  <2> QED
      BY <2>1, <2>2, <1>9
<1>12. CASE UNCHANGED vars
    BY <1>9, <1>12 DEF vars, tableVars, driverVars, deviceVars
<1> QED
    BY <1>1, <1>2, <1>3, <1>4, <1>5, <1>6, <1>7, <1>8, <1>10, <1>11, <1>12
       DEF Next, Driver, Device, Add

LEMMA RingsKept == Spec => []RingInv
<1>1. RingInv /\ TableInv /\ TypeInv /\ [Next]_vars => RingInv'
    BY RingNext
<1> QED
    BY <1>1, RingStart, TableKept, Typed, PTL DEF Spec

(* The windows are as large as the index distances say.                    *)
LEMMA WindowsCount ==
    ASSUME TypeInv, Traced
    PROVE  /\ AvailWindow \in SUBSET Slots /\ Cardinality(AvailWindow) = Waiting
           /\ UsedWindow \in SUBSET Slots /\ Cardinality(UsedWindow) = Done
<1> DEFINE f == [k \in 0 .. Waiting - 1 |-> AvailAt(k)]
           g == [k \in 0 .. Done - 1 |-> UsedAt(k)]
<1>1. Waiting \in Nat /\ Done \in Nat /\ Exposed \subseteq Slots
    BY RingTypes
<1>2. AvailWindow = {f[k] : k \in 0 .. Waiting - 1}
    BY DEF AvailWindow, AvailAt, Waiting
<1>3. UsedWindow = {g[k] : k \in 0 .. Done - 1}
    BY DEF UsedWindow, UsedAt, Done
<1>4. /\ \A k \in 0 .. Waiting - 1 : f[k] \in Slots
      /\ \A j, k \in 0 .. Waiting - 1 : f[j] = f[k] => j = k
    BY <1>1 DEF Traced
<1>5. /\ \A k \in 0 .. Done - 1 : g[k] \in Slots
      /\ \A j, k \in 0 .. Done - 1 : g[j] = g[k] => j = k
    BY <1>1 DEF Traced
<1> HIDE DEF f, g
<1>6. {f[k] : k \in 0 .. Waiting - 1} \in SUBSET Slots
      /\ Cardinality({f[k] : k \in 0 .. Waiting - 1}) = Waiting
    BY <1>1, <1>4, EntryCount
<1>7. {g[k] : k \in 0 .. Done - 1} \in SUBSET Slots
      /\ Cardinality({g[k] : k \in 0 .. Done - 1}) = Done
    BY <1>1, <1>5, EntryCount
<1> QED
    BY <1>2, <1>3, <1>6, <1>7

LEMMA RingsTracked == TypeInv /\ RingInv => HeadsTracked
<1> SUFFICES ASSUME TypeInv, RingInv, devState # "reset", ~ spurious
             PROVE  /\ AvailWindow \cup inflight \cup UsedWindow = Exposed
                    /\ Waiting + Cardinality(inflight) + Done = Cardinality(Exposed)
    BY DEF HeadsTracked, Waiting, Done, Exposed
<1>1. Traced
    BY DEF RingInv
<1>2. /\ AvailWindow \in SUBSET Slots /\ Cardinality(AvailWindow) = Waiting
      /\ UsedWindow \in SUBSET Slots /\ Cardinality(UsedWindow) = Done
      /\ inflight \in SUBSET Slots
    BY <1>1, WindowsCount DEF TypeInv
<1>3. AvailWindow = {AvailAt(k) : k \in 0 .. Waiting - 1}
      /\ UsedWindow = {UsedAt(k) : k \in 0 .. Done - 1}
    BY DEF AvailWindow, AvailAt, Waiting, UsedWindow, UsedAt, Done
<1>4. AvailWindow \cup inflight \cup UsedWindow = Exposed
    BY <1>1, <1>3 DEF Traced
<1>5. AvailWindow \cap inflight = {} /\ (AvailWindow \cup inflight) \cap UsedWindow = {}
    BY <1>1, <1>3 DEF Traced
<1> DEFINE I == Cardinality(inflight)
<1>6. Cardinality(AvailWindow \cup inflight) = Waiting + I
    BY <1>2, <1>5, SlotsCount
<1>7. Cardinality(AvailWindow \cup inflight \cup UsedWindow) = Waiting + I + Done
  <2>1. AvailWindow \cup inflight \in SUBSET Slots
      BY <1>2
  <2>2. Cardinality((AvailWindow \cup inflight) \cup UsedWindow)
          = Cardinality(AvailWindow \cup inflight) + Cardinality(UsedWindow)
      BY <2>1, <1>2, <1>5, SlotsCount
  <2> QED
      BY <2>2, <1>2, <1>6
<1> QED
    BY <1>4, <1>7

(* add_buf and detach_buf keep the table partitioned into the free list and  *)
(* the chains of the heads in use, and every head that was exposed is at one *)
(* place of the protocol: waiting, with the device, or used.                *)
THEOREM TableCorrect == Spec => []TableIntact
<1>1. TypeInv /\ TableInv /\ RingInv => TableIntact
    BY TablePartitioned, RingsTracked DEF TableIntact, Partitioned
<1> QED
    BY <1>1, TableKept, RingsKept, Typed, PTL

-----------------------------------------------------------------------------
(* Interrupts.                                                             *)

LEMMA MinusBetween ==
    ASSUME NEW v \in Idx, NEW u \in Idx, NEW l \in Idx, Minus(u, l) <= Minus(v, l)
    PROVE  Minus(v, u) = Minus(v, l) - Minus(u, l)
<1>1. /\ Minus(v, l) = IF l <= v THEN v - l ELSE v - l + IdxMod
      /\ Minus(u, l) = IF l <= u THEN u - l ELSE u - l + IdxMod
      /\ Minus(v, u) = IF u <= v THEN v - u ELSE v - u + IdxMod
    BY MinusIs
<1> DEFINE vl == Minus(v, l)
           ul == Minus(u, l)
           vu == Minus(v, u)
<1>2. ul <= vl
    OBVIOUS
<1> HIDE DEF vl, ul, vu
<1>3. vu = vl - ul
  <2>1. /\ vl = IF l <= v THEN v - l ELSE v - l + IdxMod
        /\ ul = IF l <= u THEN u - l ELSE u - l + IdxMod
        /\ vu = IF u <= v THEN v - u ELSE v - u + IdxMod
      BY <1>1 DEF vl, ul, vu
  <2> QED
      BY <2>1, <1>2, SizesFact DEF Idx
<1> QED
    BY <1>3 DEF vl, ul, vu

(* How many used entries the device has not signalled, and how many the      *)
(* driver asked to wait for.                                               *)
Unsignalled == Minus(usedIdx, signalled)
WaitedFor == Minus(usedEvent, lastUsed)

(* The driver relies on an interrupt.                                      *)
Relying == /\ ~ polling /\ ~ noInterrupt
           /\ devState # "reset" /\ ~ setup.polled /\ ~ spurious

(* NoLostInterrupt speaks of the moments at which all is signalled; between  *)
(* them, the entries that are not yet signalled do not count.               *)
SignalInv ==
    /\ ~ setup.polled => Unsignalled <= Num
    /\ Relying /\ WaitedFor < Done - Unsignalled => intr

LEMMA SignalTypes ==
    ASSUME TypeInv
    PROVE  /\ Unsignalled \in Nat /\ WaitedFor \in Nat /\ Done \in Nat
           /\ Unsignalled \in Idx /\ WaitedFor \in Idx /\ Done \in Idx
<1>1. usedIdx \in Idx /\ signalled \in Idx /\ usedEvent \in Idx /\ lastUsed \in Idx
    BY DEF TypeInv
<1>2. Unsignalled \in Idx /\ WaitedFor \in Idx /\ Done \in Idx
    BY <1>1, MinusIs DEF Unsignalled, WaitedFor, Done
<1> QED
    BY <1>2, SizesFact DEF Idx

LEMMA SignalStart == Init => SignalInv
<1> SUFFICES ASSUME Init PROVE SignalInv
    OBVIOUS
<1>1. Minus(0, 0) = 0
    BY MinusZero, IdxFact
<1>2. Unsignalled = 0 /\ WaitedFor = 0 /\ Done = 0
    BY <1>1 DEF Init, Unsignalled, WaitedFor, Done
<1> QED
    BY <1>2, SizesFact DEF SignalInv

(* DelayedBufs is three quarters of a distance.                            *)
LEMMA DelayedIs ==
    ASSUME TypeInv
    PROVE  DelayedBufs \in Idx
<1>1. Minus(availIdx, lastUsed) \in Idx
    BY MinusIs DEF TypeInv
<1> DEFINE n == Minus(availIdx, lastUsed)
<1>2. n \in 0 .. IdxMod - 1 /\ IdxMod \in Nat
    BY <1>1, SizesFact DEF Idx
<1> HIDE DEF n
<1>3. (n * 3) \div 4 \in 0 .. IdxMod - 1
    BY <1>2
<1> QED
    BY <1>3 DEF DelayedBufs, n, Idx

(* A caller is told that there is nothing left only when there is nothing.   *)
LEMMA NullMeansNone ==
    ASSUME TypeInv, RingInv, GetBufNull, ~ spurious
    PROVE  Done = 0
<1>1. Traced
    BY DEF RingInv, GetBufNull, Ready
<1>2. lastUsed \in Idx /\ usedIdx \in Idx /\ Done \in Nat /\ lastUsed + 0 = lastUsed
    BY SignalTypes, RingTypes DEF TypeInv
<1>3. CASE lastUsed = usedIdx
    BY <1>2, <1>3, MinusZero DEF Done
<1>4. CASE lastUsed # usedIdx
  <2>1. usedRing[lastUsed % Num] \notin HeadsInUse
      BY <1>4 DEF GetBufNull, MoreUsed
  <2>2. UsedAt(0) \notin HeadsInUse
      BY <2>1, <1>2 DEF UsedAt
  <2>3. 0 \notin 0 .. Done - 1
      BY <2>2, <1>1 DEF Traced, Exposed
  <2> QED
      BY <2>3, <1>2
<1> QED
    BY <1>3, <1>4

(* The device's pass over the used ring: whatever it has posted since it     *)
(* signalled last, it does not step over used_event without an interrupt.   *)
LEMMA SignalStep ==
    ASSUME TypeInv, SignalInv, DevSignal
    PROVE  SignalInv'
<1>1. /\ signalled' = usedIdx
      /\ intr' = (intr \/ IF setup.devEvent THEN NeedEvent(usedEvent, usedIdx, signalled)
                                     ELSE ~ noInterrupt)
      /\ UNCHANGED <<usedIdx, usedEvent, lastUsed, devState, polling, noInterrupt, setup,
                     spurious>>
    BY DEF DevSignal, driverVars
<1>2. usedIdx \in Idx /\ signalled \in Idx /\ usedEvent \in Idx /\ lastUsed \in Idx
    BY DEF TypeInv
<1>3. Unsignalled' = 0 /\ WaitedFor' = WaitedFor /\ Done' = Done /\ (Relying' <=> Relying)
    BY <1>1, <1>2, MinusZero DEF Unsignalled, WaitedFor, Done, Relying
<1>4. ASSUME Relying, WaitedFor < Done, ~ intr
      PROVE  intr'
  <2>1. Done - Unsignalled <= WaitedFor
      BY <1>4, SignalTypes DEF SignalInv
  <2>2. Minus(usedIdx, usedEvent) = Done - WaitedFor
      BY <1>2, <1>4, SignalTypes, MinusBetween DEF Done, WaitedFor
  <2>3. Minus(usedIdx, usedEvent) # 0 /\ Minus(usedIdx, usedEvent) <= Unsignalled
      BY <2>1, <2>2, <1>4, SignalTypes
  <2>4. NeedEvent(usedEvent, usedIdx, signalled)
      BY <2>3, <1>2, NeedEventIs DEF Unsignalled
  <2>5. ~ noInterrupt
      BY <1>4 DEF Relying
  <2> QED
      BY <2>4, <2>5, <1>1
<1>5. intr => intr'
    BY <1>1
<1>6. Relying /\ WaitedFor < Done => intr'
    BY <1>4, <1>5
<1>7. Done - 0 = Done /\ 0 <= Num
    BY SignalTypes, SizesFact
<1> QED
    BY <1>3, <1>6, <1>7 DEF SignalInv

(* Posting an entry.                                                       *)
LEMMA PostSignal ==
    ASSUME TypeInv, SignalInv, NEW h, PostUsed(h), ~ spurious' => ~ spurious
    PROVE  SignalInv'
<1>1. /\ setup.polled \/ Unsignalled < Num
      /\ usedIdx' = Plus(usedIdx, 1)
      /\ UNCHANGED <<signalled, usedEvent, lastUsed, devState, polling, noInterrupt, setup, intr>>
    BY DEF PostUsed, driverVars, Unsignalled
<1>2. usedIdx \in Idx /\ signalled \in Idx
    BY DEF TypeInv
<1>3. Done' = Done + 1 /\ WaitedFor' = WaitedFor /\ (Relying' => Relying)
    BY <1>1, PostDone DEF WaitedFor, Relying
<1>4. ASSUME ~ setup.polled
      PROVE  Unsignalled' = Unsignalled + 1 /\ Unsignalled' <= Num
             /\ Done' - Unsignalled' = Done - Unsignalled
  <2>1. Unsignalled < Num /\ Unsignalled \in Nat /\ Done \in Nat
      BY <1>1, <1>4, SignalTypes
  <2>2. Unsignalled < IdxMod - 1
      BY <2>1, SizesFact
  <2>3. Unsignalled' = Unsignalled + 1
      BY <1>1, <1>2, <2>2, WindowGrows DEF Unsignalled
  <2> QED
      BY <2>1, <2>3, <1>3, SizesFact
<1>5. Relying => ~ setup.polled
    BY DEF Relying
<1> QED
    BY <1>1, <1>3, <1>4, <1>5 DEF SignalInv

(* Between the two steps of enable_cb_delayed nobody moves what the delay    *)
(* was computed from: no buffer is being added and the device is not reset.  *)
EnablingInv ==
    /\ enabling = "delayed" => usedEvent = Plus(lastUsed, DelayedBufs)
    /\ adding # NoHead \/ devState = "reset" => enabling = "no"

LEMMA EnablingStart == Init => EnablingInv
    BY DEF Init, EnablingInv

LEMMA EnablingNext ==
    ASSUME TypeInv, EnablingInv, [Next]_vars
    PROVE  EnablingInv'
<1>1. ASSUME enabling' = "no"
      PROVE  EnablingInv'
    BY <1>1 DEF EnablingInv
<1>2. ASSUME UNCHANGED <<enabling, usedEvent, lastUsed, availIdx, adding>>,
             devState' = "reset" => devState = "reset" \/ Ready
      PROVE  EnablingInv'
  <2>1. DelayedBufs' = DelayedBufs
      BY <1>2 DEF DelayedBufs
  <2> QED
      BY <1>2, <2>1 DEF EnablingInv, Ready
<1>3. CASE EnableCb \/ EnableCbDelayed
  <2>1. /\ enabling' # "no" /\ adding' = NoHead /\ devState' # "reset"
        /\ UNCHANGED <<lastUsed, availIdx>>
      BY <1>3 DEF EnableCb, EnableCbDelayed, Ready, deviceVars
  <2>2. DelayedBufs' = DelayedBufs
      BY <2>1 DEF DelayedBufs
  <2>3. enabling' = "delayed" => usedEvent' = Plus(lastUsed, DelayedBufs)
      BY <1>3 DEF EnableCb, EnableCbDelayed
  <2> QED
      BY <2>1, <2>2, <2>3 DEF EnablingInv
<1>4. CASE EnableCbChecks \/ EnableCbDelayedChecks
    BY <1>4, <1>1 DEF EnableCbChecks, EnableCbDelayedChecks
<1>5. CASE GetBuf \/ DisableCb \/ (\E s \in Shapes, t \in Tokens : AddFill(t, s))
    BY <1>5, <1>1 DEF GetBuf, DisableCb, AddFill, Ready
<1>6. CASE AddExpose \/ DetachUnused \/ Shutdown
    BY <1>6, <1>1 DEF AddExpose, DetachUnused, Shutdown, EnablingInv
<1>7. CASE \/ \E s \in Shapes : AddNoSpace(s)
           \/ Kick \/ KickAlways \/ GetBufNull \/ TakeInterrupt
    BY <1>7, <1>2 DEF AddNoSpace, Kick, KickAlways, GetBufNull, TakeInterrupt, driverVars,
       deviceVars
<1>8. CASE DevReset
    BY <1>8, <1>2 DEF DevReset, driverVars
<1>9. CASE DevWake \/ DevFetch \/ DevDoze \/ DevRecheck
    BY <1>9, <1>2 DEF DevWake, DevFetch, DevDoze, DevRecheck, driverVars
<1>10. CASE (\E h \in Slots : DevUse(h)) \/ DevSpurious \/ DevSignal
    BY <1>10, <1>2 DEF DevUse, DevSpurious, PostUsed, DevSignal, driverVars
<1>11. CASE UNCHANGED vars
    BY <1>11, <1>2 DEF vars, driverVars, deviceVars
<1> QED
    BY <1>3, <1>4, <1>5, <1>6, <1>7, <1>8, <1>9, <1>10, <1>11 DEF Next, Driver, Device, Add

LEMMA EnablingKept == Spec => []EnablingInv
<1>1. TypeInv /\ EnablingInv /\ [Next]_vars => EnablingInv'
    BY EnablingNext
<1> QED
    BY <1>1, EnablingStart, Typed, PTL DEF Spec

LEMMA SignalNext ==
    ASSUME TypeInv, RingInv, EnablingInv, SignalInv, [Next]_vars
    PROVE  SignalInv'
<1>a. /\ usedIdx \in Idx /\ signalled \in Idx /\ usedEvent \in Idx /\ lastUsed \in Idx
      /\ Unsignalled \in Nat /\ WaitedFor \in Nat /\ Done \in Nat
    BY SignalTypes DEF TypeInv
<1>1. CASE DevSignal
    BY <1>1, SignalStep
<1>2. ASSUME NEW h \in Slots, DevUse(h)
      PROVE  SignalInv'
    BY <1>2, PostSignal DEF DevUse
<1>3. CASE DevSpurious
    BY <1>3, PostSignal DEF DevSpurious
(* The others leave what is unsignalled alone.                             *)
<1>4. ASSUME UNCHANGED <<usedIdx, signalled, setup>>, ~ Relying'
      PROVE  SignalInv'
    BY <1>4 DEF SignalInv, Unsignalled
<1>5. CASE GetBuf \/ DisableCb \/ EnableCb \/ EnableCbDelayed \/ TakeInterrupt
  <2>1. UNCHANGED <<usedIdx, signalled, setup>> /\ polling'
      BY <1>5 DEF GetBuf, DisableCb, EnableCb, EnableCbDelayed, TakeInterrupt, deviceVars
  <2> QED
      BY <2>1, <1>4 DEF Relying
<1>6. CASE DetachUnused \/ DevReset
  <2>1. UNCHANGED <<usedIdx, signalled, setup>> /\ devState' = "reset"
      BY <1>6 DEF DetachUnused, DevReset, deviceVars
  <2> QED
      BY <2>1, <1>4 DEF Relying
<1>7. ASSUME UNCHANGED <<usedIdx, signalled, setup>>, Done' <= WaitedFor', WaitedFor' \in Int
      PROVE  SignalInv'
  <2>1. Unsignalled' = Unsignalled
      BY <1>7 DEF Unsignalled
  <2>2. Done' \in Int
    <3>1. TypeInv'
        BY TypeNext
    <3>2. Done' \in Nat
      <4>1. usedIdx' \in Idx /\ lastUsed' \in Idx
          BY <3>1 DEF TypeInv
      <4>2. Minus(usedIdx', lastUsed') \in Idx
          BY <4>1, MinusIs
      <4> QED
          BY <4>2, SizesFact DEF Done, Idx
    <3> QED
        BY <3>2
  <2>3. ~ (WaitedFor' < Done' - Unsignalled')
    <3>1. Done' <= WaitedFor' /\ WaitedFor' \in Int
        BY <1>7
    <3> DEFINE w == WaitedFor'
               d == Done'
    <3>2. w \in Int /\ d \in Int /\ d <= w
        BY <3>1, <2>2
    <3> HIDE DEF w, d
    <3>3. ~ (w < d - Unsignalled)
        BY <3>2, <1>a
    <3> QED
        BY <3>3, <2>1 DEF w, d
  <2> QED
      BY <2>1, <2>3, <1>7 DEF SignalInv
<1>8. CASE GetBufNull
  <2>1. UNCHANGED <<usedIdx, signalled, setup, usedEvent, lastUsed, spurious>>
      BY <1>8 DEF GetBufNull, driverVars, deviceVars
  <2>2. WaitedFor' = WaitedFor /\ Done' = Done
      BY <2>1 DEF WaitedFor, Done
  <2>3. CASE spurious
      BY <2>1, <2>3, <1>4 DEF Relying
  <2>4. CASE ~ spurious
    <3>1. Done = 0
        BY <2>4, <1>8, NullMeansNone
    <3> QED
        BY <3>1, <2>1, <2>2, <1>a, <1>7
  <2> QED
      BY <2>3, <2>4
<1>9. CASE EnableCbChecks
  <2>1. UNCHANGED <<usedIdx, signalled, setup, lastUsed, usedEvent>>
        /\ polling' = (lastUsed # usedIdx)
      BY <1>9 DEF EnableCbChecks, driverVars, deviceVars, MoreUsed
  <2>2. CASE polling'
      BY <2>1, <2>2, <1>4 DEF Relying
  <2>3. CASE ~ polling'
    <3>1. Done' = 0 /\ WaitedFor' = WaitedFor
        BY <2>1, <2>3, <1>a, MinusZero DEF Done, WaitedFor
    <3>2. WaitedFor \in Int /\ 0 <= WaitedFor
        BY <1>a
    <3> QED
        BY <3>1, <3>2, <2>1, <1>7
  <2> QED
      BY <2>2, <2>3
<1>10. CASE EnableCbDelayedChecks
  <2>1. UNCHANGED <<usedIdx, signalled, setup, lastUsed>>
        /\ usedEvent' = Plus(lastUsed, DelayedBufs) /\ polling' = (Done > DelayedBufs)
      BY <1>10 DEF EnableCbDelayedChecks, EnablingInv, driverVars, deviceVars, Done
  <2>2. CASE polling'
      BY <2>1, <2>2, <1>4 DEF Relying
  <2>3. CASE ~ polling'
    <3>1. DelayedBufs \in Idx /\ DelayedBufs \in Int
        BY DelayedIs, SizesFact DEF Idx
    <3>2. Done' = Done /\ WaitedFor' = DelayedBufs
        BY <2>1, <3>1, <1>a, MinusPlus DEF Done, WaitedFor
    <3>3. Done <= DelayedBufs
      <4>1. ~ (Done > DelayedBufs)
          BY <2>1, <2>3
      <4> QED
          BY <4>1, <3>1, <1>a
    <3> QED
        BY <3>1, <3>2, <3>3, <2>1, <1>7
  <2> QED
      BY <2>2, <2>3
<1>11. CASE Shutdown
  <2>1. Minus(0, 0) = 0
      BY MinusZero, IdxFact
  <2>2. Unsignalled' = 0 /\ WaitedFor' = 0 /\ Done' = 0
      BY <2>1, <1>11 DEF Shutdown, Unsignalled, WaitedFor, Done
  <2> QED
      BY <2>2, SizesFact DEF SignalInv
<1>12. CASE /\ UNCHANGED <<usedIdx, signalled, setup, usedEvent, lastUsed, polling, noInterrupt,
                           intr, spurious>>
            /\ devState' # "reset" => devState # "reset"
  <2>1. Unsignalled' = Unsignalled /\ WaitedFor' = WaitedFor /\ Done' = Done
        /\ (Relying' => Relying)
      BY <1>12 DEF Unsignalled, WaitedFor, Done, Relying
  <2> QED
      BY <2>1, <1>12 DEF SignalInv
<1>13. CASE \/ \E s \in Shapes : AddNoSpace(s) \/ \E t \in Tokens : AddFill(t, s)
            \/ AddExpose \/ Kick \/ KickAlways
  <2>1. UNCHANGED <<usedIdx, signalled, setup, usedEvent, lastUsed, polling, noInterrupt,
                    intr, spurious, devState>>
      BY <1>13 DEF AddNoSpace, AddFill, AddExpose, Kick, KickAlways, driverVars, deviceVars
  <2> QED
      BY <2>1, <1>12
<1>14. CASE DevWake \/ DevFetch \/ DevDoze \/ DevRecheck
  <2>1. UNCHANGED <<usedIdx, signalled, setup, usedEvent, lastUsed, polling, noInterrupt,
                    intr, spurious>>
      BY <1>14 DEF DevWake, DevFetch, DevDoze, DevRecheck, driverVars
  <2>2. devState # "reset"
      BY <1>14 DEF DevWake, DevFetch, DevDoze, DevRecheck
  <2> QED
      BY <2>1, <2>2, <1>12
<1>15. CASE UNCHANGED vars
    BY <1>12, <1>15 DEF vars, driverVars, deviceVars
<1> QED
    BY <1>1, <1>2, <1>3, <1>5, <1>6, <1>8, <1>9, <1>10, <1>11, <1>13, <1>14, <1>15
       DEF Next, Driver, Device, Add

LEMMA SignalKept == Spec => []SignalInv
<1>1. SignalInv /\ EnablingInv /\ RingInv /\ TypeInv /\ [Next]_vars => SignalInv'
    BY SignalNext
<1> QED
    BY <1>1, SignalStart, EnablingKept, RingsKept, Typed, PTL DEF Spec

(* used_event, the re-check in enable_cb and enable_cb_delayed, and the      *)
(* device's need_event test never lose an interrupt.  It is claimed of a     *)
(* device that returns only heads it was given: after another id get_buf     *)
(* answers BAD_RING as it answers that there is nothing.                    *)
THEOREM InterruptsCorrect == Spec => [](~ spurious => NoLostInterrupt)
<1>1. TypeInv /\ SignalInv => (~ spurious => NoLostInterrupt)
  <2> SUFFICES ASSUME TypeInv, SignalInv, ~ spurious, ~ polling, ~ noInterrupt,
                      signalled = usedIdx, devState # "reset", ~ setup.polled,
                      Minus(usedIdx, lastUsed) > Minus(usedEvent, lastUsed)
               PROVE  intr
      BY DEF NoLostInterrupt
  <2>1. Unsignalled = 0
      BY MinusZero DEF Unsignalled, TypeInv
  <2>2. WaitedFor < Done - Unsignalled
      BY <2>1, SignalTypes DEF WaitedFor, Done
  <2> QED
      BY <2>2 DEF SignalInv, Relying
<1> QED
    BY <1>1, SignalKept, Typed, PTL

-----------------------------------------------------------------------------
(* The refinement.  Tokens are taken out of sequences in two places, and both *)
(* are the last value of a function of the prefix's length.                 *)
Cookies == Tokens \cup {NoToken}

Kept(f, n, w, no) ==
    /\ f \in [0 .. n -> Seq(Cookies)]
    /\ f[0] = <<>>
    /\ \A k \in 1 .. n : f[k] = IF w[k] = no THEN f[k - 1] ELSE Append(f[k - 1], w[k])

LEMMA KeptExists ==
    ASSUME NEW n \in Nat, NEW w, \A k \in 1 .. n : w[k] \in Cookies, NEW no
    PROVE  \E f : Kept(f, n, w, no)
<1> DEFINE T == {m \in 0 .. n : \E f : Kept(f, m, w, no)}
<1>1. 0 \in T
  <2> DEFINE f == [k \in 0 .. 0 |-> <<>>]
  <2>1. <<>> \in Seq(Cookies)
      BY EmptySeq
  <2>2. f \in [0 .. 0 -> Seq(Cookies)] /\ f[0] = <<>>
        /\ \A k \in 1 .. 0 : f[k] = IF w[k] = no THEN f[k - 1] ELSE Append(f[k - 1], w[k])
      BY <2>1
  <2>3. Kept(f, 0, w, no)
    <3> HIDE DEF f
    <3> QED
        BY <2>2 DEF Kept
  <2> QED
      BY <2>3
<1>2. ASSUME NEW m \in 0 .. n - 1, m \in T
      PROVE  m + 1 \in T
  <2>1. PICK f : Kept(f, m, w, no)
      BY <1>2
  <2> DEFINE next == IF w[m + 1] = no THEN f[m] ELSE Append(f[m], w[m + 1])
             g == [k \in 0 .. m + 1 |-> IF k = m + 1 THEN next ELSE f[k]]
  <2>2. m \in Nat /\ m + 1 \in 1 .. n /\ m + 1 \in 0 .. n
      OBVIOUS
  <2>3. next \in Seq(Cookies)
    <3>1. f[m] \in Seq(Cookies) /\ w[m + 1] \in Cookies
        BY <2>1, <2>2 DEF Kept
    <3>2. Append(f[m], w[m + 1]) \in Seq(Cookies)
        BY <3>1, AppendProperties
    <3> QED
        BY <3>1, <3>2
  <2>4. g \in [0 .. m + 1 -> Seq(Cookies)]
    <3>1. \A k \in 0 .. m + 1 : k # m + 1 => k \in 0 .. m
        BY <2>2
    <3> HIDE DEF next
    <3> QED
        BY <3>1, <2>1, <2>3 DEF Kept
  <2>5. g[0] = <<>>
      BY <2>1, <2>2 DEF Kept
  <2>6. ASSUME NEW k \in 1 .. m + 1
        PROVE  g[k] = IF w[k] = no THEN g[k - 1] ELSE Append(g[k - 1], w[k])
    <3>1. CASE k = m + 1
      <4>1. k - 1 = m /\ m # m + 1 /\ m \in 0 .. m + 1 /\ k \in 0 .. m + 1
          BY <3>1, <2>2
      <4> QED
          BY <4>1, <3>1
    <3>2. CASE k # m + 1
      <4>1. k \in 1 .. m /\ k - 1 # m + 1 /\ k - 1 \in 0 .. m + 1 /\ k \in 0 .. m + 1
          BY <3>2, <2>2
      <4>2. g[k] = f[k] /\ g[k - 1] = f[k - 1]
          BY <4>1, <3>2
      <4> QED
          BY <4>1, <4>2, <2>1 DEF Kept
    <3> QED
        BY <3>1, <3>2
  <2>7. Kept(g, m + 1, w, no)
    <3> HIDE DEF g
    <3> QED
        BY <2>4, <2>5, <2>6 DEF Kept
  <2> QED
      BY <2>2, <2>7
<1>3. n \in T
  <2> HIDE DEF T
  <2>1. 0 .. n \subseteq T
      BY <1>1, <1>2, UpTo
  <2> QED
      BY <2>1
<1> QED
    BY <1>3

(* The values of a function that was defined by recursion.                  *)
LEMMA KeptIs ==
    ASSUME NEW n \in Nat, NEW w, \A k \in 1 .. n : w[k] \in Cookies, NEW no,
           NEW g, g = [k \in 0 .. n |-> IF k = 0 THEN <<>>
                                        ELSE IF w[k] = no THEN g[k - 1]
                                             ELSE Append(g[k - 1], w[k])]
    PROVE  Kept(g, n, w, no)
<1>1. \A k \in 0 .. n : g[k] = IF k = 0 THEN <<>>
                               ELSE IF w[k] = no THEN g[k - 1] ELSE Append(g[k - 1], w[k])
    OBVIOUS
<1>2. g[0] = <<>>
      /\ \A k \in 1 .. n : g[k] = IF w[k] = no THEN g[k - 1] ELSE Append(g[k - 1], w[k])
  <2>1. 0 \in 0 .. n /\ \A k \in 1 .. n : k \in 0 .. n /\ k # 0
      OBVIOUS
  <2> QED
      BY <2>1, <1>1
<1> DEFINE T == {k \in 0 .. n : g[k] \in Seq(Cookies)}
<1>3. 0 \in T
    BY <1>2, EmptySeq
<1>4. ASSUME NEW k \in 0 .. n - 1, k \in T
      PROVE  k + 1 \in T
  <2>1. k + 1 \in 1 .. n /\ (k + 1) - 1 = k /\ k + 1 \in 0 .. n
      OBVIOUS
  <2>2. g[k + 1] = IF w[k + 1] = no THEN g[k] ELSE Append(g[k], w[k + 1])
      BY <2>1, <1>2
  <2>3. g[k] \in Seq(Cookies) /\ w[k + 1] \in Cookies
      BY <2>1, <1>4
  <2>4. Append(g[k], w[k + 1]) \in Seq(Cookies)
      BY <2>3, AppendProperties
  <2> QED
      BY <2>1, <2>2, <2>3, <2>4
<1>5. 0 .. n \subseteq T
  <2> HIDE DEF T
  <2> QED
      BY <1>3, <1>4, UpTo
<1>6. DOMAIN g = 0 .. n /\ g = [k \in 0 .. n |-> g[k]]
    OBVIOUS
<1>7. g \in [0 .. n -> Seq(Cookies)]
  <2>1. \A k \in 0 .. n : g[k] \in Seq(Cookies)
      BY <1>5
  <2> QED
      BY <2>1, <1>6
<1> QED
    BY <1>2, <1>7 DEF Kept

(* Where nothing is taken out, all is there.                               *)
LEMMA KeptAll ==
    ASSUME NEW n \in Nat, NEW w, NEW no, NEW f, Kept(f, n, w, no),
           \A k \in 1 .. n : w[k] \in Cookies /\ w[k] # no
    PROVE  f[n] \in Seq(Cookies) /\ Len(f[n]) = n /\ \A i \in 1 .. n : f[n][i] = w[i]
<1> DEFINE T == {k \in 0 .. n : Len(f[k]) = k /\ \A i \in 1 .. k : f[k][i] = w[i]}
<1>1. 0 \in T
    BY DEF Kept
<1>2. ASSUME NEW k \in 0 .. n - 1, k \in T
      PROVE  k + 1 \in T
  <2>1. k + 1 \in 1 .. n /\ (k + 1) - 1 = k /\ k + 1 \in 0 .. n /\ k \in Nat
        /\ \A i \in 1 .. k + 1 : i \in 1 .. k \/ i = k + 1
      OBVIOUS
  <2>2. f[k + 1] = Append(f[k], w[k + 1])
      BY <2>1 DEF Kept
  <2>3. f[k] \in Seq(Cookies) /\ w[k + 1] \in Cookies
        /\ Len(f[k]) = k /\ \A i \in 1 .. k : f[k][i] = w[i]
      BY <2>1, <1>2 DEF Kept
  <2>4. /\ Len(f[k + 1]) = k + 1 /\ f[k + 1][k + 1] = w[k + 1]
        /\ \A i \in 1 .. k : f[k + 1][i] = f[k][i]
      BY <2>2, <2>3, AppendProperties
  <2>5. ASSUME NEW i \in 1 .. k + 1
        PROVE  f[k + 1][i] = w[i]
    <3>1. CASE i \in 1 .. k
        BY <3>1, <2>3, <2>4
    <3>2. CASE i = k + 1
        BY <3>2, <2>4
    <3> QED
        BY <3>1, <3>2, <2>1
  <2> QED
      BY <2>1, <2>4, <2>5
<1>3. 0 .. n \subseteq T
  <2> HIDE DEF T
  <2> QED
      BY <1>1, <1>2, UpTo
<1>4. n \in 0 .. n /\ f[n] \in Seq(Cookies)
    BY DEF Kept
<1> QED
    BY <1>3, <1>4

(* What is not taken out is there.                                         *)
LEMMA KeptHolds ==
    ASSUME NEW n \in Nat, NEW w, NEW no, NEW f, Kept(f, n, w, no),
           \A k \in 1 .. n : w[k] \in Cookies, NEW j \in 1 .. n, w[j] # no
    PROVE  \E i \in 1 .. Len(f[n]) : f[n][i] = w[j]
<1> DEFINE T == {k \in 0 .. n : j <= k => \E i \in 1 .. Len(f[k]) : f[k][i] = w[j]}
<1>1. 0 \in T
    OBVIOUS
<1>2. ASSUME NEW k \in 0 .. n - 1, k \in T
      PROVE  k + 1 \in T
  <2>1. k + 1 \in 1 .. n /\ (k + 1) - 1 = k /\ k + 1 \in 0 .. n /\ k \in 0 .. n
      OBVIOUS
  <2>2. f[k + 1] = IF w[k + 1] = no THEN f[k] ELSE Append(f[k], w[k + 1])
      BY <2>1 DEF Kept
  <2>3. f[k] \in Seq(Cookies) /\ w[k + 1] \in Cookies
      BY <2>1 DEF Kept
  <2>4. CASE w[k + 1] = no
    <3>1. j # k + 1 /\ f[k + 1] = f[k]
        BY <2>2, <2>4
    <3>2. j <= k + 1 => j <= k
        BY <3>1
    <3> QED
        BY <3>1, <3>2, <2>1, <1>2
  <2>5. CASE w[k + 1] # no
    <3>1. f[k + 1] = Append(f[k], w[k + 1]) /\ Len(f[k]) \in Nat
        BY <2>2, <2>3, <2>5, LenProperties
    <3>2. Len(f[k + 1]) = Len(f[k]) + 1 /\ f[k + 1][Len(f[k]) + 1] = w[k + 1]
          /\ \A i \in 1 .. Len(f[k]) : f[k + 1][i] = f[k][i]
        BY <3>1, <2>3, AppendProperties
    <3>3. CASE j = k + 1
      <4>1. Len(f[k]) + 1 \in 1 .. Len(f[k + 1])
          BY <3>1, <3>2
      <4> QED
          BY <4>1, <3>2, <3>3, <2>1
    <3>4. CASE j <= k
      <4>1. PICK i \in 1 .. Len(f[k]) : f[k][i] = w[j]
          BY <3>4, <1>2
      <4>2. i \in 1 .. Len(f[k + 1])
          BY <3>1, <3>2
      <4> QED
          BY <4>1, <4>2, <3>2, <2>1
    <3>5. j <= k + 1 => j = k + 1 \/ j <= k
        OBVIOUS
    <3> QED
        BY <3>3, <3>4, <3>5, <2>1
  <2> QED
      BY <2>4, <2>5
<1>3. n \in 0 .. n /\ 0 .. n \subseteq T
  <2> HIDE DEF T
  <2> QED
      BY <1>1, <1>2, UpTo
<1> QED
    BY <1>3

(* Two functions with the same values step by step.                        *)
LEMMA KeptSame ==
    ASSUME NEW m \in Nat, NEW n \in Nat, NEW v, NEW w, NEW no, NEW f, NEW g,
           Kept(f, m, v, no), Kept(g, n, w, no), m <= n, \A k \in 1 .. m : v[k] = w[k]
    PROVE  f[m] = g[m]
<1> DEFINE T == {k \in 0 .. m : f[k] = g[k]}
<1>1. 0 \in T
    BY DEF Kept
<1>2. ASSUME NEW k \in 0 .. m - 1, k \in T
      PROVE  k + 1 \in T
  <2>1. k + 1 \in 1 .. m /\ (k + 1) - 1 = k /\ k + 1 \in 0 .. m /\ k + 1 \in 1 .. n
      OBVIOUS
  <2>2. f[k + 1] = IF v[k + 1] = no THEN f[k] ELSE Append(f[k], v[k + 1])
      BY <2>1 DEF Kept
  <2>3. g[k + 1] = IF w[k + 1] = no THEN g[k] ELSE Append(g[k], w[k + 1])
      BY <2>1 DEF Kept
  <2> QED
      BY <2>1, <2>2, <2>3, <1>2
<1>3. m \in 0 .. m /\ 0 .. m \subseteq T
  <2> HIDE DEF T
  <2> QED
      BY <1>1, <1>2, UpTo
<1> QED
    BY <1>3

(* Without(s, t) of VirtQueueSpec.                                         *)
LEMMA WithoutIs ==
    ASSUME NEW s \in Seq(Cookies), NEW t
    PROVE  \E f : Kept(f, Len(s), s, t) /\ Queue!Without(s, t) = f[Len(s)]
<1> DEFINE Is(g) == g = [i \in 0 .. Len(s) |->
                           IF i = 0 THEN <<>>
                           ELSE IF s[i] = t THEN g[i - 1] ELSE Append(g[i - 1], s[i])]
           h == CHOOSE g : Is(g)
<1>1. Len(s) \in Nat /\ \A k \in 1 .. Len(s) : s[k] \in Cookies
    BY LenProperties, ElementOfSeq
<1>2. PICK f : Kept(f, Len(s), s, t)
    BY <1>1, KeptExists
<1>3. Is(f)
  <2>1. ASSUME NEW k \in 0 .. Len(s)
        PROVE  f[k] = IF k = 0 THEN <<>>
                      ELSE IF s[k] = t THEN f[k - 1] ELSE Append(f[k - 1], s[k])
    <3>1. k # 0 => k \in 1 .. Len(s)
        BY <1>1
    <3> QED
        BY <3>1, <1>2 DEF Kept
  <2> QED
      BY <2>1, <1>2 DEF Kept
<1>4. Queue!Without(s, t) = h[Len(s)]
    BY DEF Queue!Without
<1>5. Is(h)
  <2> HIDE DEF Is
  <2> QED
      BY <1>3
<1> HIDE DEF h
<1>6. Kept(h, Len(s), s, t)
    BY <1>1, <1>5, KeptIs
<1> QED
    BY <1>4, <1>6

LEMMA WithoutEmpty ==
    ASSUME NEW t
    PROVE  Queue!Without(<<>>, t) = <<>>
<1>1. <<>> \in Seq(Cookies) /\ Len(<<>>) = 0
    BY EmptySeq
<1>2. PICK f : Kept(f, Len(<<>>), <<>>, t) /\ Queue!Without(<<>>, t) = f[Len(<<>>)]
    BY <1>1, WithoutIs
<1> QED
    BY <1>1, <1>2 DEF Kept

LEMMA WithoutAppend ==
    ASSUME NEW s \in Seq(Cookies), NEW e \in Cookies, NEW t
    PROVE  Queue!Without(Append(s, e), t)
             = IF e = t THEN Queue!Without(s, t) ELSE Append(Queue!Without(s, t), e)
<1> DEFINE n == Len(s)
           u == Append(s, e)
<1>1. n \in Nat /\ u \in Seq(Cookies) /\ Len(u) = n + 1 /\ u[n + 1] = e
      /\ \A k \in 1 .. n : u[k] = s[k]
    BY AppendProperties, LenProperties
<1>2. PICK f : Kept(f, n, s, t) /\ Queue!Without(s, t) = f[n]
    BY WithoutIs
<1>3. PICK g : Kept(g, n + 1, u, t) /\ Queue!Without(u, t) = g[n + 1]
    BY <1>1, WithoutIs
<1> HIDE DEF n, u
<1>4. f[n] = g[n]
  <2>1. n <= n + 1 /\ n + 1 \in Nat
      BY <1>1
  <2> QED
      BY <2>1, <1>1, <1>2, <1>3, KeptSame
<1>5. g[n + 1] = IF e = t THEN g[n] ELSE Append(g[n], e)
  <2>1. n + 1 \in 1 .. n + 1 /\ (n + 1) - 1 = n
      BY <1>1
  <2> QED
      BY <2>1, <1>1, <1>3 DEF Kept
<1> QED
    BY <1>2, <1>3, <1>4, <1>5 DEF u

(* A token that is blanked before what is blank is taken out, is taken out    *)
(* afterwards.                                                             *)
LEMMA KeptWithout ==
    ASSUME NEW n \in Nat, NEW v, NEW w, NEW no, NEW t, t # no, NEW f, NEW g,
           Kept(f, n, v, no), Kept(g, n, w, no), \A k \in 1 .. n : v[k] \in Cookies,
           \A k \in 1 .. n : w[k] = IF v[k] = t THEN no ELSE v[k]
    PROVE  g[n] = Queue!Without(f[n], t)
<1> DEFINE T == {k \in 0 .. n : g[k] = Queue!Without(f[k], t)}
<1>1. 0 \in T
    BY WithoutEmpty DEF Kept
<1>2. ASSUME NEW k \in 0 .. n - 1, k \in T
      PROVE  k + 1 \in T
  <2>1. k + 1 \in 1 .. n /\ (k + 1) - 1 = k /\ k + 1 \in 0 .. n /\ k \in 0 .. n
      OBVIOUS
  <2>2. f[k + 1] = IF v[k + 1] = no THEN f[k] ELSE Append(f[k], v[k + 1])
      BY <2>1 DEF Kept
  <2>3. g[k + 1] = IF w[k + 1] = no THEN g[k] ELSE Append(g[k], w[k + 1])
      BY <2>1 DEF Kept
  <2>4. f[k] \in Seq(Cookies) /\ v[k + 1] \in Cookies /\ g[k] = Queue!Without(f[k], t)
        /\ w[k + 1] = IF v[k + 1] = t THEN no ELSE v[k + 1]
      BY <2>1, <1>2 DEF Kept
  <2>5. Queue!Without(Append(f[k], v[k + 1]), t)
          = IF v[k + 1] = t THEN Queue!Without(f[k], t)
                            ELSE Append(Queue!Without(f[k], t), v[k + 1])
    <3>1. PICK s, e : s = f[k] /\ e = v[k + 1]
        OBVIOUS
    <3>2. s \in Seq(Cookies) /\ e \in Cookies
        BY <3>1, <2>4
    <3>3. Queue!Without(Append(s, e), t)
            = IF e = t THEN Queue!Without(s, t) ELSE Append(Queue!Without(s, t), e)
        BY <3>2, WithoutAppend
    <3> QED
        BY <3>1, <3>3
  <2>6. g[k + 1] = Queue!Without(f[k + 1], t)
    <3>1. CASE v[k + 1] = no
        BY <3>1, <2>2, <2>3, <2>4
    <3>2. CASE v[k + 1] = t
        BY <3>2, <2>2, <2>3, <2>4, <2>5
    <3>3. CASE v[k + 1] # no /\ v[k + 1] # t
        BY <3>3, <2>2, <2>3, <2>4, <2>5
    <3> QED
        BY <3>1, <3>2, <3>3
  <2> QED
      BY <2>1, <2>6
<1>3. n \in 0 .. n /\ 0 .. n \subseteq T
  <2> HIDE DEF T
  <2> QED
      BY <1>1, <1>2, UpTo
<1> QED
    BY <1>3

-----------------------------------------------------------------------------
(* The queue in the terms of VirtQueueSpec.  A device that returns only heads *)
(* it was given leaves used entries that are descriptors; a token is at one   *)
(* head, since add_buf is not called with a token that is in the queue.      *)
Plain ==
    /\ ~ setup.faulty /\ ~ spurious
    /\ usedRing \in [Slots -> Slots]
    /\ \A g, h \in HeadsInUse : data[g] = data[h] => g = h

LEMMA PlainStart == Init /\ ~ setup.faulty => Plain
<1> SUFFICES ASSUME Init, ~ setup.faulty PROVE Plain
    OBVIOUS
<1>1. HeadsInUse = {}
    BY DEF Init, Every, HeadsInUse
<1> QED
    BY <1>1, Fresh DEF Init, Plain

(* A head that is given back leaves the others with their tokens.            *)
LEMMA DetachTokens ==
    ASSUME TypeInv, NEW h \in HeadsInUse, DetachBuf(h)
    PROVE  /\ HeadsInUse' = HeadsInUse \ {h} /\ h \in Slots
           /\ \A g \in Slots : data'[g] = IF g = h THEN NoToken ELSE data[g]
<1>1. data' = [data EXCEPT ![h] = NoToken] /\ h \in Slots
    BY DEF DetachBuf, HeadsInUse
<1>2. \A g \in Slots : data'[g] = IF g = h THEN NoToken ELSE data[g]
    BY <1>1 DEF TypeInv
<1> QED
    BY <1>1, <1>2 DEF HeadsInUse

LEMMA AddTokens ==
    ASSUME TypeInv, NEW s \in Shapes, NEW t \in Tokens, AddFill(t, s)
    PROVE  /\ HeadsInUse' = HeadsInUse \cup {freeHead} /\ freeHead \in Slots
           /\ \A g \in Slots : data'[g] = IF g = freeHead THEN t ELSE data[g]
           /\ \A g \in Slots : data[g] # t
<1>1. data' = [data EXCEPT ![freeHead] = t] /\ freeHead \in Slots /\ t # NoToken
    BY TokenAssumption DEF AddFill, TypeInv
<1>2. \A g \in Slots : data'[g] = IF g = freeHead THEN t ELSE data[g]
    BY <1>1 DEF TypeInv
<1>3. \A g \in Slots : data[g] # t
    BY DEF AddFill
<1> QED
    BY <1>1, <1>2, <1>3 DEF HeadsInUse

LEMMA PlainNext ==
    ASSUME TypeInv, Plain, [Next]_vars
    PROVE  Plain'
<1>1. ASSUME NEW s \in Shapes, NEW t \in Tokens, AddFill(t, s)
      PROVE  Plain'
  <2>1. UNCHANGED <<setup, spurious, usedRing>>
      BY <1>1 DEF AddFill, deviceVars
  <2>2. /\ HeadsInUse' = HeadsInUse \cup {freeHead} /\ freeHead \in Slots
        /\ \A g \in Slots : data'[g] = IF g = freeHead THEN t ELSE data[g]
        /\ \A g \in Slots : data[g] # t
      BY <1>1, AddTokens
  <2>3. \A g \in HeadsInUse : g \in Slots
      BY DEF HeadsInUse
  <2> QED
      BY <2>1, <2>2, <2>3 DEF Plain
<1>2. ASSUME NEW h \in HeadsInUse, DetachBuf(h), UNCHANGED <<setup, spurious, usedRing>>
      PROVE  Plain'
  <2>1. /\ HeadsInUse' = HeadsInUse \ {h}
        /\ \A g \in Slots : data'[g] = IF g = h THEN NoToken ELSE data[g]
      BY <1>2, DetachTokens
  <2>2. \A g \in HeadsInUse : g \in Slots
      BY DEF HeadsInUse
  <2> QED
      BY <1>2, <2>1, <2>2 DEF Plain
<1>3. CASE GetBuf
    BY <1>2, <1>3 DEF GetBuf, deviceVars
<1>4. CASE DetachUnused
    BY <1>2, <1>4 DEF DetachUnused, deviceVars
<1>5. ASSUME NEW h \in Slots, DevUse(h)
      PROVE  Plain'
  <2>1. usedRing' = [usedRing EXCEPT ![usedIdx % Num] = h] /\ UNCHANGED <<setup, spurious, data>>
      BY <1>5 DEF DevUse, PostUsed, tableVars
  <2>2. HeadsInUse' = HeadsInUse
      BY <2>1 DEF HeadsInUse
  <2> QED
      BY <2>1, <2>2 DEF Plain
<1>6. CASE DevSpurious
    BY <1>6 DEF DevSpurious, Plain
<1>7. CASE Shutdown
  <2>1. data' = Every(NoToken) /\ usedRing' = Every(0) /\ UNCHANGED <<setup, spurious>>
      BY <1>7 DEF Shutdown
  <2>2. HeadsInUse' = {}
      BY <2>1 DEF HeadsInUse, Every
  <2> QED
      BY <2>1, <2>2, Fresh DEF Plain
<1>8. CASE UNCHANGED <<setup, spurious, usedRing, data>>
  <2>1. HeadsInUse' = HeadsInUse
      BY <1>8 DEF HeadsInUse
  <2> QED
      BY <1>8, <2>1 DEF Plain
<1>9. CASE \/ \E s \in Shapes : AddNoSpace(s)
           \/ AddExpose \/ Kick \/ KickAlways \/ GetBufNull \/ DisableCb
           \/ EnableCb \/ EnableCbChecks \/ EnableCbDelayed \/ EnableCbDelayedChecks
           \/ TakeInterrupt
  <2>1. UNCHANGED <<setup, spurious, usedRing, data>>
      BY <1>9 DEF AddNoSpace, AddExpose, Kick, KickAlways, GetBufNull, DisableCb, EnableCb,
         EnableCbChecks, EnableCbDelayed, EnableCbDelayedChecks, TakeInterrupt, tableVars,
         deviceVars
  <2> QED
      BY <2>1, <1>8
<1>10. CASE DevWake \/ DevFetch \/ DevDoze \/ DevRecheck \/ DevSignal \/ DevReset
  <2>1. UNCHANGED <<setup, spurious, usedRing, data>>
      BY <1>10 DEF DevWake, DevFetch, DevDoze, DevRecheck, DevSignal, DevReset, tableVars
  <2> QED
      BY <2>1, <1>8
<1>11. CASE UNCHANGED vars
    BY <1>8, <1>11 DEF vars, tableVars, deviceVars
<1> QED
    BY <1>1, <1>3, <1>4, <1>5, <1>6, <1>7, <1>9, <1>10, <1>11 DEF Next, Driver, Device, Add

(* The tokens of the used entries, and what is left of them.                *)
Window == [k \in 1 .. Done |-> data[UsedAt(k - 1)]]
UsedFact == \E f : Kept(f, Done, Window, NoToken) /\ UsedTokens = f[Done]

LEMMA WindowTypes ==
    ASSUME TypeInv, Plain
    PROVE  /\ \A k \in 1 .. Done : UsedAt(k - 1) \in Slots /\ Window[k] = data[UsedAt(k - 1)]
                                   /\ Window[k] \in Cookies
           /\ Done \in Nat
<1>1. Done \in Nat
    BY RingTypes
<1>2. ASSUME NEW k \in 1 .. Done
      PROVE  UsedAt(k - 1) \in Slots
  <2>1. k - 1 \in Int
      BY <1>1
  <2>2. (lastUsed + (k - 1)) % Num \in Slots
      BY <2>1, RingTypes
  <2> QED
      BY <2>2 DEF UsedAt, Plain
<1>3. \A k \in 1 .. Done : Window[k] = data[UsedAt(k - 1)]
    BY DEF Window
<1> QED
    BY <1>1, <1>2, <1>3 DEF TypeInv, Cookies

LEMMA UsedIs == TypeInv /\ Plain => UsedFact
<1> SUFFICES ASSUME TypeInv, Plain PROVE UsedFact
    OBVIOUS
<1> DEFINE Is(g) == g = [k \in 0 .. Done |->
                           IF k = 0 THEN <<>>
                           ELSE LET t == data[UsedAt(k - 1)]
                                IN  IF t = NoToken THEN g[k - 1] ELSE Append(g[k - 1], t)]
           h == CHOOSE g : Is(g)
<1>1. Done \in Nat /\ \A k \in 1 .. Done : Window[k] \in Cookies
    BY WindowTypes
<1>w. \A k \in 1 .. Done : Window[k] = data[UsedAt(k - 1)]
    BY WindowTypes
<1>2. PICK f : Kept(f, Done, Window, NoToken)
    BY <1>1, KeptExists
<1>3. Is(f)
  <2>1. ASSUME NEW k \in 0 .. Done
        PROVE  f[k] = IF k = 0 THEN <<>>
                      ELSE IF data[UsedAt(k - 1)] = NoToken THEN f[k - 1]
                           ELSE Append(f[k - 1], data[UsedAt(k - 1)])
    <3>1. k # 0 => k \in 1 .. Done
        BY <1>1
    <3> QED
        BY <3>1, <1>2, <1>w DEF Kept
  <2> QED
      BY <2>1, <1>2 DEF Kept
<1>4. UsedTokens = h[Done]
    BY DEF UsedTokens, UsedAt, Done
<1>5. Is(h)
  <2> HIDE DEF Is
  <2> QED
      BY <1>3
<1> HIDE DEF h
<1>6. h = [k \in 0 .. Done |-> IF k = 0 THEN <<>>
                               ELSE IF Window[k] = NoToken THEN h[k - 1]
                                    ELSE Append(h[k - 1], Window[k])]
  <2>1. \A k \in 0 .. Done : k # 0 => Window[k] = data[UsedAt(k - 1)]
      BY <1>1, <1>w
  <2> QED
      BY <1>5, <2>1
<1>7. Kept(h, Done, Window, NoToken)
    BY <1>1, <1>6, KeptIs
<1> QED
    BY <1>4, <1>7 DEF UsedFact

(* Until the device is reset, the used entries are heads in use.             *)
LinedUp ==
    /\ UsedTokens \in Seq(Cookies) /\ Len(UsedTokens) = Done
    /\ \A k \in 1 .. Done : UsedTokens[k] = data[UsedAt(k - 1)] /\ UsedAt(k - 1) \in HeadsInUse

LEMMA LinesUp == TypeInv /\ Plain /\ Traced => LinedUp
<1> SUFFICES ASSUME TypeInv, Plain, Traced PROVE LinedUp
    OBVIOUS
<1>1. PICK f : Kept(f, Done, Window, NoToken) /\ UsedTokens = f[Done]
    BY UsedIs DEF UsedFact
<1>2. Done \in Nat
      /\ \A k \in 1 .. Done : Window[k] = data[UsedAt(k - 1)] /\ Window[k] \in Cookies
    BY WindowTypes
<1>3. \A k \in 1 .. Done : UsedAt(k - 1) \in HeadsInUse /\ data[UsedAt(k - 1)] # NoToken
  <2>1. \A k \in 1 .. Done : k - 1 \in 0 .. Done - 1
      BY <1>2
  <2> QED
      BY <2>1 DEF Traced, Exposed, HeadsInUse
<1>4. \A k \in 1 .. Done : Window[k] \in Cookies /\ Window[k] # NoToken
    BY <1>2, <1>3
<1>5. f[Done] \in Seq(Cookies) /\ Len(f[Done]) = Done
      /\ \A i \in 1 .. Done : f[Done][i] = Window[i]
    BY <1>1, <1>2, <1>4, KeptAll
<1> QED
    BY <1>1, <1>2, <1>3, <1>5 DEF LinedUp

(* What a token costs.                                                     *)
Costs == [t \in Tokens |->
            IF \E h \in Slots : data[h] = t
            THEN Cardinality(ChainSlots(CHOOSE h \in Slots : data[h] = t))
            ELSE 0]

CostFact ==
    /\ \A h \in HeadsInUse : data[h] \in Tokens /\ Costs[data[h]] = Size(h)
    /\ \A t \in Tokens : (\A h \in Slots : data[h] # t) => Costs[t] = 0

LEMMA CostIs == TypeInv /\ Plain /\ TableInv => CostFact
<1> SUFFICES ASSUME TypeInv, Plain, TableInv PROVE CostFact
    OBVIOUS
<1>1. PICK own \in [Slots -> 0 .. Num], pos \in [Slots -> Nat] :
              Placed(own, pos) /\ Flagged(own, pos)
    BY DEF TableInv
<1>2. \A h \in HeadsInUse : Cardinality(ChainSlots(h)) = Size(h)
    BY <1>1, ChainIs DEF TableInv
<1>3. ASSUME NEW h \in HeadsInUse
      PROVE  data[h] \in Tokens /\ Costs[data[h]] = Size(h)
  <2>1. h \in Slots /\ data[h] \in Tokens /\ data[h] # NoToken
      BY DEF HeadsInUse, TypeInv
  <2> DEFINE g == CHOOSE g \in Slots : data[g] = data[h]
  <2>2. g \in Slots /\ data[g] = data[h]
      BY <2>1
  <2>3. g = h
    <3> HIDE DEF g
    <3>1. g \in HeadsInUse
        BY <2>1, <2>2 DEF HeadsInUse
    <3> QED
        BY <3>1, <2>2 DEF Plain
  <2>4. Costs[data[h]] = Cardinality(ChainSlots(g))
      BY <2>1 DEF Costs
  <2> QED
      BY <2>1, <2>3, <2>4, <1>2
<1>4. \A t \in Tokens : (\A h \in Slots : data[h] # t) => Costs[t] = 0
    BY DEF Costs
<1> QED
    BY <1>3, <1>4 DEF CostFact

(* What the device still has to complete.                                  *)
Held == {data[h] : h \in HeadsInUse \ UsedWindow}

LEMMA UsedWindowIs ==
    ASSUME TypeInv
    PROVE  UsedWindow = {UsedAt(k - 1) : k \in 1 .. Done}
<1>1. UsedWindow = {UsedAt(k) : k \in 0 .. Done - 1}
    BY DEF UsedWindow, UsedAt, Done
<1>2. Done \in Nat
    BY RingTypes
<1>3. ASSUME NEW k \in 0 .. Done - 1
      PROVE  \E j \in 1 .. Done : UsedAt(k) = UsedAt(j - 1)
  <2>1. k + 1 \in 1 .. Done /\ (k + 1) - 1 = k
      BY <1>2
  <2> QED
      BY <2>1
<1>4. \A k \in 1 .. Done : k - 1 \in 0 .. Done - 1
    BY <1>2
<1> QED
    BY <1>1, <1>3, <1>4

(* add_buf submits a token for the descriptors its chain takes.              *)
LEMMA AddSubmits ==
    ASSUME TypeInv, TableInv, Traced, Plain, LinedUp, LinedUp', CostFact, CostFact',
           NEW s \in Shapes, NEW t \in Tokens, AddFill(t, s)
    PROVE  \E n \in 1 .. Num : Queue!Submit(t, n)
<1>1. PICK h \in Slots, n \in 1 .. numFree :
              /\ h = freeHead /\ numFree' = numFree - n /\ HeadsInUse' = HeadsInUse \cup {h}
              /\ Size(h)' = n /\ \A g \in HeadsInUse : Size(g)' = Size(g)
    BY AddTable
<1>2. h \notin HeadsInUse
    BY <1>1, AddTable
<1>3. /\ \A g \in Slots : data'[g] = IF g = h THEN t ELSE data[g]
      /\ \A g \in Slots : data[g] # t
    BY <1>1, AddTokens
<1>4. UNCHANGED <<usedRing, usedIdx, lastUsed>>
    BY DEF AddFill, deviceVars
<1>5. UsedWindow' = UsedWindow /\ Done' = Done /\ \A k : UsedAt(k)' = UsedAt(k)
    BY <1>4 DEF UsedWindow, Done, UsedAt
<1>6. UsedWindow \subseteq HeadsInUse /\ HeadsInUse \subseteq Slots
    BY UsedWindowIs DEF LinedUp, HeadsInUse
<1>7. Held' = Held \cup {t}
  <2>1. \A g \in HeadsInUse : data'[g] = data[g]
      BY <1>2, <1>3, <1>6
  <2>2. data'[h] = t
      BY <1>3
  <2>3. HeadsInUse' \ UsedWindow' = (HeadsInUse \ UsedWindow) \cup {h}
      BY <1>1, <1>2, <1>5, <1>6
  <2> QED
      BY <2>1, <2>2, <2>3 DEF Held
<1>8. UsedTokens' = UsedTokens
  <2>1. UsedTokens \in Seq(Cookies) /\ UsedTokens' \in Seq(Cookies)
        /\ Len(UsedTokens) = Done /\ Len(UsedTokens') = Done
      BY <1>5 DEF LinedUp, Cookies
  <2>2. ASSUME NEW k \in 1 .. Done
        PROVE  UsedTokens[k] = UsedTokens'[k]
    <3>1. UsedTokens[k] = data[UsedAt(k - 1)] /\ UsedTokens'[k] = data'[UsedAt(k - 1)]
          /\ UsedAt(k - 1) \in HeadsInUse
        BY <1>5 DEF LinedUp
    <3> QED
        BY <3>1, <1>2, <1>3, <1>6
  <2> QED
      BY <2>1, <2>2, SeqEqual
<1>9. t \notin Held /\ ~ \E i \in 1 .. Len(UsedTokens) : UsedTokens[i] = t
  <2>1. t \notin Held
      BY <1>3, <1>6 DEF Held
  <2>2. \A i \in 1 .. Len(UsedTokens) : UsedTokens[i] # t
      BY <1>3, <1>6 DEF LinedUp
  <2> QED
      BY <2>1, <2>2
<1>10. Costs' = [Costs EXCEPT ![t] = n]
  <2>1. ASSUME NEW u \in Tokens
        PROVE  Costs'[u] = IF u = t THEN n ELSE Costs[u]
    <3>1. CASE u = t
      <4>1. h \in HeadsInUse' /\ data'[h] = t
          BY <1>1, <1>3
      <4>2. Costs'[t] = Size(h)'
          BY <4>1 DEF CostFact
      <4> QED
          BY <3>1, <4>2, <1>1
    <3>2. CASE u # t /\ \E g \in Slots : data[g] = u
      <4>1. PICK g \in Slots : data[g] = u
          BY <3>2
      <4>2. g \in HeadsInUse
          BY <4>1, TokenAssumption DEF HeadsInUse
      <4>3. g \in HeadsInUse' /\ data'[g] = u
          BY <4>1, <4>2, <1>1, <1>2, <1>3
      <4>4. Costs[u] = Size(g)
          BY <4>1, <4>2 DEF CostFact
      <4>5. Costs'[u] = Size(g)'
          BY <4>3 DEF CostFact
      <4> QED
          BY <3>2, <4>2, <4>4, <4>5, <1>1
    <3>3. CASE u # t /\ \A g \in Slots : data[g] # u
      <4>1. \A g \in Slots : data'[g] # u
          BY <3>3, <1>3
      <4>2. Costs'[u] = 0
          BY <4>1 DEF CostFact
      <4>3. Costs[u] = 0
          BY <3>3 DEF CostFact
      <4> QED
          BY <3>3, <4>2, <4>3
    <3> QED
        BY <3>1, <3>2, <3>3
  <2>2. Costs' = [u \in Tokens |-> Costs'[u]] /\ Costs = [u \in Tokens |-> Costs[u]]
      BY DEF Costs
  <2> QED
      BY <2>1, <2>2
<1>11. n \in 1 .. Num
  <2>1. numFree \in 0 .. Num /\ Num \in Nat
      BY SizesFact DEF TableInv
  <2> QED
      BY <2>1
<1>12. Queue!Submit(t, n)
    BY <1>1, <1>7, <1>8, <1>9, <1>10 DEF Queue!Submit, Queue!InUsed, Held, Costs
<1> QED
    BY <1>11, <1>12

(* The device completes the token of the head it returns.                   *)
LEMMA UseCompletes ==
    ASSUME TypeInv, Traced, Plain, LinedUp, LinedUp', NEW h \in Slots, DevUse(h)
    PROVE  \E t \in Tokens : Queue!Complete(t)
<1>1. UNCHANGED <<desc, freeHead, numFree, data, shape>> /\ h \in inflight
    BY DEF DevUse, PostUsed, tableVars
<1>2. HeadsInUse' = HeadsInUse /\ HeadsInUse \subseteq Slots
    BY <1>1 DEF HeadsInUse
<1>3. /\ Done' = Done + 1 /\ Done \in Nat
      /\ \A k \in 0 .. Done - 1 : UsedAt(k)' = UsedAt(k)
      /\ \A n \in Nat : n = Done => UsedAt(n)' = h
    BY UseEntries
<1>4. h \in HeadsInUse /\ \A k \in 0 .. Done - 1 : UsedAt(k) # h
    BY <1>1 DEF Traced, Exposed
<1>5. data[h] \in Tokens /\ data[h] # NoToken
    BY <1>4 DEF HeadsInUse, TypeInv
<1>n. PICK n \in Nat : n = Done
    BY <1>3
<1>6. UsedWindow' = UsedWindow \cup {h} /\ h \notin UsedWindow
  <2>1. UsedWindow = {UsedAt(k) : k \in 0 .. n - 1}
      BY <1>n DEF UsedWindow, UsedAt, Done
  <2>2. UsedWindow' = {UsedAt(k)' : k \in 0 .. Done' - 1}
      BY DEF UsedWindow, UsedAt, Done
  <2>3. Done' - 1 = n
      BY <1>3, <1>n
  <2>4. \A k \in 0 .. n - 1 : UsedAt(k)' = UsedAt(k) /\ UsedAt(k) # h
      BY <1>3, <1>4, <1>n
  <2>5. UsedAt(n)' = h
      BY <1>3, <1>n
  <2>6. \A k \in 0 .. n : k \in 0 .. n - 1 \/ k = n
      OBVIOUS
  <2>7. n \in 0 .. n /\ \A k \in 0 .. n - 1 : k \in 0 .. n
      OBVIOUS
  <2> QED
      BY <2>1, <2>2, <2>3, <2>4, <2>5, <2>6, <2>7
<1>7. Held' = Held \ {data[h]} /\ data[h] \in Held
  <2>1. HeadsInUse' \ UsedWindow' = (HeadsInUse \ UsedWindow) \ {h}
      BY <1>2, <1>6
  <2>2. \A g \in HeadsInUse : data[g] = data[h] => g = h
      BY <1>4 DEF Plain
  <2>3. Held' = {data[g] : g \in (HeadsInUse \ UsedWindow) \ {h}}
      BY <2>1, <1>1 DEF Held
  <2> QED
      BY <2>2, <2>3, <1>4, <1>6 DEF Held
<1>8. UsedTokens' = Append(UsedTokens, data[h])
  <2>1. /\ UsedTokens \in Seq(Cookies) /\ UsedTokens' \in Seq(Cookies)
        /\ Len(UsedTokens) = n /\ Len(UsedTokens') = n + 1
      BY <1>3, <1>n DEF LinedUp, Cookies
  <2>2. data[h] \in Cookies
      BY <1>5 DEF Cookies
  <2>3. /\ Append(UsedTokens, data[h]) \in Seq(Cookies)
        /\ Len(Append(UsedTokens, data[h])) = n + 1
        /\ Append(UsedTokens, data[h])[n + 1] = data[h]
        /\ \A k \in 1 .. n : Append(UsedTokens, data[h])[k] = UsedTokens[k]
      BY <2>1, <2>2, AppendProperties
  <2>4. ASSUME NEW k \in 1 .. n
        PROVE  UsedTokens'[k] = UsedTokens[k]
    <3>1. k - 1 \in 0 .. Done - 1 /\ k \in 1 .. Done' /\ k \in 1 .. Done
        BY <1>3, <1>n
    <3>2. UsedTokens[k] = data[UsedAt(k - 1)] /\ UsedTokens'[k] = data'[UsedAt(k - 1)']
        BY <3>1 DEF LinedUp
    <3> QED
        BY <3>1, <3>2, <1>1, <1>3
  <2>5. UsedTokens'[n + 1] = data[h]
    <3>1. n + 1 \in 1 .. Done' /\ (n + 1) - 1 = n
        BY <1>3, <1>n
    <3>2. UsedTokens'[n + 1] = data'[UsedAt((n + 1) - 1)']
        BY <3>1 DEF LinedUp
    <3>3. UsedAt((n + 1) - 1)' = UsedAt(n)'
        BY <3>1
    <3> QED
        BY <3>2, <3>3, <1>1, <1>3, <1>n
  <2>6. \A k \in 1 .. n + 1 : k \in 1 .. n \/ k = n + 1
      OBVIOUS
  <2>7. \A k \in 1 .. Len(UsedTokens') : UsedTokens'[k] = Append(UsedTokens, data[h])[k]
      BY <2>1, <2>3, <2>4, <2>5, <2>6
  <2>8. Len(UsedTokens') = Len(Append(UsedTokens, data[h]))
      BY <2>1, <2>3
  <2> QED
      BY <2>1, <2>3, <2>7, <2>8, SeqEqual
<1>9. Costs' = Costs /\ numFree' = numFree
    BY <1>1 DEF Costs, ChainSlots, ChainFrom
<1>t. PICK t \in Tokens : t = data[h]
    BY <1>5
<1>10. Queue!Complete(t)
    BY <1>7, <1>8, <1>9, <1>t DEF Queue!Complete, Held, Costs
<1> QED
    BY <1>10

(* What detach_buf gives back.                                             *)
LEMMA DetachSizes ==
    ASSUME TypeInv, TableInv, NEW h \in HeadsInUse, DetachBuf(h)
    PROVE  numFree' = numFree + Size(h) /\ \A g \in HeadsInUse : g # h => Size(g)' = Size(g)
<1>1. PICK own \in [Slots -> 0 .. Num], pos \in [Slots -> Nat] :
              Placed(own, pos) /\ Flagged(own, pos)
    BY DEF TableInv
<1>2. Cardinality(ChainSlots(h)) = Size(h) /\ ChainEnd(h) \in Slots
    BY <1>1, ChainIs DEF TableInv
<1>3. PICK last \in Slots : last = ChainEnd(h)
    BY <1>2
<1>4. /\ numFree' = numFree + Size(h)
      /\ desc' = [desc EXCEPT ![last].next = freeHead]
      /\ shape' = [shape EXCEPT ![h] = <<0, 0>>]
    BY <1>2, <1>3 DEF DetachBuf
<1>5. ASSUME NEW g \in HeadsInUse, g # h
      PROVE  Size(g)' = Size(g)
  <2>1. g \in Slots
      BY DEF HeadsInUse
  <2>2. desc'[g].flags = desc[g].flags
      BY <1>4, <2>1 DEF TypeInv, DescType
  <2>3. shape'[g] = shape[g]
      BY <1>4, <1>5, <2>1 DEF TypeInv
  <2> QED
      BY <2>2, <2>3 DEF Size
<1> QED
    BY <1>4, <1>5

LEMMA CostsReturned ==
    ASSUME TypeInv, TableInv, CostFact, CostFact', NEW h \in HeadsInUse, DetachBuf(h), Plain
    PROVE  Costs' = [Costs EXCEPT ![data[h]] = 0]
<1>1. /\ HeadsInUse' = HeadsInUse \ {h} /\ h \in Slots
      /\ \A g \in Slots : data'[g] = IF g = h THEN NoToken ELSE data[g]
    BY DetachTokens
<1>2. \A g \in HeadsInUse : g # h => Size(g)' = Size(g)
    BY DetachSizes
<1>3. data[h] # NoToken /\ NoToken \notin Tokens
    BY TokenAssumption DEF HeadsInUse
<1>4. ASSUME NEW u \in Tokens
      PROVE  Costs'[u] = IF u = data[h] THEN 0 ELSE Costs[u]
  <2>1. CASE u = data[h]
    <3>1. ASSUME NEW g \in Slots
          PROVE  data'[g] # u
      <4>1. CASE g = h
          BY <4>1, <1>1, <1>3
      <4>2. CASE g # h
        <5>1. data'[g] = data[g]
            BY <4>2, <1>1
        <5>2. data[g] = data[h] => g \in HeadsInUse
            BY <1>3 DEF HeadsInUse
        <5> QED
            BY <5>1, <5>2, <4>2, <2>1 DEF Plain
      <4> QED
          BY <4>1, <4>2
    <3>2. Costs'[u] = 0
        BY <3>1 DEF CostFact
    <3> QED
        BY <3>2, <2>1
  <2>2. CASE u # data[h] /\ \E g \in Slots : data[g] = u
    <3>1. PICK g \in Slots : data[g] = u
        BY <2>2
    <3>2. g \in HeadsInUse /\ g # h
        BY <3>1, <2>2, <1>3 DEF HeadsInUse
    <3>3. g \in HeadsInUse' /\ data'[g] = u
        BY <3>1, <3>2, <1>1
    <3>4. Costs[u] = Size(g)
        BY <3>1, <3>2 DEF CostFact
    <3>5. Costs'[u] = Size(g)'
        BY <3>3 DEF CostFact
    <3> QED
        BY <2>2, <3>2, <3>4, <3>5, <1>2
  <2>3. CASE u # data[h] /\ \A g \in Slots : data[g] # u
    <3>1. \A g \in Slots : data'[g] # u
        BY <2>3, <1>1, <1>3
    <3>2. Costs'[u] = 0
        BY <3>1 DEF CostFact
    <3>3. Costs[u] = 0
        BY <2>3 DEF CostFact
    <3> QED
        BY <2>3, <3>2, <3>3
  <2> QED
      BY <2>1, <2>2, <2>3
<1>5. Costs' = [u \in Tokens |-> Costs'[u]] /\ Costs = [u \in Tokens |-> Costs[u]]
    BY DEF Costs
<1> QED
    BY <1>4, <1>5

(* get_buf returns the token that was completed first.                      *)
LEMMA GetBufReturns ==
    ASSUME TypeInv, TableInv, Traced, Plain, LinedUp, LinedUp', CostFact, CostFact', GetBuf
    PROVE  Queue!Return
<1>1. PICK h \in HeadsInUse : h = usedRing[lastUsed % Num] /\ DetachBuf(h)
    BY DEF GetBuf
<1>2. /\ Done' = Done - 1 /\ Done > 0 /\ Done \in Nat
      /\ UsedAt(0) = h /\ 0 \in 0 .. Done - 1
      /\ \A k \in 0 .. Done' - 1 : /\ UsedAt(k)' = UsedAt(k + 1)
                                   /\ k + 1 \in 0 .. Done - 1 /\ k + 1 # 0 /\ k \in Int
    BY <1>1, GetBufEntries
<1>3. /\ HeadsInUse' = HeadsInUse \ {h} /\ h \in Slots
      /\ \A g \in Slots : data'[g] = IF g = h THEN NoToken ELSE data[g]
    BY <1>1, DetachTokens
<1>4. HeadsInUse \subseteq Slots /\ \A g \in HeadsInUse : data[g] = data[h] => g = h
    BY DEF HeadsInUse, Plain
<1>5. numFree' = numFree + Size(h) /\ \A g \in HeadsInUse : g # h => Size(g)' = Size(g)
    BY <1>1, DetachSizes
<1>6. UsedWindow' \cup {h} = UsedWindow
  <2>1. UsedWindow = {UsedAt(k) : k \in 0 .. Done - 1}
        /\ UsedWindow' = {UsedAt(k)' : k \in 0 .. Done' - 1}
      BY DEF UsedWindow, UsedAt, Done
  <2>2. ASSUME NEW k \in 0 .. Done - 1, k # 0
        PROVE  \E j \in 0 .. Done' - 1 : UsedAt(j)' = UsedAt(k)
    <3>1. k - 1 \in 0 .. Done' - 1 /\ (k - 1) + 1 = k
        BY <1>2, <2>2
    <3>2. UsedAt(k - 1)' = UsedAt((k - 1) + 1)
        BY <3>1, <1>2
    <3> QED
        BY <3>1, <3>2
  <2>3. \A k \in 0 .. Done' - 1 : UsedAt(k)' \in UsedWindow
      BY <1>2, <2>1
  <2> QED
      BY <2>1, <2>2, <2>3, <1>2
<1>7. Held' = Held
  <2>1. HeadsInUse' \ UsedWindow' = HeadsInUse \ UsedWindow
      BY <1>3, <1>6
  <2>2. \A g \in HeadsInUse \ UsedWindow : data'[g] = data[g]
      BY <1>3, <1>4, <1>6
  <2> QED
      BY <2>1, <2>2 DEF Held
<1>8. UsedTokens # <<>> /\ UsedTokens' = Tail(UsedTokens) /\ Head(UsedTokens) = data[h]
  <2>1. /\ UsedTokens \in Seq(Cookies) /\ UsedTokens' \in Seq(Cookies)
        /\ Len(UsedTokens) = Done /\ Len(UsedTokens') = Done - 1
      BY <1>2 DEF LinedUp, Cookies
  <2>2. UsedTokens # <<>>
      BY <2>1, <1>2, EmptySeq
  <2>3. /\ Tail(UsedTokens) \in Seq(Cookies) /\ Len(Tail(UsedTokens)) = Done - 1
        /\ \A k \in 1 .. Done - 1 : Tail(UsedTokens)[k] = UsedTokens[k + 1]
      BY <2>1, <2>2, HeadTailProperties
  <2>4. ASSUME NEW k \in 1 .. Done - 1
        PROVE  UsedTokens'[k] = UsedTokens[k + 1]
    <3>1. k \in 1 .. Done' /\ k + 1 \in 1 .. Done /\ k - 1 \in 0 .. Done' - 1
          /\ (k - 1) + 1 = k /\ (k + 1) - 1 = k
        BY <1>2
    <3>2. UsedTokens'[k] = data'[UsedAt(k - 1)'] /\ UsedAt(k - 1)' \in HeadsInUse'
        BY <3>1 DEF LinedUp
    <3>3. UsedAt(k - 1)' = UsedAt(k)
        BY <3>1, <1>2
    <3>4. UsedTokens[k + 1] = data[UsedAt((k + 1) - 1)]
        BY <3>1 DEF LinedUp
    <3>5. UsedTokens[k + 1] = data[UsedAt(k)]
        BY <3>1, <3>4
    <3> QED
        BY <3>2, <3>3, <3>5, <1>3, <1>4
  <2>5. \A k \in 1 .. Len(UsedTokens') : UsedTokens'[k] = Tail(UsedTokens)[k]
      BY <2>1, <2>3, <2>4
  <2>6. UsedTokens' = Tail(UsedTokens)
      BY <2>1, <2>3, <2>5, SeqEqual
  <2>7. UsedTokens[1] = data[h]
    <3>1. 1 \in 1 .. Done /\ 1 - 1 = 0
        BY <1>2
    <3>2. UsedTokens[1] = data[UsedAt(1 - 1)]
        BY <3>1 DEF LinedUp
    <3> QED
        BY <3>1, <3>2, <1>2
  <2>8. Head(UsedTokens) = UsedTokens[1]
      BY <2>1, <2>2
  <2> QED
      BY <2>2, <2>6, <2>7, <2>8
<1>9. Costs[data[h]] = Size(h) /\ data[h] \in Tokens
    BY DEF CostFact
<1>10. Costs' = [Costs EXCEPT ![data[h]] = 0]
    BY <1>1, CostsReturned
<1>11. Queue!Return
  <2>1. numFree' = numFree + Costs[Head(UsedTokens)]
        /\ Costs' = [Costs EXCEPT ![Head(UsedTokens)] = 0]
      BY <1>5, <1>8, <1>9, <1>10
  <2> QED
      BY <2>1, <1>7, <1>8 DEF Queue!Return, Held, Costs
<1> QED
    BY <1>11

(* detach_unused_buf withdraws the token of a head, returned or not.         *)
LEMMA DetachWithdraws ==
    ASSUME TypeInv, TableInv, Plain, UsedFact, UsedFact', CostFact, CostFact', DetachUnused
    PROVE  \E t \in Tokens : Queue!Withdraw(t)
<1>1. PICK h \in HeadsInUse : DetachBuf(h) /\ UNCHANGED <<lastUsed, usedRing, usedIdx>>
    BY DEF DetachUnused, deviceVars
<1>2. /\ HeadsInUse' = HeadsInUse \ {h} /\ h \in Slots
      /\ \A g \in Slots : data'[g] = IF g = h THEN NoToken ELSE data[g]
    BY <1>1, DetachTokens
<1>3. HeadsInUse \subseteq Slots /\ \A g \in HeadsInUse : data[g] = data[h] => g = h
    BY DEF HeadsInUse, Plain
<1>4. numFree' = numFree + Size(h)
    BY <1>1, DetachSizes
<1>5. data[h] \in Tokens /\ Costs[data[h]] = Size(h) /\ data[h] # NoToken
    BY DEF CostFact, HeadsInUse
<1>t. PICK t \in Tokens : t = data[h]
    BY <1>5
<1>6. UsedWindow' = UsedWindow /\ Done' = Done /\ \A k : UsedAt(k)' = UsedAt(k)
    BY <1>1 DEF UsedWindow, Done, UsedAt
<1>7. Held' = Held \ {t}
  <2>1. HeadsInUse' \ UsedWindow' = (HeadsInUse \ UsedWindow) \ {h}
      BY <1>2, <1>6
  <2>2. \A g \in HeadsInUse \ {h} : data'[g] = data[g] /\ data[g] # t
      BY <1>2, <1>3, <1>t
  <2>3. Held' = {data[g] : g \in (HeadsInUse \ UsedWindow) \ {h}}
      BY <2>1, <2>2 DEF Held
  <2> QED
      BY <2>2, <2>3, <1>t DEF Held
<1>8. Done \in Nat
      /\ \A k \in 1 .. Done : UsedAt(k - 1) \in Slots /\ Window[k] = data[UsedAt(k - 1)]
                              /\ Window[k] \in Cookies
    BY WindowTypes
<1>9. PICK f : Kept(f, Done, Window, NoToken) /\ UsedTokens = f[Done]
    BY DEF UsedFact
<1>10. PICK g : Kept(g, Done, Window', NoToken) /\ UsedTokens' = g[Done]
    BY <1>6 DEF UsedFact
<1>11. t \in Held \/ \E i \in 1 .. Len(UsedTokens) : UsedTokens[i] = t
  <2>1. CASE h \in UsedWindow
    <3>1. PICK k \in 1 .. Done : UsedAt(k - 1) = h
        BY <2>1, UsedWindowIs
    <3>2. Window[k] = t /\ t # NoToken
        BY <3>1, <1>5, <1>8, <1>t
    <3>3. \E i \in 1 .. Len(f[Done]) : f[Done][i] = Window[k]
        BY <3>1, <3>2, <1>8, <1>9, KeptHolds
    <3> QED
        BY <3>2, <3>3, <1>9
  <2>2. CASE h \notin UsedWindow
      BY <2>2, <1>t DEF Held
  <2> QED
      BY <2>1, <2>2
<1>12. UsedTokens' = Queue!Without(UsedTokens, t)
  <2>1. ASSUME NEW k \in 1 .. Done
        PROVE  Window'[k] = IF Window[k] = t THEN NoToken ELSE Window[k]
    <3>1. Window'[k] = data'[UsedAt(k - 1)]
        BY <1>6 DEF Window
    <3>2. UsedAt(k - 1) \in Slots /\ Window[k] = data[UsedAt(k - 1)]
        BY <1>8
    <3>3. data[UsedAt(k - 1)] = t => UsedAt(k - 1) = h
        BY <3>2, <1>3, <1>5, <1>t DEF HeadsInUse
    <3> QED
        BY <3>1, <3>2, <3>3, <1>2, <1>t
  <2>2. t # NoToken /\ \A k \in 1 .. Done : Window[k] \in Cookies
      BY <1>5, <1>8, <1>t
  <2>3. g[Done] = Queue!Without(f[Done], t)
    <3>1. PICK n, v, w : n \in Nat /\ n = Done /\ v = Window /\ w = Window'
        BY <1>8
    <3>2. Kept(f, n, v, NoToken) /\ Kept(g, n, w, NoToken)
        BY <3>1, <1>9, <1>10
    <3>3. \A k \in 1 .. n : v[k] \in Cookies
        BY <3>1, <2>2
    <3>4. \A k \in 1 .. n : w[k] = IF v[k] = t THEN NoToken ELSE v[k]
        BY <3>1, <2>1
    <3>5. t # NoToken
        BY <2>2
    <3>6. g[n] = Queue!Without(f[n], t)
        BY SMTT(60), <3>1, <3>2, <3>3, <3>4, <3>5, KeptWithout
    <3> QED
        BY <3>1, <3>6
  <2> QED
      BY <2>3, <1>9, <1>10
<1>13. Costs' = [Costs EXCEPT ![t] = 0]
    BY <1>1, <1>t, CostsReturned
<1>14. numFree' = numFree + Costs[t]
    BY <1>4, <1>5, <1>t
<1>15. Queue!Withdraw(t)
    BY <1>7, <1>11, <1>12, <1>13, <1>14 DEF Queue!Withdraw, Queue!InUsed, Held, Costs
<1> QED
    BY <1>15

QueueFacts ==
    /\ UsedFact /\ CostFact
    /\ devState # "reset" => Traced /\ LinedUp

LEMMA FactsHold == TypeInv /\ TableInv /\ RingInv /\ Plain => QueueFacts
    BY UsedIs, CostIs, LinesUp DEF QueueFacts, RingInv, Plain

(* An empty queue.                                                         *)
NoneThere == HeadsInUse = {} /\ Done = 0 /\ numFree = Num
QueueEmpty ==
    /\ Held = {} /\ UsedTokens = <<>> /\ numFree = Num /\ Costs = [t \in Tokens |-> 0]

LEMMA EmptyIs == QueueFacts /\ NoneThere => QueueEmpty
<1> SUFFICES ASSUME QueueFacts, NoneThere PROVE QueueEmpty
    OBVIOUS
<1>1. UsedTokens = <<>>
  <2>1. PICK f : Kept(f, Done, Window, NoToken) /\ UsedTokens = f[Done]
      BY DEF QueueFacts, UsedFact
  <2> QED
      BY <2>1 DEF NoneThere, Kept
<1>2. \A t \in Tokens : Costs[t] = 0
  <2> SUFFICES ASSUME NEW t \in Tokens PROVE Costs[t] = 0
      OBVIOUS
  <2>1. \A h \in Slots : data[h] # t
      BY TokenAssumption DEF NoneThere, HeadsInUse
  <2> QED
      BY <2>1 DEF QueueFacts, CostFact
<1>3. Costs = [t \in Tokens |-> Costs[t]]
    BY DEF Costs
<1> QED
    BY <1>1, <1>2, <1>3 DEF QueueEmpty, NoneThere, Held

LEMMA QueueStart == Init /\ QueueFacts => Queue!QInit
<1> SUFFICES ASSUME Init, QueueFacts PROVE Queue!QInit
    OBVIOUS
<1>1. Minus(0, 0) = 0
    BY MinusZero, IdxFact
<1>2. NoneThere
    BY <1>1 DEF Init, NoneThere, HeadsInUse, Every, Done
<1> QED
    BY <1>2, EmptyIs DEF QueueEmpty, Queue!QInit, Held, Costs

(* Every step of the ring is a step of the queue, or leaves it as it is.      *)
LEMMA QueueNext ==
    ASSUME TypeInv, TableInv, Plain, QueueFacts, QueueFacts', [Next]_vars,
           QueueFacts' /\ NoneThere' => QueueEmpty'
    PROVE  [Queue!QNext]_(Queue!qvars)
<1>1. CASE UNCHANGED <<desc, data, numFree, usedRing, usedIdx, lastUsed>>
  <2>1. HeadsInUse' = HeadsInUse /\ UsedWindow' = UsedWindow /\ UsedTokens' = UsedTokens
        /\ Costs' = Costs
      BY <1>1 DEF HeadsInUse, UsedWindow, UsedTokens, Costs, ChainSlots, ChainFrom
  <2>2. Held' = Held
      BY <1>1, <2>1 DEF Held
  <2> QED
      BY <1>1, <2>1, <2>2 DEF Queue!qvars, Held, Costs
<1>2. ASSUME NEW s \in Shapes, NEW t \in Tokens, AddFill(t, s)
      PROVE  Queue!QNext
  <2>1. devState # "reset" /\ devState' # "reset"
      BY <1>2 DEF AddFill, Ready, deviceVars
  <2>2. Traced /\ LinedUp /\ LinedUp' /\ CostFact /\ CostFact'
      BY <2>1 DEF QueueFacts
  <2>3. \E n \in 1 .. Num : Queue!Submit(t, n)
      BY <1>2, <2>2, AddSubmits
  <2> QED
      BY <2>3 DEF Queue!QNext
<1>3. ASSUME NEW h \in Slots, DevUse(h)
      PROVE  Queue!QNext
  <2>1. devState # "reset" /\ devState' # "reset"
      BY <1>3 DEF DevUse, PostUsed, TypeInv
  <2>2. Traced /\ LinedUp /\ LinedUp'
      BY <2>1 DEF QueueFacts
  <2>3. \E t \in Tokens : Queue!Complete(t)
      BY <1>3, <2>2, UseCompletes
  <2> QED
      BY <2>3 DEF Queue!QNext
<1>4. CASE GetBuf
  <2>1. devState # "reset" /\ devState' # "reset"
      BY <1>4 DEF GetBuf, Ready, deviceVars
  <2>2. Traced /\ LinedUp /\ LinedUp' /\ CostFact /\ CostFact'
      BY <2>1 DEF QueueFacts
  <2>3. Queue!Return
      BY <1>4, <2>2, GetBufReturns
  <2> QED
      BY <2>3 DEF Queue!QNext
<1>5. CASE DetachUnused
  <2>1. UsedFact /\ UsedFact' /\ CostFact /\ CostFact'
      BY DEF QueueFacts
  <2>2. \E t \in Tokens : Queue!Withdraw(t)
      BY <1>5, <2>1, DetachWithdraws
  <2> QED
      BY <2>2 DEF Queue!QNext
<1>6. CASE Shutdown
  <2>1. Minus(0, 0) = 0
      BY MinusZero, IdxFact
  <2>2. NoneThere'
      BY <1>6, <2>1 DEF Shutdown, NoneThere, HeadsInUse, Every, Done
  <2>3. Queue!Forget
      BY <2>2 DEF QueueEmpty, Queue!Forget, Held, Costs
  <2> QED
      BY <2>3 DEF Queue!QNext
<1>7. CASE DevSpurious
    BY <1>7 DEF DevSpurious, Plain
<1>8. CASE \/ \E s \in Shapes : AddNoSpace(s)
           \/ AddExpose \/ Kick \/ KickAlways \/ GetBufNull \/ DisableCb
           \/ EnableCb \/ EnableCbChecks \/ EnableCbDelayed \/ EnableCbDelayedChecks
           \/ TakeInterrupt
  <2>1. UNCHANGED <<desc, data, numFree, usedRing, usedIdx, lastUsed>>
      BY <1>8 DEF AddNoSpace, AddExpose, Kick, KickAlways, GetBufNull, DisableCb, EnableCb,
         EnableCbChecks, EnableCbDelayed, EnableCbDelayedChecks, TakeInterrupt, tableVars,
         driverVars, deviceVars
  <2> QED
      BY <2>1, <1>1
<1>9. CASE DevWake \/ DevFetch \/ DevDoze \/ DevRecheck \/ DevSignal \/ DevReset
  <2>1. UNCHANGED <<desc, data, numFree, usedRing, usedIdx, lastUsed>>
      BY <1>9 DEF DevWake, DevFetch, DevDoze, DevRecheck, DevSignal, DevReset,
         tableVars, driverVars
  <2> QED
      BY <2>1, <1>1
<1>10. CASE UNCHANGED vars
    BY <1>1, <1>10 DEF vars, tableVars, driverVars, deviceVars
<1> QED
    BY <1>2, <1>3, <1>4, <1>5, <1>6, <1>7, <1>8, <1>9, <1>10 DEF Next, Driver, Device, Add

(* A ring whose device returns only heads it was given is the token store of  *)
(* VirtQueueSpec, whatever its size and however its indices wrap: tokens come *)
(* back in the order of completion, each once, and take and give back the    *)
(* descriptors of their chains.                                            *)
THEOREM QueueCorrect == Spec /\ ~ setup.faulty => ImplementsQueue
<1>1. TypeInv /\ Plain /\ [Next]_vars => Plain'
    BY PlainNext
<1>2. Spec /\ ~ setup.faulty => []Plain
    BY <1>1, PlainStart, Typed, PTL DEF Spec
<1>3. TypeInv /\ TableInv /\ Plain /\ QueueFacts /\ QueueFacts' /\ [Next]_vars
        /\ (QueueFacts' /\ NoneThere' => QueueEmpty')
        => [Queue!QNext]_(Queue!qvars)
    BY QueueNext
<1>4. Spec /\ ~ setup.faulty => [](QueueFacts)
    BY <1>2, FactsHold, TableKept, RingsKept, Typed, PTL
<1>5. Spec /\ ~ setup.faulty => Queue!QSpec
    BY <1>2, <1>3, <1>4, EmptyIs, QueueStart, TableKept, Typed, PTL DEF Spec, Queue!QSpec
<1> QED
    BY <1>5 DEF ImplementsQueue
=============================================================================
