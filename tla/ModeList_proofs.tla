-------------------------- MODULE ModeList_proofs --------------------------
(***************************************************************************)
(* Proofs about ModeList, for any sizes the host's display takes and any     *)
(* number of changes.                                                      *)
(***************************************************************************)
EXTENDS ModeList, TLAPS

-----------------------------------------------------------------------------
LEMMA AppendFacts ==
    ASSUME NEW S, NEW q \in Seq(S), NEW x \in S, NEW n \in Nat, Len(q) = n,
           NEW r, r = Append(q, x)
    PROVE  /\ r \in Seq(S) /\ Len(r) = n + 1 /\ r[n + 1] = x
           /\ \A i \in 1 .. n : r[i] = q[i]
    OBVIOUS

(* The list as GetModeList fills it: all four fixed modes are taken.          *)
LEMMA AllSuitable == Len(Fixed) = 4 /\ \A i \in 1 .. 4 : Fixed[i] = DispModes[i]
<1> DEFINE Is(f) == f = [i \in 0 .. Len(DispModes) |->
                            IF i = 0 THEN <<>>
                            ELSE IF /\ DispModes[i][1] >= MinSize[1]
                                    /\ DispModes[i][2] >= MinSize[2]
                            THEN Append(f[i - 1], DispModes[i]) ELSE f[i - 1]]
           M == {DispModes[i] : i \in 1 .. 4}
           one == Append(<<>>, DispModes[1])
           two == Append(one, DispModes[2])
           three == Append(two, DispModes[3])
           four == Append(three, DispModes[4])
<1>1. /\ Len(DispModes) = 4 /\ MinSize = <<1024, 768>>
      /\ DispModes[1] = <<1024, 768>> /\ DispModes[2] = <<1280, 1024>>
      /\ DispModes[3] = <<1920, 1080>> /\ DispModes[4] = <<2560, 1600>>
    BY DEF DispModes, MinSize
<1>2. \A i \in 0 .. 4 : i = 0 \/ i = 1 \/ i = 2 \/ i = 3 \/ i = 4
    OBVIOUS
<1>3. \A i \in 1 .. 4 : DispModes[i][1] >= MinSize[1] /\ DispModes[i][2] >= MinSize[2]
    BY <1>1, <1>2
<1>4. Fixed = (CHOOSE f : Is(f))[Len(DispModes)]
  <2>1. (IF NoSize[1] = 0 \/ NoSize[2] = 0 THEN MinSize ELSE NoSize) = MinSize
      BY DEF NoSize
  <2> QED
      BY <2>1, Zenon DEF Fixed, Suitable
<1>5. /\ one = Append(<<>>, DispModes[1]) /\ two = Append(one, DispModes[2])
      /\ three = Append(two, DispModes[3]) /\ four = Append(three, DispModes[4])
    OBVIOUS
<1> HIDE DEF one, two, three, four
<1>6. \E f : Is(f)
  <2> DEFINE g == [i \in 0 .. 4 |-> IF i = 0 THEN <<>> ELSE IF i = 1 THEN one
                                    ELSE IF i = 2 THEN two ELSE IF i = 3 THEN three ELSE four]
  <2>1. g[0] = <<>> /\ g[1] = one /\ g[2] = two /\ g[3] = three /\ g[4] = four
      OBVIOUS
  <2>2. g = [i \in 0 .. 4 |-> g[i]]
      OBVIOUS
  <2> HIDE DEF g
  <2>3. ASSUME NEW i \in 0 .. 4
        PROVE  g[i] = IF i = 0 THEN <<>>
                      ELSE IF /\ DispModes[i][1] >= MinSize[1]
                              /\ DispModes[i][2] >= MinSize[2]
                      THEN Append(g[i - 1], DispModes[i]) ELSE g[i - 1]
    <3>1. CASE i = 0
        BY <2>1, <3>1
    <3>2. CASE i # 0
      <4>1. i \in 1 .. 4
          BY <3>2
      <4>2. g[i] = Append(g[i - 1], DispModes[i])
        <5>1. CASE i = 1
          <6>1. i - 1 = 0
              BY <5>1
          <6> QED
              BY <5>1, <6>1, <2>1, <1>5, Zenon
        <5>2. CASE i = 2
          <6>1. i - 1 = 1
              BY <5>2
          <6> QED
              BY <5>2, <6>1, <2>1, <1>5, Zenon
        <5>3. CASE i = 3
          <6>1. i - 1 = 2
              BY <5>3
          <6> QED
              BY <5>3, <6>1, <2>1, <1>5, Zenon
        <5>4. CASE i = 4
          <6>1. i - 1 = 3
              BY <5>4
          <6> QED
              BY <5>4, <6>1, <2>1, <1>5, Zenon
        <5> QED
            BY <4>1, <1>2, <5>1, <5>2, <5>3, <5>4
      <4> QED
          BY <3>2, <4>1, <4>2, <1>3
    <3> QED
        BY <3>1, <3>2
  <2>4. Is(g)
    <3>1. 0 .. 4 = 0 .. Len(DispModes)
        BY <1>1
    <3> QED
        BY <2>2, <2>3, <3>1, Zenon
  <2> QED
      BY <2>4
<1>7. ASSUME NEW f, Is(f)
      PROVE  f[4] = four
  <2>1. \A i \in 0 .. Len(DispModes) :
           f[i] = IF i = 0 THEN <<>>
                  ELSE IF /\ DispModes[i][1] >= MinSize[1]
                          /\ DispModes[i][2] >= MinSize[2]
                  THEN Append(f[i - 1], DispModes[i]) ELSE f[i - 1]
      BY <1>7, Zenon
  <2> HIDE DEF Is
  <2>2. ASSUME NEW i \in 1 .. 4
        PROVE  f[i] = Append(f[i - 1], DispModes[i])
    <3>1. i \in 0 .. Len(DispModes) /\ i # 0
        BY <1>1
    <3>2. DispModes[i][1] >= MinSize[1] /\ DispModes[i][2] >= MinSize[2]
        BY <1>3
    <3> QED
        BY <2>1, <3>1, <3>2, Zenon
  <2>3. f[0] = <<>>
    <3>1. 0 \in 0 .. Len(DispModes)
        BY <1>1
    <3> QED
        BY <2>1, <3>1, Zenon
  <2>4. f[1] = Append(f[0], DispModes[1]) /\ f[2] = Append(f[1], DispModes[2])
        /\ f[3] = Append(f[2], DispModes[3]) /\ f[4] = Append(f[3], DispModes[4])
    <3>1. 1 - 1 = 0 /\ 2 - 1 = 1 /\ 3 - 1 = 2 /\ 4 - 1 = 3
          /\ 1 \in 1 .. 4 /\ 2 \in 1 .. 4 /\ 3 \in 1 .. 4 /\ 4 \in 1 .. 4
        OBVIOUS
    <3> QED
        BY <2>2, <3>1
  <2> QED
      BY <2>3, <2>4, <1>5, Zenon
<1>8. Fixed = four
  <2>1. Is(CHOOSE f : Is(f))
    <3> HIDE DEF Is
    <3> QED
        BY <1>6
  <2> HIDE DEF Is
  <2> QED
      BY <1>4, <1>7, <2>1, <1>1
<1>9. /\ DispModes[1] \in M /\ DispModes[2] \in M /\ DispModes[3] \in M /\ DispModes[4] \in M
      /\ <<>> \in Seq(M) /\ Len(<<>>) = 0
  <2>1. 1 \in 1 .. 4 /\ 2 \in 1 .. 4 /\ 3 \in 1 .. 4 /\ 4 \in 1 .. 4
      OBVIOUS
  <2> QED
      BY <2>1
<1> HIDE DEF M
<1>10. one \in Seq(M) /\ Len(one) = 1 /\ one[1] = DispModes[1]
    BY <1>5, <1>9, AppendFacts
<1>11. two \in Seq(M) /\ Len(two) = 2 /\ two[1] = DispModes[1] /\ two[2] = DispModes[2]
    BY <1>5, <1>9, <1>10, AppendFacts
<1>12. three \in Seq(M) /\ Len(three) = 3
       /\ three[1] = DispModes[1] /\ three[2] = DispModes[2] /\ three[3] = DispModes[3]
    BY <1>5, <1>9, <1>11, AppendFacts
<1>13. Len(four) = 4 /\ four[1] = DispModes[1] /\ four[2] = DispModes[2]
       /\ four[3] = DispModes[3] /\ four[4] = DispModes[4]
    BY <1>5, <1>9, <1>12, AppendFacts
<1> QED
  <2>1. \A i \in 1 .. 4 : i = 1 \/ i = 2 \/ i = 3 \/ i = 4
      OBVIOUS
  <2> QED
      BY <1>8, <1>13, <2>1

(* What the proofs use of it.                                              *)
LEMMA FixedFacts ==
    /\ FixedCount = 4 /\ Slots = 0 .. 5
    /\ \A s \in 0 .. 3 : /\ FreshList[s] = Fixed[s + 1]
                         /\ Fixed[s + 1] \in Nat \X Nat
                         /\ Fixed[s + 1][1] >= 1024 /\ Fixed[s + 1][2] >= 768
    /\ \A s \in {4, 5} : FreshList[s] = <<1024, 768>>
    /\ \A m \in FixedModes : \E s \in 0 .. 3 : m = Fixed[s + 1]
    /\ NoSize \notin FixedModes
    /\ MinSize = <<1024, 768>>
<1>1. /\ Len(Fixed) = 4 /\ DispModes[1] = <<1024, 768>>
      /\ Fixed[1] = <<1024, 768>> /\ Fixed[2] = <<1280, 1024>>
      /\ Fixed[3] = <<1920, 1080>> /\ Fixed[4] = <<2560, 1600>>
    BY AllSuitable DEF DispModes
<1>2. FixedCount = 4 /\ Slots = 0 .. 5
    BY <1>1 DEF FixedCount, Slots
<1>3. \A s \in 0 .. 3 : s = 0 \/ s = 1 \/ s = 2 \/ s = 3
    OBVIOUS
<1>4. \A s \in 0 .. 3 : /\ Fixed[s + 1] \in Nat \X Nat
                        /\ Fixed[s + 1][1] >= 1024 /\ Fixed[s + 1][2] >= 768
    BY <1>1, <1>3
<1>5. \A s \in 0 .. 5 : FreshList[s] = IF s < 4 THEN Fixed[s + 1] ELSE Fixed[1]
    BY <1>2 DEF FreshList
<1>6. \A m \in FixedModes : \E s \in 0 .. 3 : m = Fixed[s + 1]
  <2>1. ASSUME NEW m \in FixedModes
        PROVE  \E s \in 0 .. 3 : m = Fixed[s + 1]
    <3>1. PICK i \in 1 .. 4 : m = Fixed[i]
        BY <1>2 DEF FixedModes
    <3>2. i - 1 \in 0 .. 3 /\ (i - 1) + 1 = i
        OBVIOUS
    <3> QED
        BY <3>1, <3>2
  <2> QED
      BY <2>1
<1>7. NoSize \notin FixedModes
    BY <1>6, <1>4 DEF NoSize
<1> QED
    BY <1>1, <1>2, <1>4, <1>5, <1>6, <1>7 DEF MinSize

-----------------------------------------------------------------------------
(* Sizes.                                                                  *)
Size == Nat \X Nat
AtLeast(m) == m[1] >= 1024 /\ m[2] >= 768

LEMMA ClampLarge ==
    ASSUME NEW size \in Size
    PROVE  Clamp(size) \in Size /\ AtLeast(Clamp(size))
<1>1. /\ Ushort(size[1]) \in Nat /\ Ushort(size[2]) \in Nat
    BY DEF Ushort, Size
<1>2. MinSize[1] = 1024 /\ MinSize[2] = 768
    BY FixedFacts
<1>3. \A n \in Nat : /\ Larger(1024, n) \in Nat /\ Larger(1024, n) >= 1024
                     /\ Larger(768, n) \in Nat /\ Larger(768, n) >= 768
    BY DEF Larger
<1> QED
    BY <1>1, <1>2, <1>3 DEF Clamp, Size, AtLeast

LEMMA WriteOne ==
    ASSUME NEW m \in Size, NEW x \in Nat
    PROVE  /\ [m EXCEPT ![1] = x] = <<x, m[2]>>
           /\ [m EXCEPT ![2] = x] = <<m[1], x>>
    BY DEF Size

LEMMA SameSize ==
    ASSUME NEW m \in Size, NEW n \in Size, m[1] = n[1], m[2] = n[2]
    PROVE  m = n
    BY DEF Size

LEMMA StrideNat == \A n \in Nat : Stride(n) \in Nat
    BY DEF Stride

-----------------------------------------------------------------------------
(* The list is filled once; from then on the fixed modes stay as they are,    *)
(* and the two custom slots take turns.                                     *)
StartSteps == {"fill", "ask", "pick", "store", "take", "width", "height", "stride", "done"}
WorkerSteps == {"idle", "ask", "pick", "store", "take", "width", "height", "stride", "clear"}
DxgSteps == {"starting", "idle", "enum_width", "enum_height", "match_width", "match_height",
             "create", "resource"}
Custom == {4, 5}

TypeInv ==
    /\ modeInfo \in [Slots -> Size] /\ stride \in [Slots -> Nat]
    /\ modeCount \in Int /\ customMode \in Int
    /\ host \in Size /\ asked \in [Threads -> Size] /\ slot \in [Threads -> Int]
    /\ pc \in [Threads -> StartSteps \cup WorkerSteps]
    /\ pc["start"] \in StartSteps /\ pc["worker"] \in WorkerSteps
    /\ changed \in BOOLEAN /\ announced \in BOOLEAN /\ slept \in BOOLEAN
    /\ raced \in BOOLEAN /\ clash \in BOOLEAN /\ spoiled \in BOOLEAN /\ fault \in BOOLEAN
    /\ early \in BOOLEAN
    /\ dxg \in DxgSteps /\ reading \in Int /\ width \in Nat /\ writes \in Nat

StartInv ==
    /\ pc["start"] # "done" => dxg = "starting"
    /\ pc["start"] = "fill" => modeCount = 0
    /\ fault => early

(* What a worker chooses that finds no list: (USHORT)(0 - 1).                *)
Nowhere == 65535
Chosen == {"store", "take", "width"}
Half == {"height", "stride"}

(* Only a worker that found no list holds such a slot, and it is m_CustomMode *)
(* only while that worker is on its way to the write; the thread of            *)
(* StartDevice may take it up from there.                                   *)
ChosenInv ==
    ~ fault =>
        /\ pc["start"] = "fill" =>
              /\ customMode = IF pc["worker"] \in {"take", "width"} THEN Nowhere ELSE 0
              /\ pc["worker"] \notin Half
              /\ pc["worker"] \in Chosen => slot["worker"] = Nowhere
        /\ pc["start"] # "fill" => customMode \in Custom \cup {Nowhere}
        /\ customMode = Nowhere => pc["worker"] \in {"take", "width"} /\ slot["worker"] = Nowhere
        /\ pc["worker"] \in Chosen =>
              slot["worker"] \in Custom \/ (slot["worker"] = Nowhere /\ early)
        /\ pc["start"] \in {"store", "take"} => slot["start"] \in Custom
        /\ pc["start"] = "width" =>
              slot["start"] \in Custom \/ (slot["start"] = Nowhere /\ customMode = Nowhere)
        /\ \A t \in Threads : pc[t] \in Half => slot[t] \in Custom

FilledInv ==
    pc["start"] # "fill" =>
        /\ modeCount = 6
        /\ \A s \in 0 .. 3 : modeInfo[s] = Fixed[s + 1] /\ stride[s] = Stride(Fixed[s + 1][1])
        /\ \A s \in Custom : AtLeast(modeInfo[s])

OfferedInv ==
    /\ reading \in 0 .. 5
    /\ dxg = "enum_height" => width >= 1024
    /\ \A m \in offered : m \in Size /\ AtLeast(m)

ListInv == TypeInv /\ StartInv /\ ChosenInv /\ FilledInv /\ OfferedInv

LEMMA ThreadsTwo == Threads = {"start", "worker"} /\ "start" # "worker"
    BY DEF Threads

LEMMA EverySlotLarge ==
    ASSUME TypeInv, FilledInv, pc["start"] # "fill", NEW s \in 0 .. 5
    PROVE  modeInfo[s] \in Size /\ AtLeast(modeInfo[s])
<1>1. s \in 0 .. 3 \/ s \in Custom
    BY DEF Custom
<1>2. modeInfo[s] \in Size
    BY FixedFacts DEF TypeInv
<1> QED
    BY <1>1, <1>2, FixedFacts DEF FilledInv, AtLeast

LEMMA ListStart == Init => ListInv
<1> SUFFICES ASSUME Init PROVE ListInv
    OBVIOUS
<1>1. NoSize \in Size /\ HostSizes \subseteq Size
    BY HostSizesAssumption DEF NoSize, Size
<1>2. /\ pc \in [Threads -> StartSteps \cup WorkerSteps]
      /\ pc["start"] = "fill" /\ pc["worker"] = "idle"
    BY ThreadsTwo DEF Init, StartSteps, WorkerSteps
<1>3. TypeInv
  <2>1. modeInfo \in [Slots -> Size] /\ asked \in [Threads -> Size] /\ slot \in [Threads -> Int]
        /\ stride \in [Slots -> Nat]
      BY <1>1 DEF Init
  <2>2. changed \in BOOLEAN /\ announced \in BOOLEAN
      BY Zenon DEF Init
  <2>3. host \in Size
      BY <1>1 DEF Init
  <2>4. /\ modeCount \in Int /\ customMode \in Int /\ reading \in Int
        /\ width \in Nat /\ writes \in Nat /\ dxg \in DxgSteps
      BY DEF Init, DxgSteps
  <2>5. /\ slept \in BOOLEAN /\ raced \in BOOLEAN /\ clash \in BOOLEAN
        /\ spoiled \in BOOLEAN /\ fault \in BOOLEAN /\ early \in BOOLEAN
      BY DEF Init
  <2> QED
      BY <1>2, <2>1, <2>2, <2>3, <2>4, <2>5 DEF TypeInv, StartSteps, WorkerSteps
<1>4. StartInv /\ FilledInv /\ OfferedInv
    BY <1>2 DEF Init, StartInv, FilledInv, OfferedInv
<1>5. ChosenInv
  <2>1. \A t \in Threads : pc[t] \notin Half
      BY <1>2, ThreadsTwo DEF Half
  <2>2. customMode = 0 /\ 0 # Nowhere
      BY DEF Init, Nowhere
  <2> QED
      BY <1>2, <2>1, <2>2 DEF ChosenInv, Chosen, Half
<1> QED
    BY <1>3, <1>4, <1>5 DEF ListInv

LEMMA UshortBelow ==
    ASSUME NEW n \in Int, n >= -65536, n < 0
    PROVE  Ushort(n) = n + 65536
    BY DEF Ushort

(* Choosing the other slot.                                                *)
LEMMA OtherSlot ==
    ASSUME TypeInv, FilledInv, StartInv, ChosenInv, ~ fault
    PROVE  /\ pc["start"] # "fill" =>
                 /\ Ushort(NextCustomMode) = (IF customMode = 5 THEN 4 ELSE 5)
                 /\ Ushort(NextCustomMode) \in Custom
                 /\ Ushort(NextCustomMode) # customMode
           /\ pc["start"] = "fill" => Ushort(NextCustomMode) = Nowhere
<1>1. pc["start"] # "fill" => NextCustomMode = IF customMode = 5 THEN 4 ELSE 5
    BY DEF NextCustomMode, FilledInv
<1>2. Ushort(4) = 4 /\ Ushort(5) = 5 /\ Ushort(-1) = Nowhere
  <2>1. 4 % 65536 = 4 /\ 5 % 65536 = 5
      OBVIOUS
  <2>2. PICK n \in Int : n = -1
      OBVIOUS
  <2>3. Ushort(n) = Nowhere
      BY <2>2, UshortBelow DEF Nowhere
  <2> QED
      BY <2>1, <2>2, <2>3 DEF Ushort
<1>3. ASSUME pc["start"] = "fill"
      PROVE  NextCustomMode = -1
  <2>1. modeCount = 0 /\ customMode >= 0
      BY <1>3 DEF StartInv, ChosenInv, Nowhere
  <2> QED
      BY <2>1 DEF NextCustomMode, TypeInv
<1> QED
    BY <1>1, <1>2, <1>3 DEF FilledInv, Custom

(* A thread's step.                                                         *)
LEMMA ThreadMoves ==
    ASSUME TypeInv, NEW t \in Threads, NEW p \in StartSteps \cup WorkerSteps,
           t = "start" => p \in StartSteps, t = "worker" => p \in WorkerSteps,
           pc' = [pc EXCEPT ![t] = p]
    PROVE  /\ pc' \in [Threads -> StartSteps \cup WorkerSteps]
           /\ pc'["start"] \in StartSteps /\ pc'["worker"] \in WorkerSteps
           /\ pc'[t] = p /\ \A u \in Threads : u # t => pc'[u] = pc[u]
    BY ThreadsTwo DEF TypeInv

LEMMA FillKeepsList ==
    ASSUME ListInv, FillList
    PROVE  ListInv'
<1>1. /\ pc["start"] = "fill" /\ ~ fault /\ ~ fault' /\ modeInfo' = FreshList
      /\ customMode' = 4 /\ modeCount' = 6
      /\ stride' = [s \in Slots |-> Stride(FreshList[s][1])]
      /\ (early' <=> early)
    BY FixedFacts DEF FillList
<1>2. /\ pc' \in [Threads -> StartSteps \cup WorkerSteps]
      /\ pc'["start"] = "ask" /\ pc'["worker"] \in WorkerSteps /\ pc'["worker"] = pc["worker"]
    BY ThreadMoves, ThreadsTwo DEF FillList, ListInv, StartSteps
<1>3. \A s \in 0 .. 5 : FreshList[s] \in Size /\ AtLeast(FreshList[s])
  <2>1. <<1024, 768>> \in Size /\ AtLeast(<<1024, 768>>)
      BY DEF Size, AtLeast
  <2>2. \A s \in 0 .. 5 : s \in 0 .. 3 \/ s \in {4, 5}
      OBVIOUS
  <2> QED
      BY <2>1, <2>2, FixedFacts DEF Size, AtLeast
<1>4. FreshList \in [Slots -> Size]
    BY <1>3, FixedFacts DEF FreshList
<1>5. stride' \in [Slots -> Nat]
  <2>1. \A s \in Slots : FreshList[s][1] \in Nat
      BY <1>4 DEF Size
  <2> QED
      BY <1>1, <2>1, StrideNat
<1>6. TypeInv'
  <2>1. /\ host' \in Size /\ asked' \in [Threads -> Size] /\ slot' \in [Threads -> Int]
        /\ dxg' \in DxgSteps /\ reading' \in Int /\ width' \in Nat /\ writes' \in Nat
      BY Zenon DEF FillList, hostVars, dxgVars, pastVars, ListInv, TypeInv
  <2>2. /\ changed' \in BOOLEAN /\ announced' \in BOOLEAN /\ slept' \in BOOLEAN
        /\ raced' \in BOOLEAN /\ spoiled' \in BOOLEAN /\ fault' \in BOOLEAN /\ early' \in BOOLEAN
      BY Zenon DEF FillList, hostVars, ListInv, TypeInv
  <2>3. clash' \in BOOLEAN
      BY Zenon DEF FillList
  <2> QED
      BY <1>1, <1>2, <1>4, <1>5, <2>1, <2>2, <2>3 DEF TypeInv, StartSteps
<1>7. StartInv'
  <2>1. dxg' = dxg
      BY DEF FillList, dxgVars
  <2> QED
      BY <1>1, <1>2, <2>1 DEF ListInv, StartInv
<1>8. ChosenInv'
  <2>1. slot' = slot
      BY DEF FillList
  <2>2. \A t \in Threads : pc'[t] \notin Half
      BY <1>1, <1>2, ThreadsTwo DEF ListInv, ChosenInv, Half
  <2>3. pc'["worker"] \in Chosen => slot'["worker"] = Nowhere /\ early'
      BY <1>1, <1>2, <2>1 DEF ListInv, ChosenInv, Custom, Nowhere
  <2>4. customMode' \in Custom /\ customMode' # Nowhere
      BY <1>1 DEF Custom, Nowhere
  <2> QED
      BY <1>1, <1>2, <2>2, <2>3, <2>4 DEF ChosenInv
<1>9. FilledInv'
  <2>1. \A s \in Custom : s \in 0 .. 5
      BY DEF Custom
  <2>2. \A s \in 0 .. 3 : modeInfo'[s] = Fixed[s + 1]
      BY <1>1, FixedFacts
  <2>3. \A s \in 0 .. 3 : stride'[s] = Stride(Fixed[s + 1][1])
    <3>1. \A s \in 0 .. 3 : s \in Slots
        BY FixedFacts
    <3> QED
        BY <1>1, <3>1, FixedFacts
  <2>4. \A s \in Custom : AtLeast(modeInfo'[s])
      BY <1>1, <1>3, <2>1
  <2> QED
      BY <1>1, <2>2, <2>3, <2>4 DEF FilledInv, AtLeast
<1>10. OfferedInv'
    BY DEF FillList, dxgVars, ListInv, OfferedInv
<1> QED
    BY <1>6, <1>7, <1>8, <1>9, <1>10 DEF ListInv

(* The steps of the threads that leave the list and the reader alone.         *)
LEMMA AsideKeepsList ==
    ASSUME ListInv, ~ fault,
           UNCHANGED <<modeInfo, stride, modeCount, customMode, reading, width, offered>>,
           host' \in Size, asked' \in [Threads -> Size], slot' = slot,
           fault' <=> fault, early' <=> early,
           pc' \in [Threads -> StartSteps \cup WorkerSteps],
           pc'["start"] \in StartSteps, pc'["worker"] \in WorkerSteps,
           pc'["start"] = "fill" <=> pc["start"] = "fill",
           \A t \in Threads : pc'[t] = pc[t] \/ (pc[t] \notin Filling /\ pc'[t] \notin Filling),
           dxg' = dxg \/ (dxg' = "idle" /\ pc'["start"] = "done"),
           pc["start"] = "done" => pc'["start"] = "done",
           changed' \in BOOLEAN, announced' \in BOOLEAN, slept' \in BOOLEAN,
           raced' \in BOOLEAN, clash' \in BOOLEAN, spoiled' \in BOOLEAN, writes' \in Nat
    PROVE  ListInv'
<1>1. TypeInv'
  <2>1. fault' \in BOOLEAN /\ early' \in BOOLEAN
    <3>1. fault \in BOOLEAN /\ early \in BOOLEAN
        BY DEF ListInv, TypeInv
    <3> QED
        BY <3>1, Zenon
  <2> QED
      BY <2>1 DEF ListInv, TypeInv, DxgSteps
<1>2. StartInv'
    BY ThreadsTwo DEF ListInv, StartInv
<1>3. ChosenInv'
  <2>1. \A t \in Threads : /\ pc'[t] \in Chosen \cup Half => pc'[t] = pc[t]
                           /\ pc[t] \in Chosen \cup Half => pc'[t] = pc[t]
      BY DEF Chosen, Half, Filling, Writing
  <2> QED
      BY <2>1, ThreadsTwo DEF ListInv, ChosenInv, Chosen, Half
<1>4. FilledInv'
    BY DEF ListInv, FilledInv
<1>5. OfferedInv'
    BY DEF ListInv, OfferedInv
<1> QED
    BY <1>1, <1>2, <1>3, <1>4, <1>5 DEF ListInv

LEMMA ResizeKeepsList == ASSUME ListInv, HostResizes PROVE ListInv'
<1>1. host' \in Size
    BY HostSizesAssumption DEF HostResizes, Size
<1>2. raced' \in BOOLEAN /\ clash' \in BOOLEAN /\ spoiled' \in BOOLEAN
    BY Zenon DEF HostResizes, ListInv, TypeInv
<1> QED
    BY <1>1, <1>2, AsideKeepsList DEF HostResizes, ListInv, TypeInv, listVars, threadVars, dxgVars

LEMMA WakeKeepsList == ASSUME ListInv, WorkerWakes PROVE ListInv'
<1>1. PICK p \in {"ask", "idle"} : pc' = [pc EXCEPT !["worker"] = p]
    BY DEF WorkerWakes
<1>2. /\ pc' \in [Threads -> StartSteps \cup WorkerSteps]
      /\ pc'["worker"] = p /\ pc'["start"] = pc["start"]
      /\ pc'["start"] \in StartSteps /\ pc'["worker"] \in WorkerSteps
    BY <1>1, ThreadMoves, ThreadsTwo DEF ListInv, WorkerSteps
<1>3. \A t \in Threads : pc'[t] = pc[t] \/ (pc[t] \notin Filling /\ pc'[t] \notin Filling)
    BY <1>2, ThreadsTwo DEF WorkerWakes, Filling, Writing
<1> QED
    BY <1>2, <1>3, AsideKeepsList
    DEF WorkerWakes, ListInv, TypeInv, listVars, dxgVars, pastVars

LEMMA ClearKeepsList == ASSUME ListInv, WorkerClears PROVE ListInv'
<1>1. pc' = [pc EXCEPT !["worker"] = "idle"]
    BY DEF WorkerClears
<1>2. /\ pc' \in [Threads -> StartSteps \cup WorkerSteps]
      /\ pc'["worker"] = "idle" /\ pc'["start"] = pc["start"]
      /\ pc'["start"] \in StartSteps /\ pc'["worker"] \in WorkerSteps
    BY <1>1, ThreadMoves, ThreadsTwo DEF ListInv, WorkerSteps
<1>3. \A t \in Threads : pc'[t] = pc[t] \/ (pc[t] \notin Filling /\ pc'[t] \notin Filling)
    BY <1>2, ThreadsTwo DEF WorkerClears, Filling, Writing
<1> QED
    BY <1>2, <1>3, AsideKeepsList
    DEF WorkerClears, ListInv, TypeInv, listVars, dxgVars

LEMMA CycleKeepsList == ASSUME ListInv, PowerCycle PROVE ListInv'
    BY AsideKeepsList DEF PowerCycle, ListInv, TypeInv, listVars, threadVars, dxgVars

LEMMA StartedKeepsList == ASSUME ListInv, Started PROVE ListInv'
    BY AsideKeepsList
    DEF Started, ListInv, TypeInv, listVars, hostVars, threadVars, pastVars

LEMMA AskTo ==
    ASSUME ListInv, NEW t \in Threads, AskDisplayInfo(t)
    PROVE  /\ pc' \in [Threads -> StartSteps \cup WorkerSteps]
           /\ pc'["start"] \in StartSteps /\ pc'["worker"] \in WorkerSteps
           /\ pc'[t] = (IF host[1] = 0 \/ host[2] = 0 THEN AfterCustom(t) ELSE "pick")
           /\ \A u \in Threads : u # t => pc'[u] = pc[u]
<1>1. PICK p : p = IF host[1] = 0 \/ host[2] = 0 THEN AfterCustom(t) ELSE "pick"
    OBVIOUS
<1>2. /\ t = "start" => p \in StartSteps
      /\ t = "worker" => p \in WorkerSteps
      /\ p \in StartSteps \cup WorkerSteps
    BY <1>1, ThreadsTwo DEF AfterCustom, StartSteps, WorkerSteps
<1>3. pc' = [pc EXCEPT ![t] = p]
    BY <1>1 DEF AskDisplayInfo
<1> QED
    BY <1>1, <1>2, <1>3, ThreadMoves DEF ListInv

LEMMA AskKeepsList ==
    ASSUME ListInv, NEW t \in Threads, AskDisplayInfo(t)
    PROVE  ListInv'
<1>1. /\ ~ fault /\ pc[t] = "ask" /\ asked' = [asked EXCEPT ![t] = host]
      /\ UNCHANGED <<listVars, hostVars, slot, dxgVars, writes, spoiled, clash, early, slept, fault>>
    BY DEF AskDisplayInfo
<1>2. asked' \in [Threads -> Size]
    BY <1>1 DEF ListInv, TypeInv
<1>3. pc'[t] \in {"done", "clear", "pick"}
    BY AskTo DEF AfterCustom
<1>4. raced' \in BOOLEAN
    BY Zenon DEF AskDisplayInfo
<1>5. /\ pc'["start"] = "fill" <=> pc["start"] = "fill"
      /\ pc["start"] = "done" => pc'["start"] = "done"
    BY <1>1, <1>3, AskTo, ThreadsTwo
<1>6. \A u \in Threads : pc'[u] = pc[u] \/ (pc[u] \notin Filling /\ pc'[u] \notin Filling)
    BY <1>1, <1>3, AskTo DEF Filling, Writing
<1> QED
    BY <1>1, <1>2, <1>4, <1>5, <1>6, AskTo, AsideKeepsList
    DEF ListInv, TypeInv, listVars, hostVars, dxgVars

(* From step to step of SetCustomDisplay.                                    *)
LEMMA StepTo ==
    ASSUME ListInv, NEW t \in Threads, NEW p \in Filling, pc' = [pc EXCEPT ![t] = p]
    PROVE  /\ pc' \in [Threads -> StartSteps \cup WorkerSteps]
           /\ pc'["start"] \in StartSteps /\ pc'["worker"] \in WorkerSteps
           /\ pc'[t] = p /\ \A u \in Threads : u # t => pc'[u] = pc[u]
<1>1. p \in StartSteps /\ p \in WorkerSteps /\ p \in StartSteps \cup WorkerSteps
    BY DEF StartSteps, WorkerSteps, Filling, Writing
<1> QED
    BY <1>1, ThreadMoves DEF ListInv

(* Those of its steps that write no slot.                                    *)
LEMMA SlotlessKeepsList ==
    ASSUME ListInv, UNCHANGED <<modeInfo, stride, modeCount, hostVars, asked, dxgVars>>,
           fault' <=> fault, early' \in BOOLEAN, ~ fault,
           slot' \in [Threads -> Int], customMode' \in Int,
           pc' \in [Threads -> StartSteps \cup WorkerSteps],
           pc'["start"] \in StartSteps, pc'["worker"] \in WorkerSteps,
           pc'["start"] = "fill" <=> pc["start"] = "fill",
           pc["start"] = "done" => pc'["start"] = "done",
           slept' \in BOOLEAN, raced' \in BOOLEAN, clash' \in BOOLEAN, spoiled' \in BOOLEAN,
           writes' \in Nat, ChosenInv'
    PROVE  ListInv'
<1>1. TypeInv'
  <2>1. fault' \in BOOLEAN /\ changed' \in BOOLEAN /\ announced' \in BOOLEAN
    <3>1. fault \in BOOLEAN /\ changed \in BOOLEAN /\ announced \in BOOLEAN
        BY DEF ListInv, TypeInv
    <3> QED
        BY <3>1, Zenon DEF hostVars
  <2> QED
      BY <2>1 DEF ListInv, TypeInv, hostVars, dxgVars
<1>2. StartInv'
    BY DEF ListInv, StartInv, dxgVars
<1>3. FilledInv'
    BY DEF ListInv, FilledInv
<1>4. OfferedInv'
    BY DEF ListInv, OfferedInv, dxgVars
<1> QED
    BY <1>1, <1>2, <1>3, <1>4 DEF ListInv

LEMMA PickKeepsList ==
    ASSUME ListInv, NEW t \in Threads, PickSlot(t)
    PROVE  ListInv'
<1>1. /\ ~ fault /\ pc[t] = "pick" /\ pc' = [pc EXCEPT ![t] = "store"]
      /\ slot' = [slot EXCEPT ![t] = Ushort(NextCustomMode)]
      /\ UNCHANGED <<modeInfo, stride, modeCount, hostVars, asked, dxgVars>>
      /\ customMode' = customMode /\ (fault' <=> fault)
    BY Zenon DEF PickSlot, listVars
<1>2. early' \in BOOLEAN
  <2>1. early \in BOOLEAN
      BY DEF ListInv, TypeInv
  <2>2. early' = (modeCount = 0) \/ early' = early
      BY Zenon DEF PickSlot
  <2> QED
      BY <2>1, <2>2, Zenon
<1>3. /\ slept' \in BOOLEAN /\ raced' \in BOOLEAN /\ clash' \in BOOLEAN /\ spoiled' \in BOOLEAN
      /\ writes' \in Nat
    BY Zenon DEF PickSlot, ListInv, TypeInv
<1>4. /\ pc' \in [Threads -> StartSteps \cup WorkerSteps]
      /\ pc'["start"] \in StartSteps /\ pc'["worker"] \in WorkerSteps
      /\ pc'[t] = "store" /\ \A u \in Threads : u # t => pc'[u] = pc[u]
    BY <1>1, StepTo DEF Filling, Writing
<1>5. /\ pc'["start"] = "fill" <=> pc["start"] = "fill"
      /\ pc["start"] = "done" => pc'["start"] = "done"
    BY <1>1, <1>4, ThreadsTwo
<1>6. PICK c : c = Ushort(NextCustomMode)
    OBVIOUS
<1>7. /\ pc["start"] # "fill" => c \in Custom
      /\ pc["start"] = "fill" => c = Nowhere
    BY <1>1, <1>6, OtherSlot DEF ListInv
<1>8. /\ slot' \in [Threads -> Int] /\ slot'[t] = c
      /\ \A u \in Threads : u # t => slot'[u] = slot[u]
    BY <1>1, <1>6, <1>7 DEF ListInv, TypeInv, Custom, Nowhere
<1>9. ChosenInv'
  <2>1. CASE t = "worker"
    <3>1. customMode # Nowhere /\ slot'["worker"] = c /\ slot'["start"] = slot["start"]
        BY <1>1, <1>8, <2>1, ThreadsTwo DEF ListInv, ChosenInv
    <3>2. pc["start"] = "fill" => early'
        BY <2>1 DEF PickSlot, ListInv, StartInv
    <3>3. \A u \in Threads : pc'[u] \in Half => slot'[u] \in Custom
        BY <1>1, <1>4, <1>8 DEF ListInv, ChosenInv, Half
    <3> QED
        BY <1>1, <1>4, <1>5, <1>7, <2>1, <3>1, <3>2, <3>3, ThreadsTwo
        DEF ListInv, ChosenInv, Chosen, Half
  <2>2. CASE t = "start"
    <3>1. slot'["start"] = c /\ slot'["worker"] = slot["worker"] /\ c \in Custom
        BY <1>1, <1>7, <1>8, <2>2, ThreadsTwo
    <3>2. early' <=> early
        BY <2>2, ThreadsTwo, Zenon DEF PickSlot
    <3>3. \A u \in Threads : pc'[u] \in Half => slot'[u] \in Custom
        BY <1>1, <1>4, <1>8 DEF ListInv, ChosenInv, Half
    <3> QED
        BY <1>1, <1>4, <1>5, <1>7, <2>2, <3>1, <3>2, <3>3, ThreadsTwo
        DEF ListInv, ChosenInv, Chosen, Half
  <2> QED
      BY <2>1, <2>2, ThreadsTwo
<1>10. customMode' \in Int
    BY <1>1 DEF ListInv, TypeInv
<1> QED
    BY <1>1, <1>2, <1>3, <1>4, <1>5, <1>8, <1>9, <1>10, SlotlessKeepsList

LEMMA StoreKeepsList ==
    ASSUME ListInv, NEW t \in Threads, StoreSlot(t)
    PROVE  ListInv'
<1>1. /\ ~ fault /\ pc[t] = "store" /\ pc' = [pc EXCEPT ![t] = "take"]
      /\ customMode' = slot[t] /\ slot' = slot /\ writes' = writes + 1
      /\ UNCHANGED <<modeInfo, stride, modeCount, hostVars, asked, dxgVars>>
      /\ (fault' <=> fault) /\ (early' <=> early)
    BY Zenon DEF StoreSlot
<1>2. /\ slept' \in BOOLEAN /\ raced' \in BOOLEAN /\ clash' \in BOOLEAN /\ spoiled' \in BOOLEAN
      /\ early' \in BOOLEAN
    BY Zenon DEF StoreSlot, ListInv, TypeInv
<1>3. /\ pc' \in [Threads -> StartSteps \cup WorkerSteps]
      /\ pc'["start"] \in StartSteps /\ pc'["worker"] \in WorkerSteps
      /\ pc'[t] = "take" /\ \A u \in Threads : u # t => pc'[u] = pc[u]
    BY <1>1, StepTo DEF Filling, Writing
<1>4. /\ pc'["start"] = "fill" <=> pc["start"] = "fill"
      /\ pc["start"] = "done" => pc'["start"] = "done"
    BY <1>1, <1>3, ThreadsTwo
<1>5. \A u \in Threads : pc'[u] \in Half => slot'[u] \in Custom
    BY <1>1, <1>3 DEF ListInv, ChosenInv, Half
<1>6. ChosenInv'
  <2>1. CASE t = "worker"
    <3>1. pc["worker"] \in Chosen /\ pc'["worker"] \in Chosen /\ customMode # Nowhere
        BY <1>1, <1>3, <2>1 DEF ListInv, ChosenInv, Chosen
    <3>2. slot["worker"] \in Custom \/ (slot["worker"] = Nowhere /\ early)
        BY <1>1, <3>1 DEF ListInv, ChosenInv
    <3> QED
        BY <1>1, <1>3, <1>4, <1>5, <2>1, <3>1, <3>2, ThreadsTwo
        DEF ListInv, ChosenInv, Chosen, Half, Custom, Nowhere
  <2>2. CASE t = "start"
    <3>1. slot["start"] \in Custom /\ customMode' \in Custom /\ customMode' # Nowhere
        BY <1>1, <2>2 DEF ListInv, ChosenInv, Custom, Nowhere
    <3> QED
        BY <1>1, <1>3, <1>4, <1>5, <2>2, <3>1, ThreadsTwo DEF ListInv, ChosenInv
  <2> QED
      BY <2>1, <2>2, ThreadsTwo
<1>7. customMode' \in Int /\ writes' \in Nat /\ slot' \in [Threads -> Int]
    BY <1>1 DEF ListInv, TypeInv
<1> QED
    BY <1>1, <1>2, <1>3, <1>4, <1>6, <1>7, SlotlessKeepsList

LEMMA TakeKeepsList ==
    ASSUME ListInv, NEW t \in Threads, TakeSlot(t)
    PROVE  ListInv'
<1>1. /\ ~ fault /\ pc[t] = "take" /\ pc' = [pc EXCEPT ![t] = "width"]
      /\ UNCHANGED <<modeInfo, stride, modeCount, hostVars, asked, dxgVars>>
      /\ customMode' = customMode /\ (fault' <=> fault) /\ (early' <=> early)
    BY Zenon DEF TakeSlot, listVars, pastVars
<1>2. /\ slept' \in BOOLEAN /\ raced' \in BOOLEAN /\ clash' \in BOOLEAN /\ spoiled' \in BOOLEAN
      /\ early' \in BOOLEAN /\ writes' \in Nat
    BY Zenon DEF TakeSlot, pastVars, ListInv, TypeInv
<1>3. /\ pc' \in [Threads -> StartSteps \cup WorkerSteps]
      /\ pc'["start"] \in StartSteps /\ pc'["worker"] \in WorkerSteps
      /\ pc'[t] = "width" /\ \A u \in Threads : u # t => pc'[u] = pc[u]
    BY <1>1, StepTo DEF Filling, Writing
<1>4. /\ pc'["start"] = "fill" <=> pc["start"] = "fill"
      /\ pc["start"] = "done" => pc'["start"] = "done"
    BY <1>1, <1>3, ThreadsTwo
<1>5. PICK c : (c = slot[t] \/ c = customMode) /\ slot' = [slot EXCEPT ![t] = c]
    BY DEF TakeSlot
<1>6. /\ slot' \in [Threads -> Int] /\ slot'[t] = c
      /\ \A u \in Threads : u # t => slot'[u] = slot[u]
    BY <1>5 DEF ListInv, TypeInv
<1>7. \A u \in Threads : pc'[u] \in Half => slot'[u] \in Custom
    BY <1>1, <1>3, <1>6 DEF ListInv, ChosenInv, Half
<1>8. ChosenInv'
  <2>1. CASE t = "worker"
    <3>1. pc["worker"] \in Chosen /\ pc'["worker"] \in Chosen
        BY <1>1, <1>3, <2>1 DEF Chosen
    <3>2. customMode = Nowhere => c = Nowhere
        BY <1>1, <1>5, <2>1 DEF ListInv, ChosenInv
    <3>3. pc["start"] = "fill" => c = Nowhere
        BY <1>1, <1>5, <2>1, <3>1 DEF ListInv, ChosenInv
    <3>4. c \in Custom \/ (c = Nowhere /\ early)
      <4>1. slot["worker"] \in Custom \/ (slot["worker"] = Nowhere /\ early)
          BY <1>1, <3>1 DEF ListInv, ChosenInv
      <4>2. customMode \in Custom \/ slot["worker"] = Nowhere
          BY <1>1, <3>1 DEF ListInv, ChosenInv
      <4>3. customMode \in Custom \/ customMode = Nowhere
          BY <1>1, <2>1 DEF ListInv, ChosenInv
      <4> QED
          BY <1>5, <2>1, <4>1, <4>2, <4>3 DEF Custom, Nowhere
    <3>5. pc["start"] # "width" \/ slot["start"] \in Custom
                               \/ (slot["start"] = Nowhere /\ customMode = Nowhere)
        BY <1>1 DEF ListInv, ChosenInv
    <3>6. slot'["worker"] = c /\ slot'["start"] = slot["start"]
        BY <1>6, <2>1, ThreadsTwo
    <3> QED
        BY <1>1, <1>3, <1>4, <1>7, <2>1, <3>1, <3>2, <3>3, <3>4, <3>5, <3>6, ThreadsTwo
        DEF ListInv, ChosenInv, Half
  <2>2. CASE t = "start"
    <3>1. pc["start"] # "fill" /\ slot["start"] \in Custom /\ customMode \in Custom \cup {Nowhere}
        BY <1>1, <2>2 DEF ListInv, ChosenInv
    <3>2. c \in Custom \/ (c = Nowhere /\ customMode = Nowhere)
        BY <1>5, <2>2, <3>1
    <3>3. slot'["start"] = c /\ slot'["worker"] = slot["worker"]
        BY <1>6, <2>2, ThreadsTwo
    <3> QED
        BY <1>1, <1>3, <1>4, <1>7, <2>2, <3>1, <3>2, <3>3, ThreadsTwo DEF ListInv, ChosenInv
  <2> QED
      BY <2>1, <2>2, ThreadsTwo
<1>9. customMode' \in Int
    BY <1>1 DEF ListInv, TypeInv
<1> QED
    BY <1>1, <1>2, <1>3, <1>4, <1>6, <1>8, <1>9, SlotlessKeepsList

(* A write: into one of the custom slots, or WriteWidth faults.               *)
LEMMA WidthWhere ==
    ASSUME ListInv, NEW t \in Threads, WriteWidth(t)
    PROVE  /\ fault' <=> (pc["start"] = "fill" \/ slot[t] = Nowhere)
           /\ fault' => early
           /\ ~ fault' => slot[t] \in Custom
<1>1. ~ fault /\ pc[t] = "width" /\ (fault' <=> (modeCount = 0 \/ slot[t] \notin Slots))
    BY Zenon DEF WriteWidth
<1>2. slot[t] \in Custom \/ (slot[t] = Nowhere /\ early)
  <2>1. CASE t = "worker"
      BY <1>1, <2>1 DEF ListInv, ChosenInv, Chosen
  <2>2. CASE t = "start"
    <3>1. slot["start"] \in Custom \/ (slot["start"] = Nowhere /\ customMode = Nowhere)
        BY <1>1, <2>2 DEF ListInv, ChosenInv
    <3>2. customMode = Nowhere => early
        BY <1>1 DEF ListInv, ChosenInv, Chosen, Custom, Nowhere
    <3> QED
        BY <2>2, <3>1, <3>2
  <2> QED
      BY <2>1, <2>2, ThreadsTwo
<1>3. Custom \subseteq Slots /\ Nowhere \notin Slots
    BY FixedFacts DEF Custom, Nowhere
<1>4. modeCount = 0 <=> pc["start"] = "fill"
    BY DEF ListInv, StartInv, FilledInv
<1>5. pc["start"] = "fill" => slot[t] = Nowhere
    BY <1>1, ThreadsTwo DEF ListInv, ChosenInv, Chosen
<1> QED
    BY <1>1, <1>2, <1>3, <1>4, <1>5 DEF Custom, Nowhere

(* The list with something else in one custom slot.                           *)
LEMMA OneWritten ==
    ASSUME FilledInv, pc["start"] # "fill", modeCount' = modeCount, stride' = stride,
           NEW c \in Custom, NEW n \in Size, AtLeast(n), modeInfo'[c] = n,
           \A s \in Slots : s # c => modeInfo'[s] = modeInfo[s]
    PROVE  FilledInv'
<1>1. \A s \in 0 .. 3 : s \in Slots /\ s # c
    BY FixedFacts DEF Custom
<1>2. \A s \in Custom : s \in Slots
    BY FixedFacts DEF Custom
<1>3. \A s \in 0 .. 3 : modeInfo'[s] = Fixed[s + 1] /\ stride'[s] = Stride(Fixed[s + 1][1])
    BY <1>1 DEF FilledInv
<1>4. \A s \in Custom : AtLeast(modeInfo'[s])
    BY <1>2 DEF FilledInv
<1> QED
    BY <1>3, <1>4 DEF FilledInv, AtLeast

LEMMA WidthKeepsList ==
    ASSUME ListInv, NEW t \in Threads, WriteWidth(t)
    PROVE  ListInv'
<1>1. /\ ~ fault /\ pc[t] = "width"
      /\ modeInfo' = IF fault' THEN modeInfo
                     ELSE [modeInfo EXCEPT ![slot[t]][1] = Clamp(asked[t])[1]]
      /\ pc' = [pc EXCEPT ![t] = "height"]
      /\ UNCHANGED <<stride, modeCount, customMode, hostVars, asked, slot, dxgVars, writes>>
      /\ (early' <=> early)
    BY Zenon DEF WriteWidth
<1>2. /\ pc' \in [Threads -> StartSteps \cup WorkerSteps]
      /\ pc'["start"] \in StartSteps /\ pc'["worker"] \in WorkerSteps
      /\ pc'[t] = "height" /\ \A u \in Threads : u # t => pc'[u] = pc[u]
    BY <1>1, StepTo DEF Filling, Writing
<1>3. /\ spoiled' \in BOOLEAN /\ fault' \in BOOLEAN /\ early' \in BOOLEAN
      /\ raced' \in BOOLEAN /\ clash' \in BOOLEAN /\ slept' \in BOOLEAN
      /\ changed' \in BOOLEAN /\ announced' \in BOOLEAN
    BY Zenon DEF WriteWidth, hostVars, ListInv, TypeInv
<1>4. OfferedInv'
    BY <1>1 DEF ListInv, OfferedInv, dxgVars
<1>5. pc'["start"] = "fill" <=> pc["start"] = "fill"
    BY <1>1, <1>2, ThreadsTwo
<1>6. StartInv'
  <2>1. pc["start"] = "done" => pc'["start"] = "done"
      BY <1>1, <1>2, ThreadsTwo
  <2>2. dxg' = dxg /\ modeCount' = modeCount
      BY <1>1 DEF dxgVars
  <2> QED
      BY <1>1, <1>5, <2>1, <2>2, WidthWhere DEF ListInv, StartInv
<1>7. /\ host' \in Size /\ asked' \in [Threads -> Size] /\ slot' \in [Threads -> Int]
      /\ stride' \in [Slots -> Nat] /\ modeCount' \in Int /\ customMode' \in Int
      /\ dxg' \in DxgSteps /\ reading' \in Int /\ width' \in Nat /\ writes' \in Nat
    BY <1>1 DEF hostVars, dxgVars, ListInv, TypeInv
<1>8. CASE fault'
  <2>1. modeInfo' = modeInfo
      BY <1>1, <1>8
  <2>2. TypeInv'
      BY <1>2, <1>3, <1>7, <2>1 DEF ListInv, TypeInv
  <2>3. ChosenInv'
      BY <1>8 DEF ChosenInv
  <2>4. FilledInv'
      BY <1>1, <1>5, <2>1 DEF ListInv, FilledInv
  <2> QED
      BY <1>4, <1>6, <2>2, <2>3, <2>4 DEF ListInv
<1>9. CASE ~ fault'
  <2>1. PICK c \in Custom : c = slot[t]
      BY <1>9, WidthWhere
  <2>2. c \in Slots /\ c \in 0 .. 5 /\ pc["start"] # "fill"
      BY <1>9, FixedFacts, WidthWhere DEF Custom
  <2>3. modeInfo[c] \in Size /\ AtLeast(modeInfo[c])
      BY <2>2, EverySlotLarge DEF ListInv
  <2>4. Clamp(asked[t]) \in Size /\ AtLeast(Clamp(asked[t]))
      BY ClampLarge DEF ListInv, TypeInv
  <2>5. PICK n : n = <<Clamp(asked[t])[1], modeInfo[c][2]>>
      OBVIOUS
  <2>6. n \in Size /\ AtLeast(n)
      BY <2>3, <2>4, <2>5 DEF Size, AtLeast
  <2>7. modeInfo' = [modeInfo EXCEPT ![c] = n]
    <3>1. modeInfo' = [modeInfo EXCEPT ![c] = [modeInfo[c] EXCEPT ![1] = Clamp(asked[t])[1]]]
        BY <1>1, <1>9, <2>1
    <3>2. [modeInfo[c] EXCEPT ![1] = Clamp(asked[t])[1]] = n
        BY <2>3, <2>4, <2>5, WriteOne DEF Size
    <3> QED
        BY <3>1, <3>2
  <2>8. modeInfo' \in [Slots -> Size]
      BY <2>2, <2>6, <2>7 DEF ListInv, TypeInv
  <2>9. modeInfo'[c] = n /\ \A s \in Slots : s # c => modeInfo'[s] = modeInfo[s]
      BY <2>2, <2>7 DEF ListInv, TypeInv
  <2>10. TypeInv'
      BY <1>2, <1>3, <1>7, <2>8 DEF TypeInv
  <2>11. ChosenInv'
    <3>1. \A u \in Threads : pc'[u] \in Half => slot'[u] \in Custom
        BY <1>1, <1>2, <2>1 DEF ListInv, ChosenInv, Half
    <3>2. t = "worker" => customMode # Nowhere
        BY <1>1, <2>1 DEF ListInv, ChosenInv, Custom, Nowhere
    <3> QED
        BY <1>1, <1>2, <1>5, <1>9, <2>2, <3>1, <3>2, ThreadsTwo
        DEF ListInv, ChosenInv, Chosen
  <2>12. FilledInv'
      BY <1>1, <2>2, <2>6, <2>9, OneWritten DEF ListInv
  <2> QED
      BY <1>4, <1>6, <2>10, <2>11, <2>12 DEF ListInv
<1> QED
    BY <1>8, <1>9

LEMMA HeightKeepsList ==
    ASSUME ListInv, NEW t \in Threads, WriteHeight(t)
    PROVE  ListInv'
<1>1. /\ ~ fault /\ pc[t] = "height" /\ (fault' <=> fault)
      /\ modeInfo' = [modeInfo EXCEPT ![slot[t]][2] = Clamp(asked[t])[2]]
      /\ pc' = [pc EXCEPT ![t] = "stride"]
      /\ UNCHANGED <<stride, modeCount, customMode, hostVars, asked, slot, dxgVars, writes>>
      /\ (early' <=> early)
    BY Zenon DEF WriteHeight
<1>2. /\ pc' \in [Threads -> StartSteps \cup WorkerSteps]
      /\ pc'["start"] \in StartSteps /\ pc'["worker"] \in WorkerSteps
      /\ pc'[t] = "stride" /\ \A u \in Threads : u # t => pc'[u] = pc[u]
    BY <1>1, StepTo DEF Filling, Writing
<1>3. /\ spoiled' \in BOOLEAN /\ early' \in BOOLEAN /\ raced' \in BOOLEAN /\ clash' \in BOOLEAN
      /\ fault' \in BOOLEAN /\ slept' \in BOOLEAN /\ changed' \in BOOLEAN /\ announced' \in BOOLEAN
    BY Zenon DEF WriteHeight, hostVars, ListInv, TypeInv
<1>4. PICK c \in Custom : c = slot[t]
    BY <1>1 DEF ListInv, ChosenInv, Half
<1>5. c \in Slots /\ c \in 0 .. 5
    BY FixedFacts DEF Custom
<1>6. pc["start"] # "fill"
    BY <1>1, ThreadsTwo DEF ListInv, ChosenInv, Half
<1>7. /\ pc'["start"] # "fill"
      /\ pc["start"] = "done" => pc'["start"] = "done"
    BY <1>1, <1>2, <1>6, ThreadsTwo
<1>8. modeInfo[c] \in Size /\ AtLeast(modeInfo[c])
    BY <1>5, <1>6, EverySlotLarge DEF ListInv
<1>9. Clamp(asked[t]) \in Size /\ AtLeast(Clamp(asked[t]))
    BY ClampLarge DEF ListInv, TypeInv
<1>10. PICK n : n = <<modeInfo[c][1], Clamp(asked[t])[2]>>
    OBVIOUS
<1>11. n \in Size /\ AtLeast(n)
    BY <1>8, <1>9, <1>10 DEF Size, AtLeast
<1>12. modeInfo' = [modeInfo EXCEPT ![c] = n]
  <2>1. modeInfo' = [modeInfo EXCEPT ![c] = [modeInfo[c] EXCEPT ![2] = Clamp(asked[t])[2]]]
      BY <1>1, <1>4
  <2>2. [modeInfo[c] EXCEPT ![2] = Clamp(asked[t])[2]] = n
      BY <1>8, <1>9, <1>10, WriteOne DEF Size
  <2> QED
      BY <2>1, <2>2
<1>13. modeInfo' \in [Slots -> Size]
    BY <1>5, <1>11, <1>12 DEF ListInv, TypeInv
<1>14. modeInfo'[c] = n /\ \A s \in Slots : s # c => modeInfo'[s] = modeInfo[s]
    BY <1>5, <1>12 DEF ListInv, TypeInv
<1>15. /\ host' \in Size /\ asked' \in [Threads -> Size] /\ slot' \in [Threads -> Int]
       /\ stride' \in [Slots -> Nat] /\ modeCount' \in Int /\ customMode' \in Int
       /\ dxg' \in DxgSteps /\ reading' \in Int /\ width' \in Nat /\ writes' \in Nat
    BY <1>1 DEF hostVars, dxgVars, ListInv, TypeInv
<1>16. TypeInv'
    BY <1>2, <1>3, <1>13, <1>15 DEF TypeInv
<1>17. StartInv'
    BY <1>1, <1>7 DEF ListInv, StartInv, dxgVars
<1>18. ChosenInv'
  <2>1. \A u \in Threads : pc'[u] \in Half => slot'[u] \in Custom
      BY <1>1, <1>2, <1>4 DEF ListInv, ChosenInv, Half
  <2>2. t = "worker" => customMode # Nowhere
      BY <1>1 DEF ListInv, ChosenInv
  <2> QED
      BY <1>1, <1>2, <1>6, <1>7, <2>1, <2>2, ThreadsTwo DEF ListInv, ChosenInv, Chosen
<1>19. FilledInv'
    BY <1>1, <1>6, <1>11, <1>14, OneWritten DEF ListInv
<1>20. OfferedInv'
    BY <1>1 DEF ListInv, OfferedInv, dxgVars
<1> QED
    BY <1>16, <1>17, <1>18, <1>19, <1>20 DEF ListInv

LEMMA CustomTo ==
    ASSUME ListInv, NEW t \in Threads, pc' = [pc EXCEPT ![t] = AfterCustom(t)]
    PROVE  /\ pc' \in [Threads -> StartSteps \cup WorkerSteps]
           /\ pc'["start"] \in StartSteps /\ pc'["worker"] \in WorkerSteps
           /\ pc'[t] = (IF t = "start" THEN "done" ELSE "clear")
           /\ \A u \in Threads : u # t => pc'[u] = pc[u]
<1>1. PICK p : p = AfterCustom(t)
    OBVIOUS
<1>2. /\ t = "start" => p = "done"
      /\ t # "start" => p = "clear"
    BY <1>1 DEF AfterCustom
<1>3. p \in StartSteps \cup WorkerSteps
      /\ (t = "start" => p \in StartSteps) /\ (t = "worker" => p \in WorkerSteps)
    BY <1>2, ThreadsTwo DEF StartSteps, WorkerSteps
<1> QED
    BY <1>1, <1>2, <1>3, ThreadMoves DEF ListInv

LEMMA StrideKeepsList ==
    ASSUME ListInv, NEW t \in Threads, WriteStride(t)
    PROVE  ListInv'
<1>1. /\ ~ fault /\ pc[t] = "stride" /\ (fault' <=> fault)
      /\ stride' = [stride EXCEPT ![slot[t]] = Stride(Clamp(asked[t])[1])]
      /\ pc' = [pc EXCEPT ![t] = AfterCustom(t)]
      /\ UNCHANGED <<modeInfo, modeCount, customMode, hostVars, asked, slot, dxgVars, writes>>
      /\ (early' <=> early)
    BY Zenon DEF WriteStride
<1>2. /\ pc' \in [Threads -> StartSteps \cup WorkerSteps]
      /\ pc'["start"] \in StartSteps /\ pc'["worker"] \in WorkerSteps
      /\ pc'[t] = (IF t = "start" THEN "done" ELSE "clear")
      /\ \A u \in Threads : u # t => pc'[u] = pc[u]
    BY <1>1, CustomTo
<1>3. /\ spoiled' \in BOOLEAN /\ early' \in BOOLEAN /\ raced' \in BOOLEAN /\ clash' \in BOOLEAN
      /\ fault' \in BOOLEAN /\ slept' \in BOOLEAN /\ changed' \in BOOLEAN /\ announced' \in BOOLEAN
    BY Zenon DEF WriteStride, hostVars, ListInv, TypeInv
<1>4. PICK c \in Custom : c = slot[t]
    BY <1>1 DEF ListInv, ChosenInv, Half
<1>5. c \in Slots
    BY FixedFacts DEF Custom
<1>6. pc["start"] # "fill"
    BY <1>1, ThreadsTwo DEF ListInv, ChosenInv, Half
<1>7. /\ pc'["start"] # "fill"
      /\ pc["start"] = "done" => pc'["start"] = "done"
    BY <1>1, <1>2, <1>6, ThreadsTwo
<1>8. PICK n : n = Stride(Clamp(asked[t])[1])
    OBVIOUS
<1>9. n \in Nat
  <2>1. Clamp(asked[t])[1] \in Nat
      BY ClampLarge DEF ListInv, TypeInv, Size
  <2> QED
      BY <1>8, <2>1, StrideNat
<1>10. stride' \in [Slots -> Nat] /\ \A s \in Slots : s # c => stride'[s] = stride[s]
    BY <1>1, <1>4, <1>5, <1>8, <1>9 DEF ListInv, TypeInv
<1>11. /\ host' \in Size /\ asked' \in [Threads -> Size] /\ slot' \in [Threads -> Int]
       /\ modeInfo' \in [Slots -> Size] /\ modeCount' \in Int /\ customMode' \in Int
       /\ dxg' \in DxgSteps /\ reading' \in Int /\ width' \in Nat /\ writes' \in Nat
    BY <1>1 DEF hostVars, dxgVars, ListInv, TypeInv
<1>12. TypeInv'
    BY <1>2, <1>3, <1>10, <1>11 DEF TypeInv
<1>13. StartInv'
    BY <1>1, <1>7 DEF ListInv, StartInv, dxgVars
<1>14. ChosenInv'
  <2>1. \A u \in Threads : pc'[u] \in Half => slot'[u] \in Custom
      BY <1>1, <1>2, <1>4 DEF ListInv, ChosenInv, Half
  <2>2. t = "worker" => customMode # Nowhere
      BY <1>1 DEF ListInv, ChosenInv
  <2> QED
      BY <1>1, <1>2, <1>6, <1>7, <2>1, <2>2, ThreadsTwo DEF ListInv, ChosenInv, Chosen
<1>15. FilledInv'
  <2>1. \A s \in 0 .. 3 : s \in Slots /\ s # c
      BY FixedFacts DEF Custom
  <2> QED
      BY <1>1, <1>6, <1>10, <2>1 DEF ListInv, FilledInv
<1>16. OfferedInv'
    BY <1>1 DEF ListInv, OfferedInv, dxgVars
<1> QED
    BY <1>12, <1>13, <1>14, <1>15, <1>16 DEF ListInv

(* dxgkrnl's thread reads; it never writes the list.                          *)
LEMMA ReaderKeepsList ==
    ASSUME ListInv, UNCHANGED <<listVars, hostVars, threadVars>>,
           pc["start"] = "done", fault' <=> fault, early' <=> early,
           raced' \in BOOLEAN, clash' \in BOOLEAN, spoiled' \in BOOLEAN, slept' \in BOOLEAN,
           dxg' \in DxgSteps, reading' \in 0 .. 5, width' \in Nat, writes' \in Nat,
           dxg' = "enum_height" => width' >= 1024,
           \A m \in offered' : m \in Size /\ AtLeast(m)
    PROVE  ListInv'
<1>1. /\ modeInfo' = modeInfo /\ stride' = stride /\ modeCount' = modeCount
      /\ customMode' = customMode
      /\ host' = host /\ pc' = pc /\ asked' = asked /\ slot' = slot
    BY Zenon DEF listVars, hostVars, threadVars
<1>2. /\ changed' \in BOOLEAN /\ announced' \in BOOLEAN /\ fault' \in BOOLEAN
      /\ early' \in BOOLEAN
  <2>1. changed \in BOOLEAN /\ announced \in BOOLEAN /\ fault \in BOOLEAN /\ early \in BOOLEAN
      BY DEF ListInv, TypeInv
  <2>2. changed' \in BOOLEAN /\ announced' \in BOOLEAN
      BY <2>1, ZenonT(40) DEF hostVars
  <2>3. fault' \in BOOLEAN
      BY <2>1, Zenon
  <2>4. early' \in BOOLEAN
      BY <2>1, Zenon
  <2> QED
      BY <2>2, <2>3, <2>4
<1>3. TypeInv'
  <2>1. /\ modeInfo' \in [Slots -> Size] /\ stride' \in [Slots -> Nat]
        /\ modeCount' \in Int /\ customMode' \in Int
        /\ host' \in Size /\ asked' \in [Threads -> Size] /\ slot' \in [Threads -> Int]
        /\ pc' \in [Threads -> StartSteps \cup WorkerSteps]
        /\ pc'["start"] \in StartSteps /\ pc'["worker"] \in WorkerSteps
      BY <1>1 DEF ListInv, TypeInv
  <2>2. reading' \in Int
      OBVIOUS
  <2> QED
      BY <1>2, <2>1, <2>2, Zenon DEF TypeInv
<1>4. StartInv'
    BY <1>1 DEF ListInv, StartInv
<1>5. ChosenInv'
    BY <1>1 DEF ListInv, ChosenInv
<1>6. FilledInv'
    BY <1>1 DEF ListInv, FilledInv
<1>7. OfferedInv'
    BY DEF OfferedInv
<1> QED
    BY <1>3, <1>4, <1>5, <1>6, <1>7 DEF ListInv

(* Whenever that thread reads, the list is there.                             *)
LEMMA ListThere ==
    ASSUME ListInv, dxg # "starting"
    PROVE  /\ pc["start"] = "done" /\ pc["start"] # "fill"
           /\ modeCount = 6 /\ reading \in 0 .. 5
           /\ modeInfo[reading] \in Size /\ AtLeast(modeInfo[reading])
<1>1. pc["start"] = "done" /\ pc["start"] # "fill"
    BY DEF ListInv, StartInv
<1>2. modeCount = 6 /\ reading \in 0 .. 5
    BY <1>1 DEF ListInv, FilledInv, OfferedInv
<1> QED
    BY <1>1, <1>2, EverySlotLarge DEF ListInv

LEMMA ReadKeepsList == ASSUME ListInv, ReadWidth PROVE ListInv'
<1>1. dxg # "starting" /\ dxg' \in DxgSteps /\ width' = modeInfo[reading][1]
    BY DEF ReadWidth, DxgSteps
<1>2. width' \in Nat /\ width' >= 1024
    BY <1>1, ListThere DEF Size, AtLeast
<1>3. /\ UNCHANGED <<listVars, hostVars, threadVars>> /\ (fault' <=> fault) /\ (early' <=> early)
      /\ reading' = reading /\ offered' = offered
    BY Zenon DEF ReadWidth, pastVars
<1>4. /\ raced' \in BOOLEAN /\ clash' \in BOOLEAN /\ spoiled' \in BOOLEAN
      /\ slept' \in BOOLEAN /\ writes' \in Nat
    BY Zenon DEF ReadWidth, pastVars, ListInv, TypeInv
<1> QED
    BY <1>1, <1>2, <1>3, <1>4, ListThere, ReaderKeepsList DEF ListInv, OfferedInv

LEMMA EnumBeginsKeepsList == ASSUME ListInv, EnumBegins PROVE ListInv'
<1>1. /\ dxg = "idle" /\ dxg' = "enum_width" /\ reading' = 0 /\ offered' = {}
      /\ writes' = 0 /\ spoiled' = TRUE /\ width' = width
      /\ UNCHANGED <<listVars, hostVars, threadVars>> /\ (fault' <=> fault) /\ (early' <=> early)
    BY Zenon DEF EnumBegins
<1>2. raced' \in BOOLEAN /\ clash' \in BOOLEAN /\ spoiled' \in BOOLEAN /\ slept' \in BOOLEAN
    BY Zenon DEF EnumBegins, ListInv, TypeInv
<1>3. dxg' \in DxgSteps /\ width' \in Nat
    BY <1>1 DEF DxgSteps, ListInv, TypeInv
<1>4. /\ dxg # "starting" /\ dxg' # "enum_height" /\ reading' \in 0 .. 5 /\ writes' \in Nat
      /\ \A m \in offered' : m \in Size /\ AtLeast(m)
    BY <1>1
<1>5. pc["start"] = "done"
    BY <1>4, ListThere
<1> QED
    BY <1>1, <1>2, <1>3, <1>4, <1>5, ReaderKeepsList

LEMMA OfferKeepsList == ASSUME ListInv, EnumOffers PROVE ListInv'
<1>1. dxg = "enum_height" /\ dxg # "starting" /\ width \in Nat /\ width >= 1024
    BY DEF EnumOffers, ListInv, TypeInv, OfferedInv
<1>2. PICK n : n = <<width, modeInfo[reading][2]>>
    OBVIOUS
<1>3. n \in Size /\ AtLeast(n)
    BY <1>1, <1>2, ListThere DEF Size, AtLeast
<1>4. offered' = offered \cup {n}
    BY <1>2 DEF EnumOffers
<1>5. dxg' \in DxgSteps /\ dxg' # "enum_height" /\ reading' \in 0 .. 5
  <2>1. \/ dxg' = "idle" /\ reading' = reading
        \/ dxg' = "enum_width" /\ reading' = reading + 1 /\ reading # modeCount - 1
      BY Zenon DEF EnumOffers
  <2>2. modeCount = 6 /\ reading \in 0 .. 5
      BY <1>1, ListThere
  <2>3. reading' \in 0 .. 5
      BY <2>1, <2>2
  <2>4. dxg' \in DxgSteps /\ dxg' # "enum_height"
      BY <2>1, Zenon DEF DxgSteps
  <2> QED
      BY <2>3, <2>4
<1>6. UNCHANGED <<listVars, hostVars, threadVars>> /\ (fault' <=> fault) /\ (early' <=> early)
      /\ width' = width
    BY Zenon DEF EnumOffers, pastVars
<1>7. /\ raced' \in BOOLEAN /\ clash' \in BOOLEAN /\ spoiled' \in BOOLEAN
      /\ slept' \in BOOLEAN /\ writes' \in Nat
    BY Zenon DEF EnumOffers, pastVars, ListInv, TypeInv
<1>8. \A m \in offered' : m \in Size /\ AtLeast(m)
    BY <1>3, <1>4 DEF ListInv, OfferedInv
<1> QED
    BY <1>1, <1>5, <1>8, <1>6, <1>7, ListThere, ReaderKeepsList

LEMMA CommitBeginsKeepsList == ASSUME ListInv, CommitBegins PROVE ListInv'
<1>1. /\ dxg = "idle" /\ dxg' = "match_width" /\ reading' = 0 /\ offered' = offered
      /\ spoiled' = FALSE /\ width' = width
      /\ UNCHANGED <<listVars, hostVars, threadVars>> /\ (fault' <=> fault) /\ (early' <=> early)
    BY Zenon DEF CommitBegins
<1>2. /\ raced' \in BOOLEAN /\ clash' \in BOOLEAN /\ spoiled' \in BOOLEAN
      /\ slept' \in BOOLEAN /\ writes' \in Nat
    BY Zenon DEF CommitBegins, ListInv, TypeInv
<1>3. dxg' \in DxgSteps /\ width' \in Nat
    BY <1>1 DEF DxgSteps, ListInv, TypeInv
<1>4. /\ dxg # "starting" /\ dxg' # "enum_height" /\ reading' \in 0 .. 5
      /\ \A m \in offered' : m \in Size /\ AtLeast(m)
    BY <1>1 DEF ListInv, OfferedInv
<1>5. pc["start"] = "done"
    BY <1>4, ListThere
<1> QED
    BY <1>1, <1>2, <1>3, <1>4, <1>5, ReaderKeepsList

LEMMA MatchKeepsList == ASSUME ListInv, CommitMatches PROVE ListInv'
<1>1. dxg = "match_height" /\ dxg # "starting"
    BY DEF CommitMatches
<1>2. dxg' \in DxgSteps /\ dxg' # "enum_height" /\ reading' \in 0 .. 5
  <2>1. \/ dxg' \in {"idle", "create"} /\ reading' = reading
        \/ dxg' = "match_width" /\ reading' = reading + 1 /\ reading # modeCount - 1
      BY Zenon DEF CommitMatches
  <2>2. modeCount = 6 /\ reading \in 0 .. 5
      BY <1>1, ListThere
  <2>3. reading' \in 0 .. 5
      BY <2>1, <2>2
  <2>4. dxg' \in DxgSteps /\ dxg' # "enum_height"
      BY <2>1, Zenon DEF DxgSteps
  <2> QED
      BY <2>3, <2>4
<1>3. spoiled' \in BOOLEAN
  <2>1. spoiled' = (dxg' = "create" /\ (modeInfo[reading] # disp \/ HalfWritten(reading)))
      BY DEF CommitMatches
  <2> QED
      BY <2>1, Zenon
<1>4. /\ UNCHANGED <<listVars, hostVars, threadVars>> /\ (fault' <=> fault) /\ (early' <=> early)
      /\ width' = width /\ offered' = offered
    BY Zenon DEF CommitMatches
<1>5. /\ raced' \in BOOLEAN /\ clash' \in BOOLEAN /\ slept' \in BOOLEAN /\ writes' \in Nat
    BY Zenon DEF CommitMatches, ListInv, TypeInv
<1>6. width' \in Nat
    BY <1>4 DEF ListInv, TypeInv
<1> QED
    BY <1>1, <1>2, <1>3, <1>4, <1>5, <1>6, ListThere, ReaderKeepsList DEF ListInv, OfferedInv

LEMMA SizesKeepsList == ASSUME ListInv, CommitSizes PROVE ListInv'
<1>1. /\ dxg # "starting" /\ dxg' \in DxgSteps /\ dxg' # "enum_height"
      /\ reading' = reading /\ width' = width /\ offered' = offered
    BY DEF CommitSizes, DxgSteps
<1>2. /\ UNCHANGED <<listVars, hostVars, threadVars>>
      /\ (fault' <=> fault) /\ (early' <=> early)
    BY Zenon DEF CommitSizes, pastVars
<1>3. /\ raced' \in BOOLEAN /\ clash' \in BOOLEAN /\ spoiled' \in BOOLEAN
      /\ slept' \in BOOLEAN /\ writes' \in Nat
    BY Zenon DEF CommitSizes, pastVars, ListInv, TypeInv
<1>4. reading' \in 0 .. 5 /\ width' \in Nat /\ \A m \in offered' : m \in Size /\ AtLeast(m)
    BY <1>1 DEF ListInv, TypeInv, OfferedInv
<1> QED
    BY <1>1, <1>2, <1>3, <1>4, ListThere, ReaderKeepsList

LEMMA CreateKeepsList == ASSUME ListInv, CommitCreates PROVE ListInv'
<1>1. /\ dxg # "starting" /\ dxg' \in DxgSteps /\ dxg' # "enum_height"
      /\ reading' = reading /\ width' = width /\ offered' = offered
    BY DEF CommitCreates, DxgSteps
<1>2. /\ UNCHANGED <<listVars, hostVars, threadVars>>
      /\ (fault' <=> fault) /\ (early' <=> early)
    BY Zenon DEF CommitCreates, pastVars
<1>3. /\ raced' \in BOOLEAN /\ clash' \in BOOLEAN /\ spoiled' \in BOOLEAN
      /\ slept' \in BOOLEAN /\ writes' \in Nat
    BY Zenon DEF CommitCreates, pastVars, ListInv, TypeInv
<1>4. reading' \in 0 .. 5 /\ width' \in Nat /\ \A m \in offered' : m \in Size /\ AtLeast(m)
    BY <1>1 DEF ListInv, TypeInv, OfferedInv
<1> QED
    BY <1>1, <1>2, <1>3, <1>4, ListThere, ReaderKeepsList

LEMMA ListNext == ListInv /\ [Next]_vars => ListInv'
<1> SUFFICES ASSUME ListInv, [Next]_vars PROVE ListInv'
    OBVIOUS
<1>1. CASE \E t \in Threads : \/ AskDisplayInfo(t) \/ PickSlot(t) \/ StoreSlot(t) \/ TakeSlot(t)
                              \/ WriteWidth(t) \/ WriteHeight(t) \/ WriteStride(t)
    BY <1>1, AskKeepsList, PickKeepsList, StoreKeepsList, TakeKeepsList, WidthKeepsList,
       HeightKeepsList, StrideKeepsList
<1>2. CASE UNCHANGED vars
  <2>1. ListInv => ListInv'
    <3> USE <1>2 DEF vars, listVars, hostVars, threadVars, dxgVars, pastVars
    <3>1. (TypeInv') = TypeInv
        BY Zenon DEF TypeInv
    <3>2. (StartInv') = StartInv
        BY Zenon DEF StartInv
    <3>3. /\ modeInfo' = modeInfo /\ stride' = stride /\ modeCount' = modeCount
          /\ customMode' = customMode
          /\ pc' = pc /\ slot' = slot /\ reading' = reading /\ dxg' = dxg /\ width' = width
          /\ offered' = offered
        BY Zenon
    <3>4. (ChosenInv') = ChosenInv
        BY Zenon DEF ChosenInv
    <3>5. FilledInv => FilledInv'
        BY ONLY <3>3 DEF FilledInv
    <3>6. OfferedInv => OfferedInv'
        BY ONLY <3>3 DEF OfferedInv
    <3> QED
        BY <3>1, <3>2, <3>4, <3>5, <3>6, Zenon DEF ListInv
  <2> QED
      BY <2>1, Zenon
<1> QED
    BY <1>1, <1>2, ResizeKeepsList, FillKeepsList, WakeKeepsList, ClearKeepsList,
       CycleKeepsList, StartedKeepsList, ReadKeepsList, EnumBeginsKeepsList, OfferKeepsList,
       CommitBeginsKeepsList, MatchKeepsList, SizesKeepsList, CreateKeepsList DEF Next

LEMMA ListAlways == Spec => []ListInv
    BY ListStart, ListNext, PTL DEF Spec

(* Every mode that dxgkrnl is offered is at least as large as the minimum    *)
(* (AddSingleSourceMode reads the two halves of a slot at two moments, and    *)
(* every half ever written to a custom slot was raised by SetCustomDisplay). *)
THEOREM OffersCorrect == Spec => []OfferedLargeEnough
<1>1. ListInv => OfferedLargeEnough
  <2>1. MinSize[1] = 1024 /\ MinSize[2] = 768
      BY FixedFacts
  <2>2. ASSUME OfferedInv, NEW size \in offered
        PROVE  size[1] >= MinSize[1] /\ size[2] >= MinSize[2]
    <3>1. size \in Size /\ size[1] >= 1024 /\ size[2] >= 768
        BY <2>2 DEF OfferedInv, AtLeast
    <3> QED
        BY <2>1, <3>1
  <2> QED
      BY <2>2 DEF ListInv, OfferedLargeEnough
<1> QED
    BY <1>1, ListAlways, PTL

-----------------------------------------------------------------------------
(* A fixed mode that is committed: the search stops at its slot at the        *)
(* latest, and an earlier slot that matches has the same size.                *)
Enum == {"enum_width", "enum_height"}
Match == {"match_width", "match_height"}
Making == {"create", "resource"}

Nears(s) ==
    /\ Fixed[s + 1] = disp /\ reading <= s
    /\ dxg = "match_height" => width = Fixed[reading + 1][1]

FixedInv ==
    /\ dxg = "starting" => disp = NoSize /\ newest = NoSize
    /\ dxg \in Match /\ disp \in FixedModes => \E s \in 0 .. 3 : Nears(s)
    /\ dxg \in Making /\ disp \in FixedModes => reading \in 0 .. 3 /\ Fixed[reading + 1] = disp
    /\ dxg = "resource" /\ disp \in FixedModes => frameBytes = MemoryOf(disp)
    /\ dxg \in Enum \cup {"idle"} /\ disp \in FixedModes =>
          frameBuf = disp /\ frameBytes = MemoryOf(disp)

LEMMA FixedStart == Init => FixedInv
    BY FixedFacts DEF Init, FixedInv, Match, Enum, Making

(* The steps that are not dxgkrnl's.                                         *)
LEMMA FixedStays ==
    ASSUME FixedInv, dxgVars' = dxgVars
    PROVE  FixedInv'
<1>1. /\ dxg' = dxg /\ disp' = disp /\ newest' = newest /\ reading' = reading
      /\ width' = width /\ frameBuf' = frameBuf /\ frameBytes' = frameBytes
    BY DEF dxgVars
<1> QED
    BY <1>1 DEF FixedInv, Nears, MemoryOf

LEMMA FixedListed ==
    ASSUME ListInv, dxg # "starting", reading \in 0 .. 3
    PROVE  /\ modeInfo[reading] = Fixed[reading + 1]
           /\ stride[reading] = Stride(Fixed[reading + 1][1])
    BY ListThere DEF ListInv, FilledInv

LEMMA StartedKeepsFixed == ASSUME FixedInv, Started PROVE FixedInv'
<1>1. dxg = "starting" /\ dxg' = "idle" /\ disp' = disp
    BY Zenon DEF Started
<1>2. disp' \notin FixedModes
    BY <1>1, FixedFacts DEF FixedInv
<1> QED
    BY <1>1, <1>2 DEF FixedInv, Match, Making

LEMMA ReadKeepsFixed == ASSUME ListInv, FixedInv, ReadWidth PROVE FixedInv'
<1>1. /\ width' = modeInfo[reading][1] /\ reading' = reading /\ disp' = disp
      /\ frameBuf' = frameBuf /\ frameBytes' = frameBytes
      /\ \/ dxg = "enum_width" /\ dxg' = "enum_height"
         \/ dxg = "match_width" /\ dxg' = "match_height"
    BY Zenon DEF ReadWidth
<1>2. CASE dxg = "enum_width"
    BY <1>1, <1>2 DEF FixedInv, Match, Enum, Making
<1>3. CASE dxg = "match_width" /\ disp \in FixedModes
  <2>1. PICK s \in 0 .. 3 : Fixed[s + 1] = disp /\ reading <= s
      BY <1>3 DEF FixedInv, Match, Nears
  <2>2. reading \in 0 .. 3
      BY <2>1 DEF ListInv, OfferedInv
  <2>3. width' = Fixed[reading + 1][1]
      BY <1>1, <1>3, <2>2, FixedListed
  <2>4. Nears(s)'
      BY <1>1, <2>1, <2>3 DEF Nears
  <2> QED
      BY <1>1, <1>3, <2>4 DEF FixedInv, Match, Enum, Making
<1>4. CASE dxg = "match_width" /\ disp \notin FixedModes
    BY <1>1, <1>4 DEF FixedInv, Match, Enum, Making
<1> QED
    BY <1>1, <1>2, <1>3, <1>4

LEMMA EnumBeginsKeepsFixed == ASSUME FixedInv, EnumBegins PROVE FixedInv'
<1>1. /\ dxg = "idle" /\ dxg' = "enum_width" /\ disp' = disp
      /\ frameBuf' = frameBuf /\ frameBytes' = frameBytes
    BY Zenon DEF EnumBegins
<1> QED
    BY <1>1 DEF FixedInv, Match, Enum, Making

LEMMA OfferKeepsFixed == ASSUME FixedInv, EnumOffers PROVE FixedInv'
<1>1. /\ dxg = "enum_height" /\ dxg' \in {"idle", "enum_width"}
      /\ disp' = disp /\ frameBuf' = frameBuf /\ frameBytes' = frameBytes
    BY Zenon DEF EnumOffers
<1> QED
    BY <1>1 DEF FixedInv, Match, Enum, Making

LEMMA CommitBeginsKeepsFixed == ASSUME FixedInv, CommitBegins PROVE FixedInv'
<1>1. dxg' = "match_width" /\ reading' = 0
    BY Zenon DEF CommitBegins
<1>2. ASSUME disp' \in FixedModes
      PROVE  \E s \in 0 .. 3 : Nears(s)'
  <2>1. PICK s \in 0 .. 3 : disp' = Fixed[s + 1]
      BY <1>2, FixedFacts
  <2> QED
      BY <1>1, <2>1 DEF Nears
<1> QED
    BY <1>1, <1>2 DEF FixedInv, Match, Enum, Making

LEMMA MatchKeepsFixed == ASSUME ListInv, FixedInv, CommitMatches PROVE FixedInv'
<1>1. dxg = "match_height" /\ disp' = disp
      /\ IF <<width, modeInfo[reading][2]>> = disp
         THEN dxg' = "create" /\ reading' = reading
         ELSE IF reading = modeCount - 1 THEN dxg' = "idle" /\ reading' = reading
         ELSE dxg' = "match_width" /\ reading' = reading + 1
    BY Zenon DEF CommitMatches
<1>2. CASE disp \notin FixedModes
    BY <1>1, <1>2 DEF FixedInv, Match, Enum, Making
<1>3. CASE disp \in FixedModes
  <2>1. PICK s \in 0 .. 3 : /\ Fixed[s + 1] = disp /\ reading <= s
                            /\ width = Fixed[reading + 1][1]
      BY <1>1, <1>3 DEF FixedInv, Match, Nears
  <2>2. reading \in 0 .. 3
      BY <2>1 DEF ListInv, OfferedInv
  <2>3. modeInfo[reading] = Fixed[reading + 1] /\ modeCount = 6
      BY <1>1, <2>2, FixedListed, ListThere
  <2>4. <<width, modeInfo[reading][2]>> = Fixed[reading + 1]
    <3>1. Fixed[reading + 1] \in Nat \X Nat
        BY <2>2, FixedFacts
    <3> QED
        BY <2>1, <2>3, <3>1
  <2>5. CASE Fixed[reading + 1] = disp
      BY <1>1, <2>2, <2>4, <2>5 DEF FixedInv, Match, Enum, Making
  <2>6. CASE Fixed[reading + 1] # disp
    <3>1. reading # s /\ reading # modeCount - 1
        BY <2>1, <2>2, <2>3, <2>6
    <3>2. dxg' = "match_width" /\ reading' = reading + 1
        BY <1>1, <2>4, <2>6, <3>1
    <3>3. Nears(s)'
        BY <1>1, <2>1, <2>2, <3>1, <3>2 DEF Nears
    <3> QED
        BY <3>2, <3>3 DEF FixedInv, Match, Enum, Making
  <2> QED
      BY <2>5, <2>6
<1> QED
    BY <1>2, <1>3

LEMMA SizesKeepsFixed == ASSUME ListInv, FixedInv, CommitSizes PROVE FixedInv'
<1>1. /\ dxg = "create" /\ dxg' = "resource" /\ disp' = disp /\ reading' = reading
      /\ frameBytes' = Memory(stride[reading], modeInfo[reading][2])
    BY Zenon DEF CommitSizes
<1>2. ASSUME disp \in FixedModes
      PROVE  reading \in 0 .. 3 /\ Fixed[reading + 1] = disp /\ frameBytes' = MemoryOf(disp)
  <2>1. reading \in 0 .. 3 /\ Fixed[reading + 1] = disp
      BY <1>1, <1>2 DEF FixedInv, Making
  <2>2. modeInfo[reading] = disp /\ stride[reading] = Stride(disp[1])
      BY <1>1, <2>1, FixedListed
  <2> QED
      BY <1>1, <2>1, <2>2 DEF MemoryOf
<1>3. disp' \in FixedModes => frameBytes' = MemoryOf(disp')
    BY <1>1, <1>2
<1> QED
    BY <1>1, <1>2, <1>3 DEF FixedInv, Match, Enum, Making

LEMMA CreateKeepsFixed == ASSUME ListInv, FixedInv, CommitCreates PROVE FixedInv'
<1>1. /\ dxg = "resource" /\ frameBuf' = modeInfo[reading] /\ dxg' = "idle" /\ disp' = disp
      /\ frameBytes' = frameBytes
    BY Zenon DEF CommitCreates
<1>2. ASSUME disp \in FixedModes
      PROVE  frameBuf' = disp /\ frameBytes' = MemoryOf(disp)
    BY <1>1, <1>2, FixedListed DEF FixedInv, Making
<1>3. disp' \in FixedModes => frameBytes' = MemoryOf(disp')
    BY <1>1, <1>2
<1> QED
    BY <1>1, <1>2, <1>3 DEF FixedInv, Match, Making

LEMMA FixedNext == ListInv /\ FixedInv /\ [Next]_vars => FixedInv'
<1> SUFFICES ASSUME ListInv, FixedInv, [Next]_vars PROVE FixedInv'
    OBVIOUS
<1>1. CASE \/ HostResizes \/ FillList \/ WorkerWakes \/ WorkerClears \/ PowerCycle
           \/ \E t \in Threads : \/ AskDisplayInfo(t) \/ PickSlot(t) \/ StoreSlot(t) \/ TakeSlot(t)
                                 \/ WriteWidth(t) \/ WriteHeight(t) \/ WriteStride(t)
           \/ UNCHANGED vars
  <2>1. dxgVars' = dxgVars
      BY <1>1, Zenon DEF HostResizes, FillList, WorkerWakes, WorkerClears, PowerCycle,
                  AskDisplayInfo, PickSlot, StoreSlot, TakeSlot, WriteWidth, WriteHeight,
                  WriteStride, vars
  <2> QED
      BY <2>1, FixedStays
<1> QED
    BY <1>1, StartedKeepsFixed, ReadKeepsFixed, EnumBeginsKeepsFixed, OfferKeepsFixed,
       CommitBeginsKeepsFixed, MatchKeepsFixed, SizesKeepsFixed, CreateKeepsFixed DEF Next

-----------------------------------------------------------------------------
(* What the worker has asked for is what it writes, unless the size changed    *)
(* meanwhile; and what the thread of StartDevice writes is no older, or the    *)
(* worker still has the newer size to come.                                   *)
Showing == host[1] # 0 /\ host[2] # 0

AskedInv ==
    pc["worker"] \in Writing \cup {"clear"} /\ ~ raced => asked["worker"] = host

StartAskedInv ==
    pc["start"] \in Writing /\ ~ raced /\ ~ clash =>
        \/ asked["start"] = host
        \/ changed /\ pc["worker"] \in {"idle", "ask"}
        \/ pc["worker"] = "pick"
        \/ ~ Showing

(* One thread at a time is between the choice of a slot and its last field,    *)
(* and what it has written of it is what it asked for.                        *)
AloneInv ==
    pc["start"] \in Filling /\ ~ clash => pc["worker"] \notin Filling

Held == {"take", "width", "height", "stride"}

HalfInv ==
    ~ clash /\ ~ fault =>
        \A t \in Threads :
            /\ pc[t] \in Held => slot[t] = customMode
            /\ pc[t] \in Half => modeInfo[customMode][1] = Clamp(asked[t])[1]
            /\ pc[t] = "stride" => modeInfo[customMode][2] = Clamp(asked[t])[2]

(* The stride of a slot fits its width once its last field is written.         *)
StrideInv ==
    ~ clash /\ ~ fault =>
        \A s \in Slots : stride[s] = Stride(modeInfo[s][1]) \/ HalfWritten(s)

ListedNow ==
    /\ ~ raced /\ ~ clash /\ Showing /\ pc["start"] = "done"
    /\ pc["worker"] = "clear" \/ (pc["worker"] = "idle" /\ ~ changed)
    => modeInfo[customMode] = Clamp(host)

ToldInv == pc["worker"] = "idle" /\ changed => announced \/ slept

ListedInv ==
    AskedInv /\ StartAskedInv /\ AloneInv /\ HalfInv /\ StrideInv /\ ListedNow /\ ToldInv

LEMMA ListedStart == Init => ListedInv
<1> SUFFICES ASSUME Init PROVE ListedInv
    OBVIOUS
<1>1. /\ pc["start"] = "fill" /\ pc["worker"] = "idle"
      /\ \A t \in Threads : pc[t] \notin Held
    BY ThreadsTwo DEF Init, Held
<1>2. changed => announced
    BY Zenon DEF Init
<1>3. StrideInv
  <2>1. Stride(0) = 0
      BY DEF Stride
  <2>2. \A s \in Slots : stride[s] = Stride(modeInfo[s][1])
      BY <2>1 DEF Init, NoSize
  <2> QED
      BY <2>2 DEF StrideInv
<1> QED
    BY <1>1, <1>2, <1>3
    DEF ListedInv, AskedInv, StartAskedInv, AloneInv, HalfInv, ListedNow, ToldInv, Writing, Filling,
        Held, Half

(* What is written of a slot does not depend on what is only asked or told.    *)
LEMMA HalfStays ==
    ASSUME ListedInv, modeInfo' = modeInfo, customMode' = customMode,
           clash => clash', fault => fault',
           \A t \in Threads : pc'[t] \in Held =>
               pc[t] = pc'[t] /\ asked'[t] = asked[t] /\ slot'[t] = slot[t]
    PROVE  HalfInv'
<1>1. ASSUME ~ clash', ~ fault', NEW t \in Threads
      PROVE  /\ pc'[t] \in Held => slot'[t] = customMode'
             /\ pc'[t] \in Half => modeInfo'[customMode'][1] = Clamp(asked'[t])[1]
             /\ pc'[t] = "stride" => modeInfo'[customMode'][2] = Clamp(asked'[t])[2]
    BY <1>1 DEF ListedInv, HalfInv, Held, Half
<1> QED
    BY <1>1 DEF HalfInv, Clamp

LEMMA StrideStays ==
    ASSUME ListedInv, modeInfo' = modeInfo, stride' = stride,
           clash => clash', fault => fault',
           \A t \in Threads : pc[t] \in Half => pc'[t] = pc[t] /\ slot'[t] = slot[t]
    PROVE  StrideInv'
<1>1. ASSUME ~ clash', ~ fault', NEW s \in Slots
      PROVE  stride'[s] = Stride(modeInfo'[s][1]) \/ HalfWritten(s)'
  <2>1. stride[s] = Stride(modeInfo[s][1]) \/ HalfWritten(s)
      BY <1>1 DEF ListedInv, StrideInv
  <2>2. HalfWritten(s) => HalfWritten(s)'
      BY DEF HalfWritten, Half
  <2> QED
      BY <2>1, <2>2
<1> QED
    BY <1>1 DEF StrideInv, Stride

(* dxgkrnl's thread does not touch any of this.                               *)
LEMMA ListedStays ==
    ASSUME ListedInv, UNCHANGED <<modeInfo, stride, customMode, host, threadVars>>,
           changed' <=> changed, announced' <=> announced, raced' <=> raced,
           clash' <=> clash, slept' <=> slept, fault' <=> fault
    PROVE  ListedInv'
<1>1. pc' = pc /\ asked' = asked /\ slot' = slot
    BY DEF threadVars
<1>2. AskedInv'
    BY <1>1 DEF ListedInv, AskedInv
<1>3. StartAskedInv'
    BY <1>1 DEF ListedInv, StartAskedInv, Showing
<1>4. AloneInv'
    BY <1>1 DEF ListedInv, AloneInv
<1>5. HalfInv' /\ StrideInv'
    BY <1>1, HalfStays, StrideStays
<1>6. ListedNow'
  <2>1. Clamp(host') = Clamp(host)
      OBVIOUS
  <2>2. /\ modeInfo' = modeInfo /\ customMode' = customMode /\ host' = host
      OBVIOUS
  <2> QED
      BY <1>1, <2>1, <2>2 DEF ListedInv, ListedNow, Showing, Clamp
<1>7. ToldInv'
    BY <1>1 DEF ListedInv, ToldInv
<1> QED
    BY <1>2, <1>3, <1>4, <1>5, <1>6, <1>7 DEF ListedInv

LEMMA ResizeKeepsListed == ASSUME ListInv, ListedInv, HostResizes PROVE ListedInv'
<1>1. /\ changed' /\ announced' /\ (clash' <=> clash) /\ (fault' <=> fault)
      /\ (raced' <=> (raced \/ pc["worker"] \in Writing \cup {"clear"}))
      /\ pc' = pc /\ asked' = asked /\ slot' = slot
      /\ modeInfo' = modeInfo /\ stride' = stride /\ customMode' = customMode
    BY Zenon DEF HostResizes, listVars, threadVars
<1>2. pc["worker"] \in {"idle", "ask"} \/ raced'
    BY <1>1 DEF ListInv, TypeInv, WorkerSteps, Writing
<1>3. AskedInv'
    BY <1>1, <1>2 DEF AskedInv, Writing
<1>4. StartAskedInv'
    BY <1>1, <1>2 DEF StartAskedInv
<1>5. AloneInv'
    BY <1>1 DEF ListedInv, AloneInv
<1>6. HalfInv' /\ StrideInv'
    BY <1>1, HalfStays, StrideStays
<1>7. ListedNow'
    BY <1>1, <1>2 DEF ListedNow
<1>8. ToldInv'
    BY <1>1 DEF ToldInv
<1> QED
    BY <1>3, <1>4, <1>5, <1>6, <1>7, <1>8 DEF ListedInv

LEMMA FillKeepsListed == ASSUME ListInv, ListedInv, FillList PROVE ListedInv'
<1>1. /\ ~ fault /\ pc["start"] = "fill" /\ pc' = [pc EXCEPT !["start"] = "ask"]
      /\ host' = host /\ asked' = asked /\ (changed' <=> changed) /\ (announced' <=> announced)
      /\ (raced' <=> raced) /\ (slept' <=> slept)
      /\ modeInfo' = FreshList /\ stride' = [s \in Slots |-> Stride(FreshList[s][1])]
      /\ (clash' <=> (clash \/ pc["worker"] \in Filling))
    BY Zenon DEF FillList, hostVars, pastVars
<1>2. pc'["start"] = "ask" /\ pc'["worker"] = pc["worker"]
    BY <1>1, ThreadsTwo DEF ListInv, TypeInv
<1>3. AskedInv'
    BY <1>1, <1>2 DEF ListedInv, AskedInv
<1>4. StartAskedInv' /\ AloneInv' /\ ListedNow'
    BY <1>2 DEF StartAskedInv, AloneInv, ListedNow, Writing, Filling
<1>5. HalfInv' /\ StrideInv'
  <2>1. ~ clash' => \A t \in Threads : pc'[t] \notin Held
      BY <1>1, <1>2, ThreadsTwo DEF Filling, Writing, Held
  <2>2. \A s \in Slots : stride'[s] = Stride(modeInfo'[s][1])
      BY <1>1
  <2>3. HalfInv'
      BY <2>1 DEF HalfInv, Held, Half
  <2>4. StrideInv'
      BY <2>2 DEF StrideInv, Stride
  <2> QED
      BY <2>3, <2>4
<1>6. ToldInv'
    BY <1>1, <1>2 DEF ListedInv, ToldInv
<1> QED
    BY <1>3, <1>4, <1>5, <1>6 DEF ListedInv

LEMMA WakeKeepsListed == ASSUME ListInv, ListedInv, WorkerWakes PROVE ListedInv'
<1>1. /\ pc["worker"] = "idle" /\ (changed' <=> changed) /\ (clash' <=> clash)
      /\ (fault' <=> fault) /\ (raced' <=> raced) /\ (slept' <=> slept)
      /\ asked' = asked /\ slot' = slot /\ host' = host
      /\ modeInfo' = modeInfo /\ stride' = stride /\ customMode' = customMode
    BY Zenon DEF WorkerWakes, listVars, pastVars
<1>2. PICK p : p = IF changed THEN "ask" ELSE "idle"
    OBVIOUS
<1>3. pc' = [pc EXCEPT !["worker"] = p]
    BY <1>2 DEF WorkerWakes
<1>4. /\ pc'["worker"] = p /\ pc'["start"] = pc["start"]
      /\ (changed => p = "ask") /\ (~ changed => p = "idle")
    BY <1>2, <1>3, ThreadsTwo DEF ListInv, TypeInv
<1>5. AskedInv'
    BY <1>4 DEF AskedInv, Writing
<1>6. StartAskedInv'
    BY <1>1, <1>4 DEF ListedInv, StartAskedInv, Showing
<1>7. AloneInv'
    BY <1>4 DEF AloneInv, Filling, Writing
<1>8. HalfInv' /\ StrideInv'
    BY <1>1, <1>4, HalfStays, StrideStays, ThreadsTwo DEF Held, Half
<1>9. ListedNow'
    BY <1>1, <1>4 DEF ListedInv, ListedNow, Showing, Clamp
<1>10. ToldInv'
    BY <1>1, <1>4 DEF ToldInv
<1> QED
    BY <1>5, <1>6, <1>7, <1>8, <1>9, <1>10 DEF ListedInv

LEMMA ClearKeepsListed == ASSUME ListInv, ListedInv, WorkerClears PROVE ListedInv'
<1>1. /\ pc["worker"] = "clear" /\ ~ changed' /\ (clash' <=> clash)
      /\ (fault' <=> fault) /\ (raced' <=> raced)
      /\ pc' = [pc EXCEPT !["worker"] = "idle"]
      /\ asked' = asked /\ slot' = slot /\ host' = host
      /\ modeInfo' = modeInfo /\ stride' = stride /\ customMode' = customMode
    BY Zenon DEF WorkerClears, listVars
<1>2. pc'["worker"] = "idle" /\ pc'["start"] = pc["start"]
    BY <1>1, ThreadsTwo DEF ListInv, TypeInv
<1>3. AskedInv' /\ AloneInv' /\ ToldInv'
    BY <1>1, <1>2 DEF AskedInv, AloneInv, ToldInv, Writing, Filling
<1>4. StartAskedInv'
    BY <1>1, <1>2 DEF ListedInv, StartAskedInv, Showing
<1>5. HalfInv' /\ StrideInv'
    BY <1>1, <1>2, HalfStays, StrideStays, ThreadsTwo DEF Held, Half
<1>6. ListedNow'
    BY <1>1, <1>2 DEF ListedInv, ListedNow, Showing, Clamp
<1> QED
    BY <1>3, <1>4, <1>5, <1>6 DEF ListedInv

LEMMA CycleKeepsListed == ASSUME ListedInv, PowerCycle PROVE ListedInv'
<1>1. /\ slept' /\ (changed' <=> changed) /\ (clash' <=> clash)
      /\ (fault' <=> fault) /\ (raced' <=> raced)
      /\ pc' = pc /\ asked' = asked /\ slot' = slot /\ host' = host
      /\ modeInfo' = modeInfo /\ stride' = stride /\ customMode' = customMode
    BY Zenon DEF PowerCycle, listVars, threadVars
<1>2. AskedInv'
    BY <1>1 DEF ListedInv, AskedInv
<1>3. StartAskedInv'
    BY <1>1 DEF ListedInv, StartAskedInv, Showing
<1>4. AloneInv'
    BY <1>1 DEF ListedInv, AloneInv
<1>5. HalfInv' /\ StrideInv'
    BY <1>1, HalfStays, StrideStays
<1>6. ListedNow'
    BY <1>1 DEF ListedInv, ListedNow, Showing, Clamp
<1>7. ToldInv'
    BY <1>1 DEF ToldInv
<1> QED
    BY <1>2, <1>3, <1>4, <1>5, <1>6, <1>7 DEF ListedInv

LEMMA AskKeepsListed ==
    ASSUME ListInv, ListedInv, NEW t \in Threads, AskDisplayInfo(t)
    PROVE  ListedInv'
<1>1. /\ pc[t] = "ask" /\ asked' = [asked EXCEPT ![t] = host]
      /\ (raced' <=> (raced /\ t = "start")) /\ (changed' <=> changed)
      /\ (announced' <=> announced) /\ (clash' <=> clash) /\ (slept' <=> slept)
      /\ (fault' <=> fault) /\ slot' = slot /\ host' = host
      /\ modeInfo' = modeInfo /\ stride' = stride /\ customMode' = customMode
    BY Zenon DEF AskDisplayInfo, listVars, hostVars
<1>2. asked'[t] = host /\ \A u \in Threads : u # t => asked'[u] = asked[u]
    BY <1>1 DEF ListInv, TypeInv
<1>3. /\ Showing => pc'[t] = "pick"
      /\ ~ Showing => pc'[t] = AfterCustom(t)
      /\ \A u \in Threads : u # t => pc'[u] = pc[u]
    BY AskTo DEF Showing
<1>4. AfterCustom(t) = IF t = "start" THEN "done" ELSE "clear"
    BY DEF AfterCustom
<1>5. HalfInv' /\ StrideInv'
    BY <1>1, <1>2, <1>3, <1>4, HalfStays, StrideStays DEF Held, Half
<1>6. CASE t = "start"
  <2>1. pc'["worker"] = pc["worker"] /\ asked'["worker"] = asked["worker"]
      BY <1>2, <1>3, <1>6, ThreadsTwo
  <2>2. AskedInv'
      BY <1>1, <1>6, <2>1 DEF ListedInv, AskedInv
  <2>3. StartAskedInv'
      BY <1>1, <1>2, <1>6 DEF StartAskedInv
  <2>4. AloneInv'
      BY <1>3, <1>4, <1>6 DEF AloneInv, Filling, Writing
  <2>5. ListedNow'
      BY <1>1, <1>3, <1>6 DEF ListedNow, Showing
  <2>6. ToldInv'
      BY <1>1, <2>1 DEF ListedInv, ToldInv
  <2> QED
      BY <1>5, <2>2, <2>3, <2>4, <2>5, <2>6 DEF ListedInv
<1>7. CASE t = "worker"
  <2>1. pc'["start"] = pc["start"] /\ asked'["start"] = asked["start"]
      BY <1>2, <1>3, <1>7, ThreadsTwo
  <2>2. AskedInv'
      BY <1>1, <1>2, <1>7 DEF AskedInv
  <2>3. StartAskedInv'
      BY <1>1, <1>3, <1>7 DEF StartAskedInv, Showing
  <2>4. AloneInv' /\ ToldInv'
      BY <1>3, <1>4, <1>7, ThreadsTwo DEF AloneInv, ToldInv, Filling, Writing
  <2>5. ListedNow'
      BY <1>1, <1>3, <1>7 DEF ListedNow, Showing
  <2> QED
      BY <1>5, <2>2, <2>3, <2>4, <2>5 DEF ListedInv
<1> QED
    BY <1>6, <1>7, ThreadsTwo

(* From step to step of SetCustomDisplay, the questions stay as they are.      *)
LEMMA StepKeepsAsked ==
    ASSUME ListedInv, NEW t \in Threads, pc[t] \in Writing, pc'[t] \in Writing,
           \A u \in Threads : u # t => pc'[u] = pc[u],
           asked' = asked, host' = host, raced' <=> raced, changed' <=> changed,
           announced' <=> announced, slept' <=> slept, clash => clash',
           pc["worker"] = "pick" /\ t = "worker" /\ pc["start"] \in Writing => clash'
    PROVE  AskedInv' /\ StartAskedInv' /\ ListedNow' /\ ToldInv'
<1>1. AskedInv'
  <2>1. pc'["worker"] \in Writing \cup {"clear"} => pc["worker"] \in Writing \cup {"clear"}
      BY ThreadsTwo
  <2> QED
      BY <2>1 DEF ListedInv, AskedInv
<1>2. StartAskedInv'
  <2>1. CASE t = "start"
      BY <2>1, ThreadsTwo DEF ListedInv, StartAskedInv, Showing
  <2>2. CASE t = "worker"
      BY <2>2, ThreadsTwo DEF ListedInv, StartAskedInv, Showing, Writing
  <2> QED
      BY <2>1, <2>2, ThreadsTwo
<1>3. ListedNow'
    BY ThreadsTwo DEF ListedNow, Writing
<1>4. ToldInv'
  <2>1. pc'["worker"] = "idle" => pc["worker"] = "idle"
      BY ThreadsTwo DEF Writing
  <2> QED
      BY <2>1 DEF ListedInv, ToldInv
<1> QED
    BY <1>1, <1>2, <1>3, <1>4

LEMMA PickKeepsListed ==
    ASSUME ListInv, ListedInv, NEW t \in Threads, PickSlot(t)
    PROVE  ListedInv'
<1>1. /\ pc[t] = "pick" /\ pc' = [pc EXCEPT ![t] = "store"]
      /\ slot' = [slot EXCEPT ![t] = Ushort(NextCustomMode)]
      /\ (clash' <=> (clash \/ \A u \in Threads : pc[u] \in Writing))
      /\ asked' = asked /\ host' = host /\ modeInfo' = modeInfo /\ stride' = stride
      /\ customMode' = customMode
      /\ (raced' <=> raced) /\ (changed' <=> changed)
      /\ (announced' <=> announced) /\ (slept' <=> slept) /\ (fault' <=> fault)
    BY Zenon DEF PickSlot, listVars, hostVars
<1>2. pc'[t] = "store" /\ \A u \in Threads : u # t => pc'[u] = pc[u]
    BY <1>1, StepTo DEF Filling, Writing
<1>3. \A u \in Threads : u # t => slot'[u] = slot[u]
    BY <1>1 DEF ListInv, TypeInv
<1>4. ASSUME ~ clash', NEW u \in Threads, u # t
      PROVE  pc[u] \notin Writing
    BY <1>1, <1>4, ThreadsTwo DEF Writing
<1>5. AskedInv' /\ StartAskedInv' /\ ListedNow' /\ ToldInv'
  <2>1. pc[t] \in Writing /\ pc'[t] \in Writing
      BY <1>1, <1>2 DEF Writing
  <2>2. t = "worker" /\ pc["start"] \in Writing => clash'
      BY <1>4, ThreadsTwo
  <2> QED
      BY <1>1, <1>2, <2>1, <2>2, StepKeepsAsked
<1>6. AloneInv'
    BY <1>2, <1>4, ThreadsTwo DEF AloneInv, Writing, Filling
<1>7. HalfInv'
    BY <1>1, <1>2, <1>3, HalfStays DEF Held
<1>8. StrideInv'
    BY <1>1, <1>2, <1>3, StrideStays DEF Half
<1> QED
    BY <1>5, <1>6, <1>7, <1>8 DEF ListedInv

(* From then on the other thread writes nothing unless they clash.            *)
LEMMA StepAlone ==
    ASSUME ListedInv, NEW t \in Threads, pc[t] \in Filling, ~ clash,
           NEW u \in Threads, u # t
    PROVE  pc[u] \notin Filling
    BY ThreadsTwo DEF ListedInv, AloneInv

LEMMA StoreKeepsListed ==
    ASSUME ListInv, ListedInv, NEW t \in Threads, StoreSlot(t)
    PROVE  ListedInv'
<1>1. /\ pc[t] = "store" /\ pc' = [pc EXCEPT ![t] = "take"] /\ customMode' = slot[t]
      /\ asked' = asked /\ slot' = slot /\ host' = host /\ modeInfo' = modeInfo
      /\ stride' = stride /\ (clash' <=> clash)
      /\ (raced' <=> raced) /\ (changed' <=> changed)
      /\ (announced' <=> announced) /\ (slept' <=> slept) /\ (fault' <=> fault)
    BY Zenon DEF StoreSlot, hostVars
<1>2. pc'[t] = "take" /\ \A u \in Threads : u # t => pc'[u] = pc[u]
    BY <1>1, StepTo DEF Filling, Writing
<1>3. pc[t] \in Filling /\ pc'[t] \in Filling /\ pc[t] \in Writing /\ pc'[t] \in Writing
    BY <1>1, <1>2 DEF Filling, Writing
<1>4. AskedInv' /\ StartAskedInv' /\ ListedNow' /\ ToldInv'
    BY <1>1, <1>2, <1>3, StepKeepsAsked
<1>5. AloneInv'
    BY <1>1, <1>2, <1>3, StepAlone, ThreadsTwo DEF AloneInv
<1>6. HalfInv'
  <2>1. \A u \in Threads : ~ clash /\ u # t => pc'[u] \notin Held
      BY <1>2, <1>3, StepAlone DEF Filling, Writing, Held
  <2>2. slot'[t] = customMode' /\ pc'[t] \notin Half
      BY <1>1, <1>2 DEF Half
  <2> QED
      BY <1>1, <2>1, <2>2 DEF HalfInv, Held, Half
<1>7. StrideInv'
    BY <1>1, <1>2, StrideStays DEF Half
<1> QED
    BY <1>4, <1>5, <1>6, <1>7 DEF ListedInv

LEMMA TakeKeepsListed ==
    ASSUME ListInv, ListedInv, NEW t \in Threads, TakeSlot(t)
    PROVE  ListedInv'
<1>1. /\ pc[t] = "take" /\ pc' = [pc EXCEPT ![t] = "width"] /\ customMode' = customMode
      /\ asked' = asked /\ host' = host /\ modeInfo' = modeInfo
      /\ stride' = stride /\ (clash' <=> clash)
      /\ (raced' <=> raced) /\ (changed' <=> changed)
      /\ (announced' <=> announced) /\ (slept' <=> slept) /\ (fault' <=> fault)
    BY Zenon DEF TakeSlot, listVars, hostVars, pastVars
<1>2. pc'[t] = "width" /\ \A u \in Threads : u # t => pc'[u] = pc[u]
    BY <1>1, StepTo DEF Filling, Writing
<1>3. pc[t] \in Filling /\ pc'[t] \in Filling /\ pc[t] \in Writing /\ pc'[t] \in Writing
    BY <1>1, <1>2 DEF Filling, Writing
<1>4. PICK c : (c = slot[t] \/ c = customMode) /\ slot' = [slot EXCEPT ![t] = c]
    BY DEF TakeSlot
<1>5. slot'[t] = c /\ \A u \in Threads : u # t => slot'[u] = slot[u]
    BY <1>4 DEF ListInv, TypeInv
<1>6. AskedInv' /\ StartAskedInv' /\ ListedNow' /\ ToldInv'
    BY <1>1, <1>2, <1>3, StepKeepsAsked
<1>7. AloneInv'
    BY <1>1, <1>2, <1>3, StepAlone, ThreadsTwo DEF AloneInv
<1>8. HalfInv'
  <2>1. \A u \in Threads : ~ clash /\ u # t => pc'[u] \notin Held
      BY <1>2, <1>3, StepAlone DEF Filling, Writing, Held
  <2>2. ~ clash /\ ~ fault => slot[t] = customMode
      BY <1>1 DEF ListedInv, HalfInv, Held
  <2>3. ~ clash /\ ~ fault => slot'[t] = customMode'
      BY <1>1, <1>4, <1>5, <2>2
  <2> QED
      BY <1>1, <1>2, <2>1, <2>3 DEF HalfInv, Held, Half
<1>9. StrideInv'
    BY <1>1, <1>2, <1>5, StrideStays DEF Half
<1> QED
    BY <1>6, <1>7, <1>8, <1>9 DEF ListedInv

LEMMA WidthKeepsListed ==
    ASSUME ListInv, ListedInv, NEW t \in Threads, WriteWidth(t)
    PROVE  ListedInv'
<1>1. /\ ~ fault /\ pc[t] = "width" /\ pc' = [pc EXCEPT ![t] = "height"]
      /\ slot' = slot /\ customMode' = customMode /\ asked' = asked /\ host' = host
      /\ stride' = stride /\ (clash' <=> clash) /\ (raced' <=> raced)
      /\ (changed' <=> changed) /\ (announced' <=> announced) /\ (slept' <=> slept)
    BY Zenon DEF WriteWidth, hostVars
<1>2. pc'[t] = "height" /\ \A u \in Threads : u # t => pc'[u] = pc[u]
    BY <1>1, StepTo DEF Filling, Writing
<1>3. pc[t] \in Filling /\ pc'[t] \in Filling /\ pc[t] \in Writing /\ pc'[t] \in Writing
    BY <1>1, <1>2 DEF Filling, Writing
<1>4. AskedInv' /\ StartAskedInv' /\ ListedNow' /\ ToldInv'
    BY <1>1, <1>2, <1>3, StepKeepsAsked
<1>5. AloneInv'
    BY <1>1, <1>2, <1>3, StepAlone, ThreadsTwo DEF AloneInv
<1>6. ASSUME ~ fault'
      PROVE  \E c \in Slots : /\ c = slot[t]
                              /\ modeInfo'[c][1] = Clamp(asked[t])[1]
                              /\ \A s \in Slots : s # c => modeInfo'[s] = modeInfo[s]
  <2>1. PICK c \in Slots : c = slot[t]
      BY <1>6, WidthWhere, FixedFacts DEF Custom
  <2>2. modeInfo' = [modeInfo EXCEPT ![slot[t]][1] = Clamp(asked[t])[1]]
      BY <1>6, Zenon DEF WriteWidth
  <2>3. modeInfo[c] \in Size /\ modeInfo \in [Slots -> Size]
      BY <2>1 DEF ListInv, TypeInv
  <2>4. modeInfo'[c] = [modeInfo[c] EXCEPT ![1] = Clamp(asked[t])[1]]
        /\ \A s \in Slots : s # c => modeInfo'[s] = modeInfo[s]
      BY <2>1, <2>2, <2>3
  <2>5. PICK x \in Nat : x = Clamp(asked[t])[1]
      BY ClampLarge DEF ListInv, TypeInv, Size
  <2>6. modeInfo'[c] = <<x, modeInfo[c][2]>>
    <3>1. PICK m \in Size : m = modeInfo[c]
        BY <2>3
    <3>2. [m EXCEPT ![1] = x] = <<x, m[2]>>
        BY WriteOne
    <3>3. modeInfo'[c] = [m EXCEPT ![1] = x]
        BY <2>4, <2>5, <3>1
    <3> QED
        BY <3>1, <3>2, <3>3
  <2> QED
      BY <2>1, <2>4, <2>5, <2>6
<1>7. HalfInv'
  <2>1. \A u \in Threads : ~ clash /\ u # t => pc'[u] \notin Held
      BY <1>2, <1>3, StepAlone DEF Filling, Writing, Held
  <2>2. ~ clash /\ ~ fault' => slot[t] = customMode /\ modeInfo'[customMode][1] = Clamp(asked[t])[1]
    <3>1. ~ clash => slot[t] = customMode
        BY <1>1 DEF ListedInv, HalfInv, Held
    <3> QED
        BY <1>6, <3>1
  <2>3. ~ clash' /\ ~ fault' =>
           slot'[t] = customMode' /\ modeInfo'[customMode'][1] = Clamp(asked'[t])[1]
      BY <1>1, <2>2
  <2>4. ASSUME ~ clash', ~ fault', NEW u \in Threads
        PROVE  /\ pc'[u] \in Held => slot'[u] = customMode'
               /\ pc'[u] \in Half => modeInfo'[customMode'][1] = Clamp(asked'[u])[1]
               /\ pc'[u] # "stride"
      BY <1>1, <1>2, <2>1, <2>3, <2>4 DEF Held, Half
  <2> QED
      BY <2>4 DEF HalfInv, Clamp
<1>8. StrideInv'
  <2>1. ASSUME ~ clash', ~ fault', NEW s \in Slots
        PROVE  stride'[s] = Stride(modeInfo'[s][1]) \/ HalfWritten(s)'
    <3>1. stride[s] = Stride(modeInfo[s][1]) \/ HalfWritten(s)
        BY <1>1, <2>1 DEF ListedInv, StrideInv
    <3>2. HalfWritten(s) => HalfWritten(s)'
        BY <1>1, <1>2 DEF HalfWritten
    <3>3. CASE s = slot[t]
        BY <1>1, <1>2, <3>3 DEF HalfWritten
    <3>4. CASE s # slot[t]
        BY <1>1, <1>6, <2>1, <3>1, <3>2, <3>4
    <3> QED
        BY <3>3, <3>4
  <2> QED
      BY <2>1 DEF StrideInv, Stride
<1> QED
    BY <1>4, <1>5, <1>7, <1>8 DEF ListedInv

LEMMA HeightKeepsListed ==
    ASSUME ListInv, ListedInv, NEW t \in Threads, WriteHeight(t)
    PROVE  ListedInv'
<1>1. /\ ~ fault /\ pc[t] = "height" /\ pc' = [pc EXCEPT ![t] = "stride"]
      /\ modeInfo' = [modeInfo EXCEPT ![slot[t]][2] = Clamp(asked[t])[2]]
      /\ slot' = slot /\ customMode' = customMode /\ asked' = asked /\ host' = host
      /\ stride' = stride /\ (clash' <=> clash) /\ (raced' <=> raced) /\ (fault' <=> fault)
      /\ (changed' <=> changed) /\ (announced' <=> announced) /\ (slept' <=> slept)
    BY Zenon DEF WriteHeight, hostVars
<1>2. pc'[t] = "stride" /\ \A u \in Threads : u # t => pc'[u] = pc[u]
    BY <1>1, StepTo DEF Filling, Writing
<1>3. pc[t] \in Filling /\ pc'[t] \in Filling /\ pc[t] \in Writing /\ pc'[t] \in Writing
    BY <1>1, <1>2 DEF Filling, Writing
<1>4. AskedInv' /\ StartAskedInv' /\ ListedNow' /\ ToldInv'
    BY <1>1, <1>2, <1>3, StepKeepsAsked
<1>5. AloneInv'
    BY <1>1, <1>2, <1>3, StepAlone, ThreadsTwo DEF AloneInv
<1>6. PICK c \in Slots : c = slot[t]
    BY <1>1, FixedFacts DEF ListInv, ChosenInv, Half, Custom
<1>7. modeInfo[c] \in Size /\ modeInfo \in [Slots -> Size]
    BY <1>6 DEF ListInv, TypeInv
<1>8. modeInfo'[c] = [modeInfo[c] EXCEPT ![2] = Clamp(asked[t])[2]]
      /\ \A s \in Slots : s # c => modeInfo'[s] = modeInfo[s]
    BY <1>1, <1>6, <1>7
<1>9. PICK x \in Nat : x = Clamp(asked[t])[2]
    BY ClampLarge DEF ListInv, TypeInv, Size
<1>10. modeInfo'[c] = <<modeInfo[c][1], x>>
  <2>1. PICK m \in Size : m = modeInfo[c]
      BY <1>7
  <2>2. [m EXCEPT ![2] = x] = <<m[1], x>>
      BY WriteOne
  <2>3. modeInfo'[c] = [m EXCEPT ![2] = x]
      BY <1>8, <1>9, <2>1
  <2> QED
      BY <2>1, <2>2, <2>3
<1>11. modeInfo'[c][1] = modeInfo[c][1] /\ modeInfo'[c][2] = Clamp(asked[t])[2]
    BY <1>9, <1>10
<1>12. HalfInv'
  <2>1. \A u \in Threads : ~ clash /\ u # t => pc'[u] \notin Held
      BY <1>2, <1>3, StepAlone DEF Filling, Writing, Held
  <2>2. ~ clash => /\ slot[t] = customMode /\ modeInfo'[customMode][1] = Clamp(asked[t])[1]
                   /\ modeInfo'[customMode][2] = Clamp(asked[t])[2]
    <3>1. ~ clash => /\ slot[t] = customMode
                     /\ modeInfo[customMode][1] = Clamp(asked[t])[1]
        BY <1>1 DEF ListedInv, HalfInv, Held, Half
    <3> QED
        BY <1>6, <1>11, <3>1
  <2>3. ~ clash' =>
           /\ slot'[t] = customMode' /\ modeInfo'[customMode'][1] = Clamp(asked'[t])[1]
           /\ modeInfo'[customMode'][2] = Clamp(asked'[t])[2]
      BY <1>1, <2>2
  <2>4. ASSUME ~ clash', ~ fault', NEW u \in Threads
        PROVE  /\ pc'[u] \in Held => slot'[u] = customMode'
               /\ pc'[u] \in Half => modeInfo'[customMode'][1] = Clamp(asked'[u])[1]
               /\ pc'[u] = "stride" => modeInfo'[customMode'][2] = Clamp(asked'[u])[2]
      BY <1>1, <2>1, <2>3, <2>4 DEF Held, Half
  <2> QED
      BY <2>4 DEF HalfInv, Clamp
<1>13. StrideInv'
  <2>1. ASSUME ~ clash', ~ fault', NEW s \in Slots
        PROVE  stride'[s] = Stride(modeInfo'[s][1]) \/ HalfWritten(s)'
    <3>1. stride[s] = Stride(modeInfo[s][1]) \/ HalfWritten(s)
        BY <1>1, <2>1 DEF ListedInv, StrideInv
    <3>2. HalfWritten(s) => HalfWritten(s)'
        BY <1>1, <1>2 DEF HalfWritten
    <3>3. modeInfo'[s][1] = modeInfo[s][1]
        BY <1>8, <1>11
    <3> QED
        BY <1>1, <3>1, <3>2, <3>3
  <2> QED
      BY <2>1 DEF StrideInv, Stride
<1> QED
    BY <1>4, <1>5, <1>12, <1>13 DEF ListedInv

LEMMA StrideKeepsListed ==
    ASSUME ListInv, ListedInv, NEW t \in Threads, WriteStride(t)
    PROVE  ListedInv'
<1>1. /\ ~ fault /\ pc[t] = "stride" /\ pc' = [pc EXCEPT ![t] = AfterCustom(t)]
      /\ stride' = [stride EXCEPT ![slot[t]] = Stride(Clamp(asked[t])[1])]
      /\ slot' = slot /\ customMode' = customMode /\ asked' = asked /\ host' = host
      /\ modeInfo' = modeInfo
      /\ (raced' <=> raced) /\ (changed' <=> changed) /\ (clash' <=> clash)
      /\ (announced' <=> announced) /\ (slept' <=> slept) /\ (fault' <=> fault)
    BY Zenon DEF WriteStride, hostVars
<1>2. /\ pc'[t] = IF t = "start" THEN "done" ELSE "clear"
      /\ \A u \in Threads : u # t => pc'[u] = pc[u]
    BY <1>1, CustomTo
<1>3. AskedInv'
  <2>1. pc'["worker"] \in Writing \cup {"clear"} => pc["worker"] \in Writing \cup {"clear"}
      BY <1>1, <1>2, ThreadsTwo DEF Writing
  <2> QED
      BY <1>1, <2>1 DEF ListedInv, AskedInv
<1>4. StartAskedInv'
  <2>1. /\ pc'["start"] \in Writing => pc["start"] \in Writing
        /\ pc["worker"] \in {"idle", "ask", "pick"} => pc'["worker"] = pc["worker"]
      BY <1>1, <1>2, ThreadsTwo DEF Writing
  <2> QED
      BY <1>1, <2>1 DEF ListedInv, StartAskedInv, Showing
<1>5. AloneInv' /\ ToldInv'
    BY <1>1, <1>2, ThreadsTwo DEF ListedInv, AloneInv, ToldInv, Filling, Writing
<1>6. pc[t] \in Filling /\ pc'[t] \notin Held
    BY <1>1, <1>2 DEF Filling, Writing, Held
<1>7. HalfInv'
  <2>1. \A u \in Threads : ~ clash /\ u # t => pc'[u] \notin Held
      BY <1>2, <1>6, StepAlone DEF Filling, Writing, Held
  <2> QED
      BY <1>1, <1>6, <2>1 DEF HalfInv, Held, Half
<1>8. ~ clash => /\ slot[t] = customMode /\ modeInfo[customMode][1] = Clamp(asked[t])[1]
                 /\ modeInfo[customMode][2] = Clamp(asked[t])[2]
    BY <1>1 DEF ListedInv, HalfInv, Held, Half
<1>9. StrideInv'
  <2>1. ASSUME ~ clash', ~ fault', NEW s \in Slots
        PROVE  stride'[s] = Stride(modeInfo'[s][1]) \/ HalfWritten(s)'
    <3>1. CASE s = slot[t]
      <4>1. stride'[s] = Stride(Clamp(asked[t])[1])
          BY <1>1, <3>1 DEF ListInv, TypeInv
      <4> QED
          BY <1>1, <1>8, <2>1, <3>1, <4>1
    <3>2. CASE s # slot[t]
      <4>1. stride'[s] = stride[s]
          BY <1>1, <3>2 DEF ListInv, TypeInv
      <4>2. stride[s] = Stride(modeInfo[s][1]) \/ HalfWritten(s)
          BY <1>1, <2>1 DEF ListedInv, StrideInv
      <4>3. HalfWritten(s) => HalfWritten(s)'
          BY <1>1, <1>2, <3>2 DEF HalfWritten
      <4> QED
          BY <1>1, <4>1, <4>2, <4>3
    <3> QED
        BY <3>1, <3>2
  <2> QED
      BY <2>1 DEF StrideInv, Stride
<1>10. ListedNow'
  <2>1. ASSUME ~ raced, ~ clash, Showing, pc'["start"] = "done",
               pc'["worker"] = "clear" \/ (pc'["worker"] = "idle" /\ ~ changed)
        PROVE  modeInfo'[customMode] = Clamp(host)
    <3>1. asked[t] = host
      <4>1. CASE t = "worker"
          BY <1>1, <2>1, <4>1 DEF ListedInv, AskedInv, Writing
      <4>2. CASE t = "start"
        <5>1. pc["worker"] = "clear" \/ (pc["worker"] = "idle" /\ ~ changed)
            BY <1>2, <2>1, <4>2, ThreadsTwo
        <5> QED
            BY <1>1, <2>1, <4>2, <5>1 DEF ListedInv, StartAskedInv, Writing
      <4> QED
          BY <4>1, <4>2, ThreadsTwo
    <3>2. PICK c \in Slots : c = customMode
        BY <1>1, <1>8, <2>1, FixedFacts DEF ListInv, ChosenInv, Half, Custom
    <3>3. modeInfo[c] \in Size
        BY DEF ListInv, TypeInv
    <3>4. Clamp(host) \in Size
        BY ClampLarge DEF ListInv, TypeInv
    <3>5. modeInfo[c] = Clamp(host)
        BY <1>8, <2>1, <3>1, <3>2, <3>3, <3>4, SameSize
    <3> QED
        BY <1>1, <3>2, <3>5
  <2> QED
      BY <1>1, <2>1 DEF ListedNow, Showing, Clamp
<1> QED
    BY <1>3, <1>4, <1>5, <1>7, <1>9, <1>10 DEF ListedInv

LEMMA ListedNext == ListInv /\ ListedInv /\ [Next]_vars => ListedInv'
<1> SUFFICES ASSUME ListInv, ListedInv, [Next]_vars PROVE ListedInv'
    OBVIOUS
<1>1. CASE \/ Started \/ ReadWidth \/ EnumBegins \/ EnumOffers
           \/ CommitBegins \/ CommitMatches \/ CommitSizes \/ CommitCreates
           \/ UNCHANGED vars
  <2> DEFINE Same == /\ modeInfo' = modeInfo /\ stride' = stride /\ customMode' = customMode
                     /\ host' = host /\ threadVars' = threadVars
                     /\ (changed' <=> changed) /\ (announced' <=> announced)
                     /\ (raced' <=> raced) /\ (clash' <=> clash)
                     /\ (slept' <=> slept) /\ (fault' <=> fault)
  <2>1. Same
    <3>1. CASE Started
        BY <3>1, Zenon DEF Started, listVars, hostVars, pastVars
    <3>2. CASE ReadWidth
        BY <3>2, Zenon DEF ReadWidth, listVars, hostVars, pastVars
    <3>3. CASE EnumBegins
        BY <3>3, Zenon DEF EnumBegins, listVars, hostVars
    <3>4. CASE EnumOffers
        BY <3>4, Zenon DEF EnumOffers, listVars, hostVars, pastVars
    <3>5. CASE CommitBegins
        BY <3>5, Zenon DEF CommitBegins, listVars, hostVars
    <3>6. CASE CommitMatches
        BY <3>6, Zenon DEF CommitMatches, listVars, hostVars
    <3>7. CASE CommitCreates
        BY <3>7, Zenon DEF CommitCreates, listVars, hostVars, pastVars
    <3>8. CASE CommitSizes
        BY <3>8, Zenon DEF CommitSizes, listVars, hostVars, pastVars
    <3>9. CASE UNCHANGED vars
        BY <3>9, Zenon DEF vars, listVars, hostVars, pastVars
    <3> QED
        BY <1>1, <3>1, <3>2, <3>3, <3>4, <3>5, <3>6, <3>7, <3>8, <3>9
  <2> QED
      BY <2>1, ListedStays
<1> QED
    BY <1>1, ResizeKeepsListed, FillKeepsListed, WakeKeepsListed, ClearKeepsListed,
       CycleKeepsListed, AskKeepsListed, PickKeepsListed, StoreKeepsListed, TakeKeepsListed,
       WidthKeepsListed, HeightKeepsListed, StrideKeepsListed DEF Next

(* When the worker is done with a change, the current custom slot holds the     *)
(* size that the host's display has, raised to the minimum, although the       *)
(* thread of StartDevice writes the list too; a change that is still to be    *)
(* handled is announced (ConfigChanged, GetDisplayInfo, SetCustomDisplay).    *)
THEOREM ListedCorrect == Spec => []NewestListed
<1>1. Init => ListInv /\ ListedInv
    BY ListStart, ListedStart
<1>2. ListInv /\ ListedInv /\ [Next]_vars => (ListInv /\ ListedInv)'
    BY ListNext, ListedNext
<1>3. ListInv /\ ListedInv => NewestListed
    BY DEF ListInv, StartInv, ListedInv, ListedNow, ToldInv, Showing, NewestListed
<1> QED
    BY <1>1, <1>2, <1>3, PTL DEF Spec
-----------------------------------------------------------------------------
(* The slot c that held the newest size when dxgkrnl began to enumerate: the   *)
(* next write goes to the other slot, so c holds it until a second begins.    *)
Kept(c) ==
    /\ modeInfo[c] = newest
    /\ writes = 0 => /\ customMode = c /\ pc["worker"] \notin Held
                     /\ pc["worker"] = "store" => slot["worker"] # c
    /\ writes = 1 => customMode # c /\ (pc["worker"] \in Held => slot["worker"] # c)

(* What dxgkrnl's thread has read of it.                                      *)
Seen(c) ==
    /\ dxg \in Enum => spoiled /\ (reading > c => newest \in offered)
    /\ dxg = "enum_height" /\ reading = c => width = newest[1]
    /\ dxg \notin Enum => newest \in offered
    /\ dxg \in Match /\ disp = newest => reading <= c
    /\ dxg = "match_height" /\ disp = newest /\ reading = c => width = newest[1]
    /\ ~ spoiled /\ disp = newest =>
          /\ dxg \in Making => modeInfo[reading] = newest /\ ~ HalfWritten(reading)
          /\ dxg = "idle" => frameBuf = newest
          /\ dxg \in {"resource", "idle"} /\ ~ clash => frameBytes = MemoryOf(newest)

NewestInv ==
    /\ newest \in Size
    /\ newest # NoSize /\ writes <= 1 => \E c \in Custom : Kept(c) /\ Seen(c)

LEMMA NoSizeSize == NoSize \in Size /\ NoSize[1] = 0
    BY DEF NoSize, Size

LEMMA NewestStart == Init => NewestInv
    BY NoSizeSize DEF Init, NewestInv

(* Seen(c) is about what dxgkrnl's thread has, and the slot it is using.       *)
LEMMA SeenStays ==
    ASSUME NEW c \in Custom, Seen(c), dxgVars' = dxgVars, clash => clash',
           spoiled => spoiled',
           dxg \in Making /\ ~ spoiled' =>
               /\ modeInfo'[reading] = modeInfo[reading]
               /\ HalfWritten(reading)' => HalfWritten(reading)
    PROVE  Seen(c)'
<1>1. /\ dxg' = dxg /\ disp' = disp /\ newest' = newest /\ reading' = reading
      /\ width' = width /\ frameBuf' = frameBuf /\ frameBytes' = frameBytes /\ offered' = offered
    BY DEF dxgVars
<1>2. HalfWritten(reading') <=> HalfWritten(reading)
    BY <1>1
<1>3. MemoryOf(newest') = MemoryOf(newest)
    BY <1>1
<1> QED
    BY <1>1, <1>2, <1>3 DEF Seen, MemoryOf, HalfWritten

LEMMA NewestStays ==
    ASSUME NewestInv, dxgVars' = dxgVars, modeInfo' = modeInfo, customMode' = customMode,
           writes' = writes, slot' = slot, spoiled' <=> spoiled, clash => clash',
           pc'["worker"] \in Held \cup {"store"} => pc'["worker"] = pc["worker"],
           \A t \in Threads : pc'[t] \in Half => pc[t] = pc'[t]
    PROVE  NewestInv'
<1>1. newest' = newest
    BY DEF dxgVars
<1>2. ASSUME NEW c \in Custom, Kept(c), Seen(c)
      PROVE  Kept(c)' /\ Seen(c)'
  <2>1. Kept(c)'
      BY <1>1, <1>2 DEF Kept
  <2>2. HalfWritten(reading)' => HalfWritten(reading)
      BY DEF HalfWritten, Half, dxgVars
  <2>3. Seen(c)'
      BY <1>2, <2>2, SeenStays
  <2> QED
      BY <2>1, <2>3
<1> QED
    BY <1>1, <1>2 DEF NewestInv

(* While StartDevice runs there is no newest size.                            *)
LEMMA NoneYet ==
    ASSUME FixedInv, dxg = "starting", newest' = newest
    PROVE  NewestInv'
    BY NoSizeSize DEF FixedInv, NewestInv

LEMMA AsideKeepsNewest ==
    ASSUME ListInv, FixedInv, NewestInv,
           \/ HostResizes \/ FillList \/ WorkerWakes \/ WorkerClears \/ PowerCycle \/ Started
           \/ \E t \in Threads : AskDisplayInfo(t)
    PROVE  NewestInv'
<1>1. CASE HostResizes \/ PowerCycle
  <2>1. /\ dxgVars' = dxgVars /\ modeInfo' = modeInfo /\ customMode' = customMode
        /\ writes' = writes /\ slot' = slot /\ pc' = pc /\ (spoiled' <=> spoiled)
        /\ (clash' <=> clash)
    <3>1. CASE HostResizes
        BY <3>1, Zenon DEF HostResizes, listVars, threadVars
    <3>2. CASE PowerCycle
        BY <3>2, Zenon DEF PowerCycle, listVars, threadVars
    <3> QED
        BY <1>1, <3>1, <3>2
  <2> QED
      BY <2>1, NewestStays
<1>2. CASE WorkerWakes \/ WorkerClears
  <2>1. /\ dxgVars' = dxgVars /\ modeInfo' = modeInfo /\ customMode' = customMode
        /\ writes' = writes /\ slot' = slot /\ (spoiled' <=> spoiled) /\ (clash' <=> clash)
    <3>1. CASE WorkerWakes
        BY <3>1, Zenon DEF WorkerWakes, listVars, pastVars
    <3>2. CASE WorkerClears
        BY <3>2, Zenon DEF WorkerClears, listVars
    <3> QED
        BY <1>2, <3>1, <3>2
  <2>2. pc'["worker"] \in {"ask", "idle"} /\ pc'["start"] = pc["start"]
    <3>1. PICK p \in {"ask", "idle"} : pc' = [pc EXCEPT !["worker"] = p]
        BY <1>2 DEF WorkerWakes, WorkerClears
    <3> QED
        BY <3>1, ThreadsTwo DEF ListInv, TypeInv
  <2> QED
      BY <2>1, <2>2, NewestStays, ThreadsTwo DEF Held, Half
<1>3. CASE \E t \in Threads : AskDisplayInfo(t)
  <2>1. PICK t \in Threads : AskDisplayInfo(t)
      BY <1>3
  <2>2. /\ dxgVars' = dxgVars /\ modeInfo' = modeInfo /\ customMode' = customMode
        /\ writes' = writes /\ slot' = slot /\ (spoiled' <=> spoiled) /\ (clash' <=> clash)
      BY <2>1, Zenon DEF AskDisplayInfo, listVars
  <2>3. pc'[t] \in {"done", "clear", "pick"} /\ \A u \in Threads : u # t => pc'[u] = pc[u]
      BY <2>1, AskTo DEF AfterCustom
  <2> QED
      BY <2>2, <2>3, NewestStays, ThreadsTwo DEF Held, Half
<1>4. CASE FillList \/ Started
  <2>1. dxg = "starting" /\ newest' = newest
    <3>1. CASE FillList
        BY <3>1 DEF FillList, dxgVars, ListInv, StartInv
    <3>2. CASE Started
        BY <3>2 DEF Started
    <3> QED
        BY <1>4, <3>1, <3>2
  <2> QED
      BY <2>1, NoneYet
<1> QED
    BY <1>1, <1>2, <1>3, <1>4

(* A write of the worker.                                                    *)
(* Once StartDevice has returned only the worker moves.                       *)
LEMMA WorkersStep ==
    ASSUME ListInv, dxg # "starting", NEW t \in Threads, pc[t] \in Writing
    PROVE  t = "worker" /\ pc["start"] = "done" /\ pc["start"] # "fill"
    BY ListThere, ThreadsTwo DEF Writing

(* A step of SetCustomDisplay that writes no slot.                             *)
LEMMA SlotlessKeepsNewest ==
    ASSUME NewestInv, dxgVars' = dxgVars, modeInfo' = modeInfo,
           spoiled' <=> spoiled, clash => clash',
           \A t \in Threads : pc'[t] \in Half => pc[t] = pc'[t] /\ slot'[t] = slot[t],
           writes' <= 1 => writes <= 1,
           \A c \in Custom : Kept(c) /\ writes' <= 1 => Kept(c)'
    PROVE  NewestInv'
<1>1. newest' = newest
    BY DEF dxgVars
<1>2. ASSUME NEW c \in Custom, Seen(c)
      PROVE  Seen(c)'
  <2>1. HalfWritten(reading)' => HalfWritten(reading)
      BY DEF HalfWritten, Half, dxgVars
  <2> QED
      BY <1>2, <2>1, SeenStays
<1> QED
    BY <1>1, <1>2 DEF NewestInv

LEMMA PickKeepsNewest ==
    ASSUME ListInv, FixedInv, NewestInv, NEW t \in Threads, PickSlot(t)
    PROVE  NewestInv'
<1>1. /\ ~ fault /\ pc[t] = "pick" /\ pc' = [pc EXCEPT ![t] = "store"]
      /\ slot' = [slot EXCEPT ![t] = Ushort(NextCustomMode)]
      /\ modeInfo' = modeInfo /\ dxgVars' = dxgVars /\ (spoiled' <=> spoiled)
      /\ (clash => clash') /\ customMode' = customMode /\ writes' = writes
    BY Zenon DEF PickSlot, listVars
<1>2. newest' = newest
    BY <1>1 DEF dxgVars
<1>3. CASE dxg = "starting"
    BY <1>2, <1>3, NoneYet
<1>4. CASE dxg # "starting"
  <2>1. t = "worker" /\ pc["start"] # "fill"
      BY <1>1, <1>4, WorkersStep DEF Writing
  <2>2. pc'["worker"] = "store" /\ pc'["start"] = pc["start"]
      BY <1>1, <2>1, StepTo, ThreadsTwo DEF Filling, Writing
  <2>3. PICK k : k = Ushort(NextCustomMode)
      OBVIOUS
  <2>4. slot'["worker"] = k /\ slot'["start"] = slot["start"] /\ k # customMode
      BY <1>1, <2>1, <2>3, OtherSlot, ThreadsTwo DEF ListInv, TypeInv
  <2>5. \A c \in Custom : Kept(c) => Kept(c)'
      BY <1>1, <1>2, <2>2, <2>4 DEF Kept, Held
  <2>6. \A u \in Threads : pc'[u] \in Half => pc[u] = pc'[u] /\ slot'[u] = slot[u]
      BY <2>2, <2>4, ThreadsTwo DEF Half
  <2> QED
      BY <1>1, <2>5, <2>6, SlotlessKeepsNewest
<1> QED
    BY <1>3, <1>4

LEMMA StoreKeepsNewest ==
    ASSUME ListInv, FixedInv, NewestInv, NEW t \in Threads, StoreSlot(t)
    PROVE  NewestInv'
<1>1. /\ pc[t] = "store" /\ pc' = [pc EXCEPT ![t] = "take"] /\ slot' = slot
      /\ modeInfo' = modeInfo /\ dxgVars' = dxgVars /\ (spoiled' <=> spoiled)
      /\ (clash => clash') /\ customMode' = slot[t] /\ writes' = writes + 1
    BY Zenon DEF StoreSlot
<1>2. newest' = newest
    BY <1>1 DEF dxgVars
<1>3. CASE dxg = "starting"
    BY <1>2, <1>3, NoneYet
<1>4. CASE dxg # "starting"
  <2>1. t = "worker"
      BY <1>1, <1>4, WorkersStep DEF Writing
  <2>2. pc'["worker"] = "take" /\ pc'["start"] = pc["start"]
      BY <1>1, <2>1, StepTo, ThreadsTwo DEF Filling, Writing
  <2>3. writes' <= 1 => writes = 0 /\ writes' = 1 /\ writes <= 1
      BY <1>1 DEF ListInv, TypeInv
  <2>4. ASSUME NEW c \in Custom, Kept(c), writes' <= 1
        PROVE  Kept(c)'
      BY <1>1, <1>2, <2>1, <2>2, <2>3, <2>4 DEF Kept, Held
  <2>5. \A u \in Threads : pc'[u] \in Half => pc[u] = pc'[u] /\ slot'[u] = slot[u]
      BY <1>1, <2>2, ThreadsTwo DEF Half
  <2> QED
      BY <1>1, <2>3, <2>4, <2>5, SlotlessKeepsNewest
<1> QED
    BY <1>3, <1>4

LEMMA TakeKeepsNewest ==
    ASSUME ListInv, FixedInv, NewestInv, NEW t \in Threads, TakeSlot(t)
    PROVE  NewestInv'
<1>1. /\ pc[t] = "take" /\ pc' = [pc EXCEPT ![t] = "width"]
      /\ modeInfo' = modeInfo /\ dxgVars' = dxgVars /\ (spoiled' <=> spoiled)
      /\ (clash => clash') /\ customMode' = customMode /\ writes' = writes
    BY Zenon DEF TakeSlot, listVars, pastVars
<1>2. newest' = newest
    BY <1>1 DEF dxgVars
<1>3. CASE dxg = "starting"
    BY <1>2, <1>3, NoneYet
<1>4. CASE dxg # "starting"
  <2>1. t = "worker"
      BY <1>1, <1>4, WorkersStep DEF Writing
  <2>2. pc'["worker"] = "width" /\ pc'["start"] = pc["start"]
      BY <1>1, <2>1, StepTo, ThreadsTwo DEF Filling, Writing
  <2>3. PICK k : (k = slot[t] \/ k = customMode) /\ slot' = [slot EXCEPT ![t] = k]
      BY DEF TakeSlot
  <2>4. slot'["worker"] = k /\ slot'["start"] = slot["start"]
      BY <2>1, <2>3, ThreadsTwo DEF ListInv, TypeInv
  <2>5. ASSUME NEW c \in Custom, Kept(c), writes' <= 1
        PROVE  Kept(c)'
    <3>1. writes = 1
      <4>1. writes # 0
          BY <1>1, <2>1, <2>5 DEF Kept, Held
      <4> QED
          BY <1>1, <2>5, <4>1 DEF ListInv, TypeInv
    <3>2. k # c
        BY <1>1, <2>1, <2>3, <2>5, <3>1 DEF Kept, Held
    <3> QED
        BY <1>1, <1>2, <2>2, <2>4, <2>5, <3>1, <3>2 DEF Kept
  <2>6. \A u \in Threads : pc'[u] \in Half => pc[u] = pc'[u] /\ slot'[u] = slot[u]
      BY <2>2, <2>4, ThreadsTwo DEF Half
  <2> QED
      BY <1>1, <2>5, <2>6, SlotlessKeepsNewest
<1> QED
    BY <1>3, <1>4

(* A write of the worker to a slot, seen from the slot c that it must leave    *)
(* alone.                                                                   *)
LEMMA WriteElsewhere ==
    ASSUME ListInv, NewestInv, dxg # "starting", NEW t \in Threads, pc[t] \in Held,
           slot' = slot, customMode' = customMode, writes' = writes,
           \A s \in 0 .. 5 : s # slot[t] => modeInfo'[s] = modeInfo[s],
           \A u \in Threads : u # t => pc'[u] = pc[u],
           pc'[t] \in Held \cup {"clear"},
           dxgVars' = dxgVars, spoiled \/ Spoils(t) <=> spoiled', clash' <=> clash
    PROVE  NewestInv'
<1>1. newest' = newest /\ reading' = reading /\ dxg' = dxg
    BY DEF dxgVars
<1>2. t = "worker"
    BY WorkersStep DEF Held, Writing
<1>3. ASSUME NEW c \in Custom, Kept(c), Seen(c), writes <= 1
      PROVE  Kept(c)' /\ Seen(c)'
  <2>1. writes = 1
    <3>1. writes # 0
        BY <1>2, <1>3 DEF Kept
    <3> QED
        BY <1>3, <3>1 DEF ListInv, TypeInv
  <2>2. slot[t] # c /\ customMode # c
      BY <1>2, <1>3, <2>1 DEF Kept
  <2>3. c \in 0 .. 5 /\ reading \in 0 .. 5
      BY DEF Custom, ListInv, OfferedInv
  <2>4. Kept(c)'
      BY <1>1, <1>2, <1>3, <2>1, <2>2, <2>3 DEF Kept
  <2>5. dxg \in Making /\ ~ spoiled' => slot[t] # reading
      BY DEF Spoils, Making
  <2>6. ASSUME dxg \in Making, ~ spoiled'
        PROVE  /\ modeInfo'[reading] = modeInfo[reading]
               /\ HalfWritten(reading)' => HalfWritten(reading)
    <3>1. modeInfo'[reading] = modeInfo[reading]
        BY <2>3, <2>5, <2>6
    <3>2. HalfWritten(reading)' => HalfWritten(reading)
        BY <1>1, <2>5, <2>6 DEF HalfWritten
    <3> QED
        BY <3>1, <3>2
  <2>7. Seen(c)'
      BY <1>3, <2>6, SeenStays
  <2> QED
      BY <2>4, <2>7
<1> QED
    BY <1>1, <1>3 DEF NewestInv

LEMMA WidthKeepsNewest ==
    ASSUME ListInv, FixedInv, NewestInv, NEW t \in Threads, WriteWidth(t)
    PROVE  NewestInv'
<1>1. /\ pc[t] = "width" /\ pc' = [pc EXCEPT ![t] = "height"]
      /\ slot' = slot /\ (spoiled \/ Spoils(t) <=> spoiled') /\ (clash' <=> clash)
      /\ customMode' = customMode /\ writes' = writes /\ dxgVars' = dxgVars
    BY Zenon DEF WriteWidth
<1>2. \A s \in 0 .. 5 : s # slot[t] => modeInfo'[s] = modeInfo[s]
  <2>1. \/ modeInfo' = modeInfo
        \/ modeInfo' = [modeInfo EXCEPT ![slot[t]][1] = Clamp(asked[t])[1]]
      BY Zenon DEF WriteWidth
  <2>2. modeInfo \in [Slots -> Size] /\ Slots = 0 .. 5
      BY FixedFacts DEF ListInv, TypeInv
  <2> QED
      BY <2>1, <2>2
<1>3. newest' = newest
    BY <1>1 DEF dxgVars
<1>4. CASE dxg = "starting"
    BY <1>3, <1>4, NoneYet
<1>5. CASE dxg # "starting"
  <2>1. pc'[t] = "height" /\ \A u \in Threads : u # t => pc'[u] = pc[u]
      BY <1>1, StepTo DEF Filling, Writing
  <2>2. pc[t] \in Held /\ pc'[t] \in Held \cup {"clear"}
      BY <1>1, <2>1 DEF Held
  <2> QED
      BY <1>1, <1>2, <1>5, <2>1, <2>2, WriteElsewhere
<1> QED
    BY <1>4, <1>5

LEMMA HeightKeepsNewest ==
    ASSUME ListInv, FixedInv, NewestInv, NEW t \in Threads, WriteHeight(t)
    PROVE  NewestInv'
<1>1. /\ pc[t] = "height" /\ pc' = [pc EXCEPT ![t] = "stride"]
      /\ slot' = slot /\ (spoiled \/ Spoils(t) <=> spoiled') /\ (clash' <=> clash)
      /\ customMode' = customMode /\ writes' = writes /\ dxgVars' = dxgVars
    BY Zenon DEF WriteHeight
<1>2. \A s \in 0 .. 5 : s # slot[t] => modeInfo'[s] = modeInfo[s]
  <2>1. modeInfo' = [modeInfo EXCEPT ![slot[t]][2] = Clamp(asked[t])[2]]
      BY Zenon DEF WriteHeight
  <2>2. modeInfo \in [Slots -> Size] /\ Slots = 0 .. 5
      BY FixedFacts DEF ListInv, TypeInv
  <2> QED
      BY <2>1, <2>2
<1>3. newest' = newest
    BY <1>1 DEF dxgVars
<1>4. CASE dxg = "starting"
    BY <1>3, <1>4, NoneYet
<1>5. CASE dxg # "starting"
  <2>1. pc'[t] = "stride" /\ \A u \in Threads : u # t => pc'[u] = pc[u]
      BY <1>1, StepTo DEF Filling, Writing
  <2>2. pc[t] \in Held /\ pc'[t] \in Held \cup {"clear"}
      BY <1>1, <2>1 DEF Held
  <2> QED
      BY <1>1, <1>2, <1>5, <2>1, <2>2, WriteElsewhere
<1> QED
    BY <1>4, <1>5

LEMMA StrideKeepsNewest ==
    ASSUME ListInv, FixedInv, NewestInv, NEW t \in Threads, WriteStride(t)
    PROVE  NewestInv'
<1>1. /\ pc[t] = "stride" /\ pc' = [pc EXCEPT ![t] = AfterCustom(t)] /\ modeInfo' = modeInfo
      /\ slot' = slot /\ (spoiled \/ Spoils(t) <=> spoiled') /\ (clash' <=> clash)
      /\ customMode' = customMode /\ writes' = writes /\ dxgVars' = dxgVars
    BY Zenon DEF WriteStride
<1>2. newest' = newest
    BY <1>1 DEF dxgVars
<1>3. CASE dxg = "starting"
    BY <1>2, <1>3, NoneYet
<1>4. CASE dxg # "starting"
  <2>1. t = "worker"
      BY <1>1, <1>4, WorkersStep DEF Writing
  <2>2. pc'[t] = "clear" /\ \A u \in Threads : u # t => pc'[u] = pc[u]
      BY <1>1, <2>1, CustomTo, ThreadsTwo
  <2>3. pc[t] \in Held /\ pc'[t] \in Held \cup {"clear"}
      BY <1>1, <2>2 DEF Held
  <2> QED
      BY <1>1, <1>4, <2>2, <2>3, WriteElsewhere
<1> QED
    BY <1>3, <1>4

(* The reader's steps: the list and the threads stay as they are.             *)
LEMMA ReaderKeepsKept ==
    ASSUME NewestInv, UNCHANGED <<listVars, threadVars>>, writes' = writes, newest' = newest,
           \A c \in Custom : Kept(c) /\ Seen(c) => Seen(c)'
    PROVE  NewestInv'
<1>1. modeInfo' = modeInfo /\ customMode' = customMode /\ pc' = pc /\ slot' = slot
    BY DEF listVars, threadVars
<1>2. ASSUME NEW c \in Custom, Kept(c)
      PROVE  Kept(c)'
    BY <1>1, <1>2 DEF Kept
<1> QED
    BY <1>2 DEF NewestInv

LEMMA ReadKeepsNewest == ASSUME ListInv, NewestInv, ReadWidth PROVE NewestInv'
<1>1. /\ width' = modeInfo[reading][1] /\ reading' = reading /\ disp' = disp
      /\ offered' = offered /\ newest' = newest /\ frameBuf' = frameBuf /\ frameBytes' = frameBytes
      /\ (spoiled' <=> spoiled) /\ (clash' <=> clash)
      /\ writes' = writes /\ UNCHANGED <<listVars, threadVars>>
      /\ \/ dxg = "enum_width" /\ dxg' = "enum_height"
         \/ dxg = "match_width" /\ dxg' = "match_height"
    BY Zenon DEF ReadWidth, pastVars
<1>2. ASSUME NEW c \in Custom, Kept(c), Seen(c)
      PROVE  Seen(c)'
    BY <1>1, <1>2 DEF Kept, Seen, Enum, Match, Making
<1> QED
    BY <1>1, <1>2, ReaderKeepsKept

LEMMA EnumBeginsKeepsNewest == ASSUME ListInv, NewestInv, EnumBegins PROVE NewestInv'
<1>1. /\ dxg = "idle" /\ dxg' = "enum_width" /\ reading' = 0 /\ writes' = 0 /\ spoiled'
      /\ newest' = IF \E t \in Threads : pc[t] \in Filling THEN NoSize
                   ELSE modeInfo[customMode]
      /\ UNCHANGED <<listVars, threadVars>>
    BY Zenon DEF EnumBegins
<1>2. modeInfo' = modeInfo /\ customMode' = customMode /\ pc' = pc /\ slot' = slot
    BY <1>1 DEF listVars, threadVars
<1>3. ~ fault /\ pc["start"] # "fill"
    BY <1>1, ListThere DEF EnumBegins
<1>4. newest' # NoSize => \A t \in Threads : pc[t] \notin Filling
    BY <1>1
<1>5. newest' # NoSize => customMode \in Custom
    BY <1>3, <1>4, ThreadsTwo DEF ListInv, ChosenInv, Filling, Writing
<1>6. newest' \in Size
  <2>1. newest' # NoSize => modeInfo[customMode] \in Size
      BY <1>3, <1>5, EverySlotLarge DEF ListInv, Custom
  <2> QED
      BY <1>1, <2>1, NoSizeSize
<1>7. ASSUME newest' # NoSize
      PROVE  \E c \in Custom : Kept(c)' /\ Seen(c)'
  <2>1. PICK c \in Custom : c = customMode
      BY <1>5, <1>7
  <2>2. newest' = modeInfo[c] /\ pc["worker"] \notin Filling
      BY <1>1, <1>7, <2>1, ThreadsTwo
  <2>3. Kept(c)'
      BY <1>1, <1>2, <2>1, <2>2 DEF Kept, Held, Filling, Writing
  <2>4. Seen(c)'
      BY <1>1, <2>1 DEF Seen, Enum, Match, Making, Custom
  <2> QED
      BY <2>3, <2>4
<1> QED
    BY <1>6, <1>7 DEF NewestInv

LEMMA OfferKeepsNewest == ASSUME ListInv, NewestInv, EnumOffers PROVE NewestInv'
<1>1. /\ dxg = "enum_height" /\ offered' = offered \cup {<<width, modeInfo[reading][2]>>}
      /\ disp' = disp /\ newest' = newest /\ frameBuf' = frameBuf /\ frameBytes' = frameBytes
      /\ (spoiled' <=> spoiled) /\ (clash' <=> clash)
      /\ writes' = writes /\ UNCHANGED <<listVars, threadVars>>
      /\ \/ reading = modeCount - 1 /\ dxg' = "idle" /\ reading' = reading
         \/ reading # modeCount - 1 /\ dxg' = "enum_width" /\ reading' = reading + 1
    BY Zenon DEF EnumOffers, pastVars
<1>2. modeCount = 6 /\ reading \in 0 .. 5
    BY <1>1, ListThere
<1>3. ASSUME NEW c \in Custom, Kept(c), Seen(c)
      PROVE  Seen(c)'
  <2>1. reading >= c => newest \in offered'
    <3>1. CASE reading = c
      <4>1. newest = <<width, modeInfo[reading][2]>>
        <5>1. newest \in Size /\ width = newest[1] /\ modeInfo[reading] = newest
            BY <1>1, <1>3, <3>1 DEF Kept, Seen, NewestInv
        <5> QED
            BY <5>1 DEF Size
      <4> QED
          BY <1>1, <4>1
    <3>2. CASE reading > c
        BY <1>1, <1>3, <3>2 DEF Seen, Enum
    <3> QED
        BY <1>2, <3>1, <3>2 DEF Custom
  <2>2. CASE reading = modeCount - 1
    <3>1. reading >= c
        BY <1>2, <2>2 DEF Custom
    <3>2. spoiled
        BY <1>1, <1>3 DEF Seen, Enum
    <3> QED
        BY <1>1, <2>1, <2>2, <3>1, <3>2 DEF Seen, Enum, Match, Making
  <2>3. CASE reading # modeCount - 1
    <3>1. reading' > c => reading >= c
        BY <1>1, <1>2, <2>3 DEF Custom
    <3>2. spoiled
        BY <1>1, <1>3 DEF Seen, Enum
    <3> QED
        BY <1>1, <2>1, <2>3, <3>1, <3>2 DEF Seen, Enum, Match, Making
  <2> QED
      BY <2>2, <2>3
<1> QED
    BY <1>1, <1>3, ReaderKeepsKept

LEMMA CommitBeginsKeepsNewest == ASSUME ListInv, NewestInv, CommitBegins PROVE NewestInv'
<1>1. /\ dxg = "idle" /\ dxg' = "match_width" /\ reading' = 0 /\ offered' = offered
      /\ newest' = newest /\ writes' = writes /\ UNCHANGED <<listVars, threadVars>>
    BY Zenon DEF CommitBegins
<1>2. ASSUME NEW c \in Custom, Kept(c), Seen(c)
      PROVE  Seen(c)'
    BY <1>1, <1>2 DEF Seen, Enum, Match, Making, Custom
<1> QED
    BY <1>1, <1>2, ReaderKeepsKept

LEMMA MatchKeepsNewest == ASSUME ListInv, NewestInv, CommitMatches PROVE NewestInv'
<1>1. /\ dxg = "match_height" /\ disp' = disp /\ offered' = offered /\ newest' = newest
      /\ writes' = writes /\ UNCHANGED <<listVars, threadVars>>
    BY Zenon DEF CommitMatches
<1>2. IF <<width, modeInfo[reading][2]>> = disp
      THEN dxg' = "create" /\ reading' = reading
      ELSE IF reading = modeCount - 1 THEN dxg' = "idle" /\ reading' = reading
      ELSE dxg' = "match_width" /\ reading' = reading + 1
    BY Zenon DEF CommitMatches
<1>3. dxg' = "create" /\ ~ spoiled' => modeInfo[reading] = disp /\ ~ HalfWritten(reading)
    BY Zenon DEF CommitMatches
<1>4. modeCount = 6 /\ reading \in 0 .. 5 /\ modeInfo' = modeInfo
    BY <1>1, ListThere DEF listVars
<1>5. ASSUME NEW c \in Custom, Kept(c), Seen(c)
      PROVE  Seen(c)'
  <2>1. newest \in offered
      BY <1>1, <1>5 DEF Seen, Enum
  <2>2. CASE <<width, modeInfo[reading][2]>> = disp
    <3>1. dxg' = "create" /\ reading' = reading
        BY <1>2, <2>2
    <3>2. HalfWritten(reading)' <=> HalfWritten(reading)
        BY <1>1, <3>1 DEF HalfWritten, threadVars
    <3> QED
        BY <1>1, <1>3, <1>4, <2>1, <3>1, <3>2 DEF Seen, Enum, Match, Making
  <2>3. CASE <<width, modeInfo[reading][2]>> # disp
    <3>1. CASE disp = newest
      <4>1. reading <= c
          BY <1>1, <1>5, <3>1 DEF Seen, Match
      <4>2. reading # c
        <5>1. ASSUME reading = c
              PROVE  <<width, modeInfo[reading][2]>> = disp
          <6>1. newest \in Size /\ width = newest[1] /\ modeInfo[reading] = newest
              BY <1>1, <1>5, <3>1, <5>1 DEF Kept, Seen, NewestInv
          <6> QED
              BY <3>1, <6>1 DEF Size
        <5> QED
            BY <2>3, <5>1
      <4>3. reading # modeCount - 1 /\ reading + 1 <= c
          BY <1>4, <4>1, <4>2 DEF Custom
      <4>4. dxg' = "match_width" /\ reading' = reading + 1
          BY <1>2, <2>3, <4>3
      <4> QED
          BY <1>1, <2>1, <4>3, <4>4 DEF Seen, Enum, Match, Making
    <3>2. CASE disp # newest
      <4>1. dxg' \in {"idle", "match_width"}
          BY <1>2, <2>3
      <4> QED
          BY <1>1, <2>1, <3>2, <4>1 DEF Seen, Enum, Match, Making
    <3> QED
        BY <3>1, <3>2
  <2> QED
      BY <2>2, <2>3
<1> QED
    BY <1>1, <1>5, ReaderKeepsKept

LEMMA SizesKeepsNewest == ASSUME ListInv, ListedInv, NewestInv, CommitSizes PROVE NewestInv'
<1>1. /\ ~ fault /\ dxg = "create" /\ dxg' = "resource" /\ disp' = disp /\ reading' = reading
      /\ frameBytes' = Memory(stride[reading], modeInfo[reading][2])
      /\ offered' = offered /\ newest' = newest /\ (spoiled' <=> spoiled) /\ (clash' <=> clash)
      /\ writes' = writes /\ UNCHANGED <<listVars, threadVars>>
    BY Zenon DEF CommitSizes, pastVars
<1>2. modeInfo' = modeInfo /\ pc' = pc /\ slot' = slot
    BY <1>1 DEF listVars, threadVars
<1>3. ASSUME NEW c \in Custom, Kept(c), Seen(c)
      PROVE  Seen(c)'
  <2>1. newest \in offered
      BY <1>1, <1>3 DEF Seen, Enum
  <2>2. ASSUME ~ spoiled, disp = newest
        PROVE  /\ modeInfo[reading] = newest /\ ~ HalfWritten(reading)
               /\ ~ clash => frameBytes' = MemoryOf(newest)
    <3>1. modeInfo[reading] = newest /\ ~ HalfWritten(reading)
        BY <1>1, <1>3, <2>2 DEF Seen, Making
    <3>2. reading \in Slots
        BY FixedFacts DEF ListInv, OfferedInv
    <3>3. ~ clash => stride[reading] = Stride(newest[1])
        BY <1>1, <3>1, <3>2 DEF ListedInv, StrideInv
    <3> QED
        BY <1>1, <3>1, <3>3 DEF MemoryOf
  <2>3. MemoryOf(newest') = MemoryOf(newest) /\ (HalfWritten(reading)' <=> HalfWritten(reading))
      BY <1>1, <1>2 DEF HalfWritten
  <2> QED
      BY <1>1, <1>2, <2>1, <2>2, <2>3 DEF Seen, Enum, Match, Making
<1> QED
    BY <1>1, <1>3, ReaderKeepsKept

LEMMA CreateKeepsNewest == ASSUME ListInv, NewestInv, CommitCreates PROVE NewestInv'
<1>1. /\ dxg = "resource" /\ frameBuf' = modeInfo[reading] /\ dxg' = "idle" /\ disp' = disp
      /\ frameBytes' = frameBytes /\ (clash' <=> clash)
      /\ offered' = offered /\ newest' = newest /\ (spoiled' <=> spoiled)
      /\ writes' = writes /\ UNCHANGED <<listVars, threadVars>>
    BY Zenon DEF CommitCreates, pastVars
<1>2. ASSUME NEW c \in Custom, Kept(c), Seen(c)
      PROVE  Seen(c)'
  <2>1. newest \in offered
      BY <1>1, <1>2 DEF Seen, Enum
  <2>2. ASSUME ~ spoiled, disp = newest
        PROVE  /\ modeInfo[reading] = newest
               /\ ~ clash => frameBytes = MemoryOf(newest)
      BY <1>1, <1>2, <2>2 DEF Seen, Making
  <2>3. MemoryOf(newest') = MemoryOf(newest)
      BY <1>1
  <2> QED
      BY <1>1, <2>1, <2>2, <2>3 DEF Seen, Enum, Match, Making
<1> QED
    BY <1>1, <1>2, ReaderKeepsKept

LEMMA NewestNext == ListInv /\ FixedInv /\ ListedInv /\ NewestInv /\ [Next]_vars => NewestInv'
<1> SUFFICES ASSUME ListInv, FixedInv, ListedInv, NewestInv, [Next]_vars PROVE NewestInv'
    OBVIOUS
<1>1. CASE UNCHANGED vars
  <2>1. /\ dxgVars' = dxgVars /\ modeInfo' = modeInfo /\ customMode' = customMode
        /\ writes' = writes /\ slot' = slot /\ pc' = pc /\ (spoiled' <=> spoiled)
        /\ (clash' <=> clash)
      BY <1>1, Zenon DEF vars, listVars, threadVars, pastVars
  <2> QED
      BY <2>1, NewestStays
<1> QED
    BY <1>1, AsideKeepsNewest, PickKeepsNewest, StoreKeepsNewest, TakeKeepsNewest,
       WidthKeepsNewest, HeightKeepsNewest, StrideKeepsNewest, ReadKeepsNewest,
       EnumBeginsKeepsNewest, OfferKeepsNewest, CommitBeginsKeepsNewest, MatchKeepsNewest,
       SizesKeepsNewest, CreateKeepsNewest DEF Next

(* A committed fixed mode gets a frame buffer of exactly its size, resource and *)
(* memory, whatever the worker writes meanwhile, and the host's newest size is  *)
(* offered and gets its frame buffer although the other custom slot is written *)
(* at the time (SetCustomDisplay, SetVideoModeInfo, AddSingleSourceMode,       *)
(* SetSourceModeAndPath, SetCurrentMode and CreateFrameBufferObj); a slot       *)
(* outside the list is written only when the worker chose it before            *)
(* GetModeList had filled the list.                                         *)
THEOREM FitsCorrect == Spec => []NewestFits
<1>1. Init => ListInv /\ FixedInv /\ ListedInv /\ NewestInv
    BY ListStart, FixedStart, ListedStart, NewestStart
<1>2. ListInv /\ FixedInv /\ ListedInv /\ NewestInv /\ [Next]_vars
      => (ListInv /\ FixedInv /\ ListedInv /\ NewestInv)'
    BY ListNext, FixedNext, ListedNext, NewestNext
<1>3. ListInv /\ FixedInv /\ NewestInv => NewestFits
  <2> SUFFICES ASSUME ListInv, FixedInv, NewestInv PROVE NewestFits
      OBVIOUS
  <2>1. fault => early
      BY DEF ListInv, StartInv
  <2>2. Committed /\ disp \in FixedModes => frameBuf = disp /\ frameBytes = MemoryOf(disp)
      BY DEF FixedInv, Committed
  <2>3. ASSUME newest # NoSize, writes <= 1
        PROVE  /\ dxg = "idle" => newest \in offered
               /\ Committed /\ disp = newest /\ ~ spoiled =>
                     frameBuf = newest /\ (clash \/ frameBytes = MemoryOf(newest))
    <3>1. PICK c \in Custom : Seen(c)
        BY <2>3 DEF NewestInv
    <3> QED
        BY <3>1 DEF Seen, Enum, Committed
  <2> QED
      BY <2>1, <2>2, <2>3 DEF NewestFits
<1> QED
    BY <1>1, <1>2, <1>3, PTL DEF Spec
=============================================================================
