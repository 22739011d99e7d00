---------------------------- MODULE VidPn_proofs ----------------------------
(***************************************************************************)
(* For any number of paths and modes, and whichever calls on the interfaces *)
(* fail: handles are used while they are held and given back, and what a    *)
(* successful call has offered or set is what it should be.                *)
(***************************************************************************)
EXTENDS VidPn, TLAPS

USE MaxPathsAssumption, MaxModesAssumption

(* The variables that hold a handle, and what kind of handle each may hold.  *)
Filled == {f \in Fields : v[f] # Null}
OfField == {<<"path", "path">>, <<"temp", "path">>,
            <<"source", "source set">>, <<"source", "new source set">>,
            <<"pinnedSource", "pinned source">>,
            <<"target", "target set">>, <<"target", "new target set">>,
            <<"pinnedTarget", "pinned target">>, <<"mode", "mode">>}
KindNames == {"null", "monitor set", "path", "source set", "new source set", "pinned source",
              "target set", "new target set", "pinned target", "mode"}

HandlesInv ==
    /\ v \in [Fields -> KindNames \X Nat]
    /\ request.paths \in 0 .. MaxPaths
    /\ \A f \in Filled : <<f, v[f][1]>> \in OfField
    /\ "path" \in Filled => Path \in 1 .. request.paths
    /\ \A f \in Filled : v[f] \in held \/ (nextFailed /\ f \in {"path", "temp"})
    /\ held \subseteq {v[f] : f \in Filled} \cup refused \cup {MonitorSet}
    /\ {"path", "temp"} \subseteq Filled => nextFailed \/ v["path"] # v["temp"]
    /\ op = "monitor" => MonitorSet \in held
    /\ op = "none" => held = {}
    /\ UsesHeld

(* Where each call stands, and which variables hold something there.         *)
EnumStages == {"source set", "pinned source", "old source", "new source", "assign source",
               "target set", "pinned target", "old target", "new target", "assign target",
               "drop pinned target", "drop target set", "drop pinned source",
               "drop source set", "support", "next path", "drop path"}
ModeStages == {"create mode", "add mode", "release mode", "release known mode"}
CommitStages == {"commit source set", "commit pinned", "check mode", "acquire path",
                 "set mode", "release path"}
Stages == EnumStages \cup ModeStages \cup CommitStages \cup {"called", "cleanup", "returned"}

Pins == {"source", "pinnedSource"}
Between(low, high) == low \subseteq Filled /\ Filled \subseteq high

InModes(more) ==
    \/ side = "source" /\ op = "enum" /\ status = "ok" /\ Filled = {"path", "source"} \cup more
    \/ side = "target" /\ op = "enum" /\ status = "ok"
          /\ Between({"path", "target"} \cup more, {"path", "target"} \cup Pins \cup more)
    \/ side = "monitor" /\ op = "monitor" /\ Filled = more

FilledAtEnum ==
    /\ pc \in {"source set", "new source", "support", "next path"} => Filled = {"path"}
    /\ pc \in {"pinned source", "old source", "assign source"} => Filled = {"path", "source"}
    /\ pc \in {"target set", "new target", "drop pinned source"} =>
          Between({"path"}, {"path"} \cup Pins)
    /\ pc \in {"pinned target", "old target", "assign target", "drop target set"} =>
          Between({"path", "target"}, {"path", "target"} \cup Pins)
    /\ pc = "drop pinned target" =>
          Between({"path", "target", "pinnedTarget"}, {"path", "target", "pinnedTarget"} \cup Pins)
    /\ pc = "drop source set" => Between({"path"}, {"path", "source"})
    /\ pc = "drop path" =>
          Filled = IF status = "no more" THEN {"temp"} ELSE {"path", "temp"}
    /\ pc \in EnumStages => status = "ok" \/ (pc = "drop path" /\ status = "no more")

FilledAtCommit ==
    /\ pc = "commit source set" => Filled = {}
    /\ pc = "commit pinned" => Filled = {"source"}
    /\ pc = "check mode" => Filled \subseteq Pins
    /\ pc = "acquire path" => Filled = Pins
    /\ pc \in {"set mode", "release path"} => Filled = Pins \cup {"path"}
    /\ pc \in CommitStages => left <= request.paths
    /\ pc \in {"set mode", "release path"} => left > 0 /\ v["path"] = Handle("path", left)

StageInv ==
    /\ pc \in Stages
    /\ op = "none" <=> pc = "called"
    /\ pc \in EnumStages => op = "enum"
    /\ pc \in CommitStages => op = "commit"
    /\ pc \in {"called", "returned"} => Filled = {}
    /\ FilledAtEnum /\ FilledAtCommit
    /\ pc = "create mode" => InModes({})
    /\ pc \in ModeStages \ {"create mode"} => InModes({"mode"}) /\ left > 0
    /\ pc = "cleanup" => \/ op = "enum" /\ "mode" \notin Filled
                         \/ op = "commit" /\ Filled \subseteq Pins \cup {"path"}
    /\ "pinnedSource" \in Filled => "source" \in Filled
    /\ "pinnedTarget" \in Filled => "target" \in Filled
    /\ nextFailed => op = "enum" /\ pc \in {"cleanup", "returned"}
    /\ left \in Nat /\ (op = "none" => left = 0 /\ status = "ok")

-----------------------------------------------------------------------------
(* What a call on the interfaces does to the handles.                       *)

LEMMA UseKeeps ==
    ASSUME NEW hs, Uses(hs), hs \subseteq held
    PROVE  misused' = misused
    BY DEF Uses

LEMMA HeldOf ==
    ASSUME HandlesInv, ~ nextFailed, NEW f \in Filled
    PROVE  v[f] \in held
    BY DEF HandlesInv

Same == <<v, held, refused, misused, nextFailed, request>>

LEMMA SameKeeps ==
    ASSUME HandlesInv, UNCHANGED Same, op' = op \/ (op = "none" /\ op' # "monitor")
    PROVE  HandlesInv' /\ Filled' = Filled
<1>1. UNCHANGED <<v, held, refused, misused, nextFailed, request>>
    BY DEF Same
<1>2. Filled' = Filled
    BY <1>1 DEF Filled
<1> QED
    BY <1>1, <1>2 DEF HandlesInv, UsesHeld, Path

LEMMA HandleIs ==
    ASSUME NEW k \in KindNames, NEW p \in Nat
    PROVE  Handle(k, p) \in KindNames \X Nat /\ Handle(k, p)[1] = k /\ Handle(k, p)[2] = p
    BY DEF Handle

LEMMA KindsApart ==
    ASSUME NEW f, NEW h, <<f, h[1]>> \in OfField
    PROVE  h # Null /\ h # MonitorSet
<1>1. Null[1] = "null" /\ MonitorSet[1] = "monitor set"
    BY DEF Null, MonitorSet, Handle
<1>2. <<f, "null">> \notin OfField /\ <<f, "monitor set">> \notin OfField
    BY DEF OfField
<1> QED
    BY <1>1, <1>2

LEMMA AcquireKeeps ==
    ASSUME HandlesInv, ~ nextFailed, NEW f \in Fields \ Filled, NEW h \in KindNames \X Nat,
           <<f, h[1]>> \in OfField, f # "temp",
           f = "path" => h[2] \in 1 .. request.paths /\ "temp" \notin Filled,
           v' = [v EXCEPT ![f] = h], held' = held \cup {h},
           UNCHANGED <<refused, misused, nextFailed, request, op>>, op # "none"
    PROVE  HandlesInv' /\ Filled' = Filled \cup {f}
<1>1. v \in [Fields -> KindNames \X Nat]
    BY DEF HandlesInv
<1>2. v' \in [Fields -> KindNames \X Nat] /\ v'[f] = h /\ \A g \in Fields \ {f} : v'[g] = v[g]
    BY <1>1
<1>3. h # Null
    BY KindsApart
<1>4. Filled' = Filled \cup {f}
    BY <1>2, <1>3 DEF Filled
<1>5. \A g \in Filled' : <<g, v'[g][1]>> \in OfField
    BY <1>2, <1>4 DEF HandlesInv, Filled
<1>6. "path" \in Filled' => Path' \in 1 .. request'.paths
    BY <1>2, <1>4 DEF HandlesInv, Path, Fields
<1>7. \A g \in Filled' : v'[g] \in held'
    BY <1>2, <1>4 DEF HandlesInv, Filled
<1>8. held' \subseteq {v'[g] : g \in Filled'} \cup refused' \cup {MonitorSet}
  <2>1. \A g \in Filled : v'[g] = v[g]
      BY <1>2 DEF Filled
  <2>2. {v[g] : g \in Filled} \subseteq {v'[g] : g \in Filled'} /\ h \in {v'[g] : g \in Filled'}
      BY <2>1, <1>2, <1>4
  <2> QED
      BY <2>2 DEF HandlesInv
<1>9. {"path", "temp"} \subseteq Filled' => v'["path"] # v'["temp"]
    BY <1>2, <1>4 DEF HandlesInv, Fields
<1>10. UsesHeld' /\ (op' = "monitor" => MonitorSet \in held')
    BY DEF HandlesInv, UsesHeld
<1> QED
    BY <1>2, <1>4, <1>5, <1>6, <1>7, <1>8, <1>9, <1>10 DEF HandlesInv

(* A handle that is given back, or that dxgkrnl refuses to take back.        *)
LEMMA GiveBackKeeps ==
    ASSUME HandlesInv, NEW f \in Filled,
           v' = [v EXCEPT ![f] = Null],
           \/ held' = held \ {v[f]} /\ refused' = refused
           \/ held' = held /\ refused' = refused \cup {v[f]},
           UNCHANGED <<nextFailed, request, op>>, UsesHeld'
    PROVE  HandlesInv' /\ Filled' = Filled \ {f}
<1>1. v \in [Fields -> KindNames \X Nat] /\ f \in Fields
    BY DEF HandlesInv, Filled
<1>2. v' \in [Fields -> KindNames \X Nat] /\ v'[f] = Null /\ \A g \in Fields \ {f} : v'[g] = v[g]
    BY <1>1 DEF Null, KindNames
<1>3. Filled' = Filled \ {f}
    BY <1>2 DEF Filled
<1>4. \A g \in Filled' : <<g, v'[g][1]>> \in OfField
    BY <1>2, <1>3 DEF HandlesInv, Filled
<1>5. "path" \in Filled' => Path' \in 1 .. request'.paths
    BY <1>2, <1>3 DEF HandlesInv, Path, Fields
<1>6. ASSUME NEW g \in Filled'
      PROVE  v'[g] \in held' \/ (nextFailed /\ g \in {"path", "temp"})
  <2>1. g \in Filled /\ g # f /\ v'[g] = v[g]
      BY <1>2, <1>3 DEF Filled
  <2>2. <<g, v[g][1]>> \in OfField /\ <<f, v[f][1]>> \in OfField
      BY <2>1 DEF HandlesInv
  <2>3. CASE ~ (nextFailed /\ g \in {"path", "temp"})
    <3>1. v[g] \in held
        BY <2>1, <2>3 DEF HandlesInv
    <3>2. v[g] # v[f]
      <4>1. CASE {f, g} = {"path", "temp"}
        <5>1. {"path", "temp"} \subseteq Filled /\ g \in {"path", "temp"}
            BY <4>1, <2>1
        <5>2. v["path"] # v["temp"]
            BY <5>1, <2>3 DEF HandlesInv
        <5> QED
            BY <5>2, <4>1, <2>1
      <4>2. CASE {f, g} # {"path", "temp"}
          BY <4>2, <2>1, <2>2 DEF OfField
      <4> QED
          BY <4>1, <4>2
    <3> QED
        BY <2>1, <3>1, <3>2
  <2> QED
      BY <2>3
<1>7. held' \subseteq {v'[g] : g \in Filled'} \cup refused' \cup {MonitorSet}
  <2>1. \A g \in Filled \ {f} : v'[g] = v[g] /\ g \in Filled'
      BY <1>2, <1>3 DEF Filled
  <2>2. \A x \in held' : x \notin {v'[g] : g \in Filled'} => x \in refused' \cup {MonitorSet}
      BY <2>1 DEF HandlesInv
  <2> QED
      BY <2>2
<1>8. {"path", "temp"} \subseteq Filled' => nextFailed \/ v'["path"] # v'["temp"]
    BY <1>2, <1>3 DEF HandlesInv, Fields
<1>9. op' = "monitor" => MonitorSet \in held'
  <2>1. v[f] # MonitorSet
      BY KindsApart DEF HandlesInv
  <2> QED
      BY <2>1 DEF HandlesInv
<1>10. op' = "none" => held' = {}
    BY DEF HandlesInv
<1> QED
    BY <1>2, <1>3, <1>4, <1>5, <1>6, <1>7, <1>8, <1>9, <1>10 DEF HandlesInv

LEMMA ReleaseKeeps ==
    ASSUME HandlesInv, ~ nextFailed, NEW f \in Filled,
           v' = [v EXCEPT ![f] = Null],
           \/ held' = held \ {v[f]} /\ refused' = refused
           \/ held' = held /\ refused' = refused \cup {v[f]},
           UNCHANGED <<misused, nextFailed, request, op>>
    PROVE  HandlesInv' /\ Filled' = Filled \ {f}
<1>1. UsesHeld'
    BY DEF HandlesInv, UsesHeld
<1> QED
    BY <1>1, GiveBackKeeps

(* The outcomes of the calls, as far as the invariant goes.                 *)
Rest == <<argVars, refused, nextFailed>>
Failing == pc' = "cleanup" /\ status' = "failed" /\ Filled' = Filled
Going(next, filled) == pc' = next /\ status' = status /\ Filled' = filled

LEMMA AcquiresDoes ==
    ASSUME HandlesInv, ~ nextFailed, op # "none", NEW f \in Fields \ Filled,
           NEW h \in KindNames \X Nat, <<f, h[1]>> \in OfField, f # "temp",
           f = "path" => h[2] \in 1 .. request.paths /\ "temp" \notin Filled,
           NEW hs, Uses(hs), hs \subseteq held, NEW next, Acquires(f, h, next), UNCHANGED Rest
    PROVE  /\ HandlesInv'
           /\ Failing \/ (Going(next, Filled \cup {f}) /\ v' = [v EXCEPT ![f] = h])
<1>1. UNCHANGED <<refused, misused, nextFailed, request, op>>
    BY UseKeeps DEF Rest, argVars, pastVars
<1>2. CASE pc' = next /\ v' = [v EXCEPT ![f] = h] /\ held' = held \cup {h} /\ UNCHANGED status
    BY <1>1, <1>2, AcquireKeeps DEF Going
<1>3. CASE Fails
    BY <1>1, <1>3, SameKeeps DEF Fails, Failing, Same
<1> QED
    BY <1>2, <1>3 DEF Acquires

LEMMA ReleasesDoes ==
    ASSUME HandlesInv, ~ nextFailed, op # "none", NEW f \in Filled,
           NEW hs, Uses(hs), hs \subseteq held, NEW next, Releases(f, next), UNCHANGED Rest
    PROVE  /\ HandlesInv'
           /\ Failing \/ (Going(next, Filled \ {f}) /\ v' = [v EXCEPT ![f] = Null])
<1>1. UNCHANGED <<refused, misused, nextFailed, request, op>>
    BY UseKeeps DEF Rest, argVars, pastVars
<1>2. CASE held' = held \ {v[f]} /\ v' = [v EXCEPT ![f] = Null] /\ pc' = next /\ UNCHANGED status
    BY <1>1, <1>2, ReleaseKeeps DEF Going
<1>3. CASE Fails
    BY <1>1, <1>3, SameKeeps DEF Fails, Failing, Same
<1> QED
    BY <1>2, <1>3 DEF Releases

LEMMA WorksDoes ==
    ASSUME HandlesInv, NEW hs, Uses(hs), hs \subseteq held, NEW next, Works(next), UNCHANGED Rest
    PROVE  HandlesInv' /\ (Failing \/ (Going(next, Filled) /\ v' = v))
<1>1. UNCHANGED <<refused, misused, nextFailed, request, op>>
    BY UseKeeps DEF Rest, argVars, pastVars
<1>2. UNCHANGED <<v, held>>
    BY DEF Works, Fails
<1>3. HandlesInv' /\ Filled' = Filled
    BY <1>1, <1>2, SameKeeps DEF Same
<1> QED
    BY <1>2, <1>3 DEF Works, Fails, Failing, Going

LEMMA SkipsDoes ==
    ASSUME HandlesInv, NEW next, Skips(next), UNCHANGED Rest
    PROVE  HandlesInv' /\ Going(next, Filled) /\ v' = v
<1>1. UNCHANGED <<refused, misused, nextFailed, request, op, v, held, status>> /\ pc' = next
    BY DEF Rest, argVars, pastVars, Skips
<1> QED
    BY <1>1, SameKeeps DEF Same, Going

(* Every failing call goes the same way out.                                *)
LEMMA FilledAtFailure ==
    ASSUME StageInv, pc \in EnumStages \cup CommitStages \/ (pc = "create mode" /\ side # "monitor")
    PROVE  \/ op = "enum" /\ "mode" \notin Filled
           \/ op = "commit" /\ Filled \subseteq Pins \cup {"path"}
<1>1. CASE pc \in EnumStages
  <2>1. op = "enum"
      BY <1>1 DEF StageInv
  <2>2. CASE pc \in {"source set", "new source", "support", "next path",
                     "pinned source", "old source", "assign source"}
    <3>1. Filled = {"path"} \/ Filled = {"path", "source"}
        BY <2>2 DEF StageInv, FilledAtEnum
    <3>2. "mode" \notin {"path"} /\ "mode" \notin {"path", "source"}
        OBVIOUS
    <3> QED
        BY <2>1, <3>1, <3>2
  <2>3. CASE pc \in {"target set", "new target", "drop pinned source",
                     "pinned target", "old target", "assign target", "drop target set"}
      BY <2>1, <2>3 DEF StageInv, FilledAtEnum, Between, Pins
  <2>4. CASE pc \in {"drop pinned target", "drop source set"}
      BY <2>1, <2>4 DEF StageInv, FilledAtEnum, Between, Pins
  <2>5. CASE pc = "drop path"
    <3>1. Filled = {"temp"} \/ Filled = {"path", "temp"}
        BY <2>5 DEF StageInv, FilledAtEnum
    <3>2. "mode" \notin {"temp"} /\ "mode" \notin {"path", "temp"}
        OBVIOUS
    <3> QED
        BY <2>1, <3>1, <3>2
  <2> QED
      BY <1>1, <2>2, <2>3, <2>4, <2>5 DEF EnumStages
<1>2. CASE pc \in CommitStages
    BY <1>2 DEF StageInv, FilledAtCommit, CommitStages, Pins
<1>3. CASE pc = "create mode" /\ side # "monitor"
  <2>1. InModes({})
      BY <1>3 DEF StageInv
  <2>2. CASE Filled = {"path", "source"} \cup {} /\ op = "enum"
      BY <2>2
  <2>3. CASE Filled \subseteq {"path", "target"} \cup Pins \cup {} /\ op = "enum"
      BY <2>3 DEF Pins
  <2> QED
      BY <1>3, <2>1, <2>2, <2>3 DEF InModes, Between
<1> QED
    BY <1>1, <1>2, <1>3

LEMMA FailKeepsStage ==
    ASSUME StageInv, UNCHANGED <<op, nextFailed>>, left' \in Nat, Failing,
           pc \in EnumStages \cup CommitStages \/ (pc = "create mode" /\ side # "monitor")
    PROVE  StageInv'
<1>1. \/ op = "enum" /\ "mode" \notin Filled
      \/ op = "commit" /\ Filled \subseteq Pins \cup {"path"}
    BY FilledAtFailure
<1>2. /\ "pinnedSource" \in Filled => "source" \in Filled
      /\ "pinnedTarget" \in Filled => "target" \in Filled
      /\ op # "none" /\ (nextFailed => op = "enum")
    BY <1>1 DEF StageInv
<1> QED
    BY <1>1, <1>2 DEF StageInv, FilledAtEnum, FilledAtCommit, Failing, Stages, EnumStages,
                      CommitStages, ModeStages

Inv == HandlesInv /\ StageInv

(* The calls of EnumVidPnCofuncModality, one by one.                        *)

LEMMA AcquireSourceSetKeeps ==
    ASSUME Inv, AcquireSourceSet
    PROVE  Inv'
<1>1. /\ pc = "source set" /\ Filled = {"path"}
      /\ ~ nextFailed /\ op = "enum" /\ left \in Nat
    BY DEF Inv, StageInv, FilledAtEnum, EnumStages, AcquireSourceSet
<1>2. Path \in 1 .. request.paths /\ {v["path"]} \subseteq held /\ "source" \in Fields \ Filled
    BY <1>1, HeldOf DEF Inv, HandlesInv, Between, Fields, Pins
<1>3. /\ Acquires("source", Handle("source set", Path), "pinned source")
      /\ Uses({v["path"]}) /\ UNCHANGED Rest /\ UNCHANGED <<op, nextFailed>> /\ left' \in Nat
    BY <1>1 DEF AcquireSourceSet, Rest, loopVars, argVars, pastVars
<1>4. HandlesInv' /\ (Failing \/ Going("pinned source", Filled \cup {"source"}))
  <2> DEFINE h == Handle("source set", Path)
  <2>1. h \in KindNames \X Nat /\ <<"source", h[1]>> \in OfField
    <3>1. "source set" \in KindNames /\ <<"source", "source set">> \in OfField
        BY DEF KindNames, OfField
    <3>2. Path \in Nat
        BY <1>2 DEF Inv, HandlesInv
    <3> QED
        BY <3>1, <3>2, HandleIs
  <2> HIDE DEF h
  <2> QED
      BY <1>1, <1>2, <1>3, <2>1, AcquiresDoes DEF Inv, h
<1>5. StageInv'
  <2>1. CASE Failing
      BY <2>1, <1>1, <1>3, FailKeepsStage DEF Inv, EnumStages
  <2>2. CASE ~ Failing
    <3>1. Filled' = {"path", "source"}
        BY <2>2, <1>1, <1>4 DEF Going
    <3> QED
        BY <2>2, <3>1, <1>1, <1>3, <1>4
         DEF Going, Inv, StageInv, FilledAtEnum, FilledAtCommit, Stages, EnumStages,
             CommitStages, ModeStages, Between, Pins
  <2> QED
      BY <2>1, <2>2
<1> QED
    BY <1>4, <1>5 DEF Inv

LEMMA ReleaseOldSourceKeeps ==
    ASSUME Inv, ReleaseOldSource
    PROVE  Inv'
<1>1. /\ pc = "old source" /\ Filled = {"path", "source"}
      /\ ~ nextFailed /\ op = "enum" /\ left \in Nat
    BY DEF Inv, StageInv, FilledAtEnum, EnumStages, ReleaseOldSource
<1>2. {v["source"]} \subseteq held /\ "source" \in Filled
    BY <1>1, HeldOf DEF Inv, Between
<1>3. /\ Releases("source", "new source")
      /\ Uses({v["source"]}) /\ UNCHANGED Rest /\ UNCHANGED <<op, nextFailed>> /\ left' \in Nat
    BY <1>1 DEF ReleaseOldSource, Rest, loopVars, argVars, pastVars
<1>4. HandlesInv' /\ (Failing \/ Going("new source", Filled \ {"source"}))
    BY <1>1, <1>2, <1>3, ReleasesDoes DEF Inv
<1>5. StageInv'
  <2>1. CASE Failing
      BY <2>1, <1>1, <1>3, FailKeepsStage DEF Inv, EnumStages
  <2>2. CASE ~ Failing
      BY <2>2, <1>1, <1>3, <1>4
         DEF Going, Inv, StageInv, FilledAtEnum, FilledAtCommit, Stages, EnumStages,
             CommitStages, ModeStages, Between, Pins
  <2> QED
      BY <2>1, <2>2
<1> QED
    BY <1>4, <1>5 DEF Inv

LEMMA CreateSourceSetKeeps ==
    ASSUME Inv, CreateSourceSet
    PROVE  Inv'
<1>1. /\ pc = "new source" /\ Filled = {"path"}
      /\ ~ nextFailed /\ op = "enum" /\ left \in Nat
    BY DEF Inv, StageInv, FilledAtEnum, EnumStages, CreateSourceSet
<1>2. Path \in 1 .. request.paths /\ {v["path"]} \subseteq held /\ "source" \in Fields \ Filled
    BY <1>1, HeldOf DEF Inv, HandlesInv, Between, Fields, Pins
<1>3. /\ Acquires("source", Handle("new source set", Path), "create mode")
      /\ Uses({v["path"]}) /\ UNCHANGED Rest /\ UNCHANGED <<op, nextFailed>> /\ left' \in Nat
    BY <1>1 DEF CreateSourceSet, Rest, loopVars, argVars, pastVars
<1>4. HandlesInv' /\ (Failing \/ Going("create mode", Filled \cup {"source"}))
  <2> DEFINE h == Handle("new source set", Path)
  <2>1. h \in KindNames \X Nat /\ <<"source", h[1]>> \in OfField
    <3>1. "new source set" \in KindNames /\ <<"source", "new source set">> \in OfField
        BY DEF KindNames, OfField
    <3>2. Path \in Nat
        BY <1>2 DEF Inv, HandlesInv
    <3> QED
        BY <3>1, <3>2, HandleIs
  <2> HIDE DEF h
  <2> QED
      BY <1>1, <1>2, <1>3, <2>1, AcquiresDoes DEF Inv, h
<1>5. StageInv'
  <2>1. CASE Failing
      BY <2>1, <1>1, <1>3, FailKeepsStage DEF Inv, EnumStages
  <2>2. CASE ~ Failing
      BY <2>2, <1>1, <1>3, <1>4
         DEF Going, Inv, StageInv, FilledAtEnum, FilledAtCommit, Stages, EnumStages,
             CommitStages, ModeStages, Between, Pins, InModes, CreateSourceSet
  <2> QED
      BY <2>1, <2>2
<1> QED
    BY <1>4, <1>5 DEF Inv

LEMMA AssignSourceSetKeeps ==
    ASSUME Inv, AssignSourceSet
    PROVE  Inv'
<1>1. /\ pc = "assign source" /\ Filled = {"path", "source"}
      /\ ~ nextFailed /\ op = "enum" /\ left \in Nat
    BY DEF Inv, StageInv, FilledAtEnum, EnumStages, AssignSourceSet
<1>2. {v["source"], v["path"]} \subseteq held /\ "source" \in Filled
    BY <1>1, HeldOf DEF Inv, Between
<1>3. /\ Releases("source", AfterSource)
      /\ Uses({v["source"], v["path"]}) /\ UNCHANGED Rest /\ UNCHANGED <<op, nextFailed>> /\ left' \in Nat
    BY <1>1 DEF AssignSourceSet, Rest, loopVars, argVars, pastVars
<1>4. HandlesInv' /\ (Failing \/ Going(AfterSource, Filled \ {"source"}))
    BY <1>1, <1>2, <1>3, ReleasesDoes DEF Inv
<1>5. StageInv'
  <2>1. CASE Failing
      BY <2>1, <1>1, <1>3, FailKeepsStage DEF Inv, EnumStages
  <2>2. CASE ~ Failing
      BY <2>2, <1>1, <1>3, <1>4
         DEF Going, Inv, StageInv, FilledAtEnum, FilledAtCommit, Stages, EnumStages,
             CommitStages, ModeStages, Between, Pins, AfterSource
  <2> QED
      BY <2>1, <2>2
<1> QED
    BY <1>4, <1>5 DEF Inv

LEMMA AcquireTargetSetKeeps ==
    ASSUME Inv, AcquireTargetSet
    PROVE  Inv'
<1>1. /\ pc = "target set" /\ Between({"path"}, {"path"} \cup Pins)
      /\ ~ nextFailed /\ op = "enum" /\ left \in Nat
    BY DEF Inv, StageInv, FilledAtEnum, EnumStages, AcquireTargetSet
<1>2. Path \in 1 .. request.paths /\ {v["path"]} \subseteq held /\ "target" \in Fields \ Filled
    BY <1>1, HeldOf DEF Inv, HandlesInv, Between, Fields, Pins
<1>3. /\ Acquires("target", Handle("target set", Path), "pinned target")
      /\ Uses({v["path"]}) /\ UNCHANGED Rest /\ UNCHANGED <<op, nextFailed>> /\ left' \in Nat
    BY <1>1 DEF AcquireTargetSet, Rest, loopVars, argVars, pastVars
<1>4. HandlesInv' /\ (Failing \/ Going("pinned target", Filled \cup {"target"}))
  <2> DEFINE h == Handle("target set", Path)
  <2>1. h \in KindNames \X Nat /\ <<"target", h[1]>> \in OfField
    <3>1. "target set" \in KindNames /\ <<"target", "target set">> \in OfField
        BY DEF KindNames, OfField
    <3>2. Path \in Nat
        BY <1>2 DEF Inv, HandlesInv
    <3> QED
        BY <3>1, <3>2, HandleIs
  <2> HIDE DEF h
  <2> QED
      BY <1>1, <1>2, <1>3, <2>1, AcquiresDoes DEF Inv, h
<1>5. StageInv'
  <2>1. CASE Failing
      BY <2>1, <1>1, <1>3, FailKeepsStage DEF Inv, EnumStages
  <2>2. CASE ~ Failing
      BY <2>2, <1>1, <1>3, <1>4
         DEF Going, Inv, StageInv, FilledAtEnum, FilledAtCommit, Stages, EnumStages,
             CommitStages, ModeStages, Between, Pins
  <2> QED
      BY <2>1, <2>2
<1> QED
    BY <1>4, <1>5 DEF Inv

LEMMA ReleaseOldTargetKeeps ==
    ASSUME Inv, ReleaseOldTarget
    PROVE  Inv'
<1>1. /\ pc = "old target" /\ Between({"path", "target"}, {"path", "target"} \cup Pins)
      /\ ~ nextFailed /\ op = "enum" /\ left \in Nat
    BY DEF Inv, StageInv, FilledAtEnum, EnumStages, ReleaseOldTarget
<1>2. {v["target"]} \subseteq held /\ "target" \in Filled
    BY <1>1, HeldOf DEF Inv, Between
<1>3. /\ Releases("target", "new target")
      /\ Uses({v["target"]}) /\ UNCHANGED Rest /\ UNCHANGED <<op, nextFailed>> /\ left' \in Nat
    BY <1>1 DEF ReleaseOldTarget, Rest, loopVars, argVars, pastVars
<1>4. HandlesInv' /\ (Failing \/ Going("new target", Filled \ {"target"}))
    BY <1>1, <1>2, <1>3, ReleasesDoes DEF Inv
<1>5. StageInv'
  <2>1. CASE Failing
      BY <2>1, <1>1, <1>3, FailKeepsStage DEF Inv, EnumStages
  <2>2. CASE ~ Failing
      BY <2>2, <1>1, <1>3, <1>4
         DEF Going, Inv, StageInv, FilledAtEnum, FilledAtCommit, Stages, EnumStages,
             CommitStages, ModeStages, Between, Pins
  <2> QED
      BY <2>1, <2>2
<1> QED
    BY <1>4, <1>5 DEF Inv

LEMMA CreateTargetSetKeeps ==
    ASSUME Inv, CreateTargetSet
    PROVE  Inv'
<1>1. /\ pc = "new target" /\ Between({"path"}, {"path"} \cup Pins)
      /\ ~ nextFailed /\ op = "enum" /\ left \in Nat
    BY DEF Inv, StageInv, FilledAtEnum, EnumStages, CreateTargetSet
<1>2. Path \in 1 .. request.paths /\ {v["path"]} \subseteq held /\ "target" \in Fields \ Filled
    BY <1>1, HeldOf DEF Inv, HandlesInv, Between, Fields, Pins
<1>3. /\ Acquires("target", Handle("new target set", Path), "create mode")
      /\ Uses({v["path"]}) /\ UNCHANGED Rest /\ UNCHANGED <<op, nextFailed>> /\ left' \in Nat
    BY <1>1 DEF CreateTargetSet, Rest, loopVars, argVars, pastVars
<1>4. HandlesInv' /\ (Failing \/ Going("create mode", Filled \cup {"target"}))
  <2> DEFINE h == Handle("new target set", Path)
  <2>1. h \in KindNames \X Nat /\ <<"target", h[1]>> \in OfField
    <3>1. "new target set" \in KindNames /\ <<"target", "new target set">> \in OfField
        BY DEF KindNames, OfField
    <3>2. Path \in Nat
        BY <1>2 DEF Inv, HandlesInv
    <3> QED
        BY <3>1, <3>2, HandleIs
  <2> HIDE DEF h
  <2> QED
      BY <1>1, <1>2, <1>3, <2>1, AcquiresDoes DEF Inv, h
<1>5. StageInv'
  <2>1. CASE Failing
      BY <2>1, <1>1, <1>3, FailKeepsStage DEF Inv, EnumStages
  <2>2. CASE ~ Failing
      BY <2>2, <1>1, <1>3, <1>4
         DEF Going, Inv, StageInv, FilledAtEnum, FilledAtCommit, Stages, EnumStages,
             CommitStages, ModeStages, Between, Pins, InModes, CreateTargetSet
  <2> QED
      BY <2>1, <2>2
<1> QED
    BY <1>4, <1>5 DEF Inv

LEMMA AssignTargetSetKeeps ==
    ASSUME Inv, AssignTargetSet
    PROVE  Inv'
<1>1. /\ pc = "assign target" /\ Between({"path", "target"}, {"path", "target"} \cup Pins)
      /\ ~ nextFailed /\ op = "enum" /\ left \in Nat
    BY DEF Inv, StageInv, FilledAtEnum, EnumStages, AssignTargetSet
<1>2. {v["target"], v["path"]} \subseteq held /\ "target" \in Filled
    BY <1>1, HeldOf DEF Inv, Between
<1>3. /\ Releases("target", "drop pinned source")
      /\ Uses({v["target"], v["path"]}) /\ UNCHANGED Rest /\ UNCHANGED <<op, nextFailed>> /\ left' \in Nat
    BY <1>1 DEF AssignTargetSet, Rest, loopVars, argVars, pastVars
<1>4. HandlesInv' /\ (Failing \/ Going("drop pinned source", Filled \ {"target"}))
    BY <1>1, <1>2, <1>3, ReleasesDoes DEF Inv
<1>5. StageInv'
  <2>1. CASE Failing
      BY <2>1, <1>1, <1>3, FailKeepsStage DEF Inv, EnumStages
  <2>2. CASE ~ Failing
      BY <2>2, <1>1, <1>3, <1>4
         DEF Going, Inv, StageInv, FilledAtEnum, FilledAtCommit, Stages, EnumStages,
             CommitStages, ModeStages, Between, Pins
  <2> QED
      BY <2>1, <2>2
<1> QED
    BY <1>4, <1>5 DEF Inv

LEMMA DropPinnedTargetKeeps ==
    ASSUME Inv, DropPinnedTarget
    PROVE  Inv'
<1>1. /\ pc = "drop pinned target" /\ Between({"path", "target", "pinnedTarget"}, {"path", "target", "pinnedTarget"} \cup Pins)
      /\ ~ nextFailed /\ op = "enum" /\ left \in Nat
    BY DEF Inv, StageInv, FilledAtEnum, EnumStages, DropPinnedTarget
<1>2. {v["target"], v["pinnedTarget"]} \subseteq held /\ "pinnedTarget" \in Filled
    BY <1>1, HeldOf DEF Inv, Between
<1>3. /\ Releases("pinnedTarget", "drop target set")
      /\ Uses({v["target"], v["pinnedTarget"]}) /\ UNCHANGED Rest /\ UNCHANGED <<op, nextFailed>> /\ left' \in Nat
    BY <1>1 DEF DropPinnedTarget, Rest, loopVars, argVars, pastVars
<1>4. HandlesInv' /\ (Failing \/ Going("drop target set", Filled \ {"pinnedTarget"}))
    BY <1>1, <1>2, <1>3, ReleasesDoes DEF Inv
<1>5. StageInv'
  <2>1. CASE Failing
      BY <2>1, <1>1, <1>3, FailKeepsStage DEF Inv, EnumStages
  <2>2. CASE ~ Failing
      BY <2>2, <1>1, <1>3, <1>4
         DEF Going, Inv, StageInv, FilledAtEnum, FilledAtCommit, Stages, EnumStages,
             CommitStages, ModeStages, Between, Pins
  <2> QED
      BY <2>1, <2>2
<1> QED
    BY <1>4, <1>5 DEF Inv

LEMMA DropTargetSetKeeps ==
    ASSUME Inv, DropTargetSet
    PROVE  Inv'
<1>1. /\ pc = "drop target set" /\ Between({"path", "target"}, {"path", "target"} \cup Pins)
      /\ ~ nextFailed /\ op = "enum" /\ left \in Nat
    BY DEF Inv, StageInv, FilledAtEnum, EnumStages, DropTargetSet
<1>2. {v["target"]} \subseteq held /\ "target" \in Filled
    BY <1>1, HeldOf DEF Inv, Between
<1>3. /\ Releases("target", "drop pinned source")
      /\ Uses({v["target"]}) /\ UNCHANGED Rest /\ UNCHANGED <<op, nextFailed>> /\ left' \in Nat
    BY <1>1 DEF DropTargetSet, Rest, loopVars, argVars, pastVars
<1>4. HandlesInv' /\ (Failing \/ Going("drop pinned source", Filled \ {"target"}))
    BY <1>1, <1>2, <1>3, ReleasesDoes DEF Inv
<1>5. StageInv'
  <2>1. CASE Failing
      BY <2>1, <1>1, <1>3, FailKeepsStage DEF Inv, EnumStages
  <2>2. CASE ~ Failing
      BY <2>2, <1>1, <1>3, <1>4
         DEF Going, Inv, StageInv, FilledAtEnum, FilledAtCommit, Stages, EnumStages,
             CommitStages, ModeStages, Between, Pins
  <2> QED
      BY <2>1, <2>2
<1> QED
    BY <1>4, <1>5 DEF Inv

LEMMA AcquirePinnedSourceKeeps ==
    ASSUME Inv, AcquirePinnedSource
    PROVE  Inv'
<1>1. /\ pc = "pinned source" /\ Filled = {"path", "source"}
      /\ ~ nextFailed /\ op = "enum" /\ left \in Nat
    BY DEF Inv, StageInv, FilledAtEnum, EnumStages, AcquirePinnedSource
<1>2. Path \in 1 .. request.paths /\ {v["source"]} \subseteq held
    BY <1>1, HeldOf DEF Inv, HandlesInv, Between
<1>3. /\ \/ Acquires("pinnedSource", Handle("pinned source", Path), AfterSource)
         \/ Works(AfterSource) \/ Works("old source")
      /\ Uses({v["source"]}) /\ UNCHANGED Rest /\ UNCHANGED <<op, nextFailed>> /\ left' \in Nat
    BY <1>1 DEF AcquirePinnedSource, Rest, loopVars, argVars, pastVars
<1>4. /\ HandlesInv'
      /\ \/ Failing
         \/ Going(AfterSource, {"path", "source", "pinnedSource"})
         \/ Going(AfterSource, {"path", "source"})
         \/ Going("old source", {"path", "source"})
  <2>1. CASE Acquires("pinnedSource", Handle("pinned source", Path), AfterSource)
    <3> DEFINE h == Handle("pinned source", Path)
    <3>1. "pinned source" \in KindNames /\ <<"pinnedSource", "pinned source">> \in OfField
        BY DEF KindNames, OfField
    <3>2. Path \in Nat /\ "pinnedSource" \in Fields \ Filled
      <4>1. request.paths \in 0 .. MaxPaths
          BY DEF Inv, HandlesInv
      <4>2. Path \in Nat
          BY <4>1, <1>2
      <4>3. "pinnedSource" \notin {"path", "source"} /\ "pinnedSource" \in Fields
          BY DEF Fields
      <4> QED
          BY <4>2, <4>3, <1>1
    <3>3. h \in KindNames \X Nat /\ <<"pinnedSource", h[1]>> \in OfField
        BY <3>1, <3>2, HandleIs
    <3> HIDE DEF h
    <3>4. HandlesInv' /\ (Failing \/ Going(AfterSource, Filled \cup {"pinnedSource"}))
        BY <2>1, <1>1, <1>2, <1>3, <3>2, <3>3, AcquiresDoes DEF Inv, h
    <3>5. Filled \cup {"pinnedSource"} = {"path", "source", "pinnedSource"}
        BY <1>1
    <3> QED
        BY <3>4, <3>5
  <2>2. CASE Works(AfterSource) \/ Works("old source")
      BY <2>2, <1>1, <1>2, <1>3, WorksDoes DEF Inv
  <2> QED
      BY <2>1, <2>2, <1>3
<1>5. StageInv'
  <2>1. CASE Failing
      BY <2>1, <1>1, <1>3, FailKeepsStage DEF Inv, EnumStages
  <2>2. CASE ~ Failing
      BY <2>2, <1>1, <1>3, <1>4
         DEF Going, Inv, StageInv, FilledAtEnum, FilledAtCommit, Stages, EnumStages,
             CommitStages, ModeStages, Between, Pins, AfterSource
  <2> QED
      BY <2>1, <2>2
<1> QED
    BY <1>4, <1>5 DEF Inv

LEMMA AcquirePinnedTargetKeeps ==
    ASSUME Inv, AcquirePinnedTarget
    PROVE  Inv'
<1>1. /\ pc = "pinned target" /\ Between({"path", "target"}, {"path", "target"} \cup Pins)
      /\ ~ nextFailed /\ op = "enum" /\ left \in Nat
    BY DEF Inv, StageInv, FilledAtEnum, EnumStages, AcquirePinnedTarget
<1>2. Path \in 1 .. request.paths /\ {v["target"]} \subseteq held
    BY <1>1, HeldOf DEF Inv, HandlesInv, Between
<1>3. /\ \/ Acquires("pinnedTarget", Handle("pinned target", Path), "drop pinned target") /\ "pinnedTarget" \in Fields \ Filled
         \/ Works("old target")
      /\ Uses({v["target"]}) /\ UNCHANGED Rest /\ UNCHANGED <<op, nextFailed>> /\ left' \in Nat
    BY <1>1 DEF Between, Pins, Fields, AcquirePinnedTarget, Rest, loopVars, argVars, pastVars
<1>4. /\ HandlesInv'
      /\ \/ Failing
         \/ Going("drop pinned target", Filled \cup {"pinnedTarget"})
         \/ Going("old target", Filled)
  <2>1. CASE /\ Acquires("pinnedTarget", Handle("pinned target", Path), "drop pinned target")
             /\ "pinnedTarget" \in Fields \ Filled
    <3> DEFINE h == Handle("pinned target", Path)
    <3>1. "pinned target" \in KindNames /\ <<"pinnedTarget", "pinned target">> \in OfField
        BY DEF KindNames, OfField
    <3>2. Path \in Nat
      <4>1. request.paths \in 0 .. MaxPaths
          BY DEF Inv, HandlesInv
      <4> QED
          BY <4>1, <1>2
    <3>3. h \in KindNames \X Nat /\ <<"pinnedTarget", h[1]>> \in OfField
        BY <3>1, <3>2, HandleIs
    <3> HIDE DEF h
    <3> QED
        BY <2>1, <1>1, <1>2, <1>3, <3>3, AcquiresDoes DEF Inv, h
  <2>2. CASE Works("old target")
      BY <2>2, <1>1, <1>2, <1>3, WorksDoes DEF Inv
  <2> QED
      BY <2>1, <2>2, <1>3
<1>5. StageInv'
  <2>1. CASE Failing
      BY <2>1, <1>1, <1>3, FailKeepsStage DEF Inv, EnumStages
  <2>2. CASE ~ Failing
      BY <2>2, <1>1, <1>3, <1>4
         DEF Going, Inv, StageInv, FilledAtEnum, FilledAtCommit, Stages, EnumStages,
             CommitStages, ModeStages, Between, Pins
  <2> QED
      BY <2>1, <2>2
<1> QED
    BY <1>4, <1>5 DEF Inv

LEMMA DropPinnedSourceKeeps ==
    ASSUME Inv, DropPinnedSource
    PROVE  Inv'
<1>1. /\ pc = "drop pinned source" /\ Between({"path"}, {"path"} \cup Pins)
      /\ ~ nextFailed /\ op = "enum" /\ left \in Nat
      /\ "pinnedSource" \in Filled => "source" \in Filled
    BY DEF Inv, StageInv, FilledAtEnum, EnumStages, DropPinnedSource
<1>2. UNCHANGED Rest /\ UNCHANGED <<op, nextFailed>> /\ left' \in Nat
    BY <1>1 DEF DropPinnedSource, Rest, loopVars, argVars, pastVars
<1>3. CASE "pinnedSource" \in Filled
  <2>1. Releases("pinnedSource", "drop source set") /\ Uses({v["source"], v["pinnedSource"]})
      BY <1>3 DEF DropPinnedSource, Filled
  <2>2. {v["source"], v["pinnedSource"]} \subseteq held
      BY <1>1, <1>3, HeldOf DEF Inv
  <2>3. HandlesInv' /\ (Failing \/ Going("drop source set", Filled \ {"pinnedSource"}))
      BY <1>1, <1>2, <1>3, <2>1, <2>2, ReleasesDoes DEF Inv
  <2>4. StageInv'
    <3>1. CASE Failing
        BY <3>1, <1>1, <1>2, FailKeepsStage DEF Inv, EnumStages
    <3>2. CASE Going("drop source set", Filled \ {"pinnedSource"})
        BY <3>2, <1>1, <1>2, <1>3
           DEF Going, Inv, StageInv, FilledAtEnum, FilledAtCommit, Stages, EnumStages,
               CommitStages, ModeStages, Between, Pins
    <3> QED
        BY <3>1, <3>2, <2>3
  <2> QED
      BY <2>3, <2>4 DEF Inv
<1>4. CASE "pinnedSource" \notin Filled
  <2>1. Skips("drop source set")
      BY <1>4 DEF DropPinnedSource, Filled, Fields
  <2>2. HandlesInv' /\ Going("drop source set", Filled)
      BY <1>2, <2>1, SkipsDoes DEF Inv
  <2>3. StageInv'
      BY <2>2, <1>1, <1>2, <1>4
         DEF Going, Inv, StageInv, FilledAtEnum, FilledAtCommit, Stages, EnumStages,
             CommitStages, ModeStages, Between, Pins
  <2> QED
      BY <2>2, <2>3 DEF Inv
<1> QED
    BY <1>3, <1>4

LEMMA DropSourceSetKeeps ==
    ASSUME Inv, DropSourceSet
    PROVE  Inv'
<1>1. /\ pc = "drop source set" /\ Between({"path"}, {"path", "source"})
      /\ ~ nextFailed /\ op = "enum" /\ left \in Nat
      /\ "pinnedSource" \in Filled => "source" \in Filled
    BY DEF Inv, StageInv, FilledAtEnum, EnumStages, DropSourceSet
<1>2. UNCHANGED Rest /\ UNCHANGED <<op, nextFailed>> /\ left' \in Nat
    BY <1>1 DEF DropSourceSet, Rest, loopVars, argVars, pastVars
<1>3. CASE "source" \in Filled
  <2>1. Releases("source", "support") /\ Uses({v["source"]})
      BY <1>3 DEF DropSourceSet, Filled
  <2>2. {v["source"]} \subseteq held
      BY <1>1, <1>3, HeldOf DEF Inv
  <2>3. HandlesInv' /\ (Failing \/ Going("support", Filled \ {"source"}))
      BY <1>1, <1>2, <1>3, <2>1, <2>2, ReleasesDoes DEF Inv
  <2>4. StageInv'
    <3>1. CASE Failing
        BY <3>1, <1>1, <1>2, FailKeepsStage DEF Inv, EnumStages
    <3>2. CASE Going("support", Filled \ {"source"})
        BY ZenonT(30), <3>2, <1>1, <1>2, <1>3
           DEF Going, Inv, StageInv, FilledAtEnum, FilledAtCommit, Stages, EnumStages,
               CommitStages, ModeStages, Between, Pins
    <3> QED
        BY <3>1, <3>2, <2>3
  <2> QED
      BY <2>3, <2>4 DEF Inv
<1>4. CASE "source" \notin Filled
  <2>1. Skips("support")
      BY <1>4 DEF DropSourceSet, Filled, Fields
  <2>2. HandlesInv' /\ Going("support", Filled)
      BY <1>2, <2>1, SkipsDoes DEF Inv
  <2>3. StageInv'
      BY ZenonT(30), <2>2, <1>1, <1>2, <1>4
         DEF Going, Inv, StageInv, FilledAtEnum, FilledAtCommit, Stages, EnumStages,
             CommitStages, ModeStages, Between, Pins
  <2> QED
      BY <2>2, <2>3 DEF Inv
<1> QED
    BY <1>3, <1>4

LEMMA UpdatePathSupportKeeps ==
    ASSUME Inv, UpdatePathSupport
    PROVE  Inv'
<1>1. /\ pc = "support" /\ Filled = {"path"}
      /\ ~ nextFailed /\ op = "enum" /\ left \in Nat
    BY DEF Inv, StageInv, FilledAtEnum, EnumStages, UpdatePathSupport
<1>2. {v["path"]} \subseteq held
    BY <1>1, HeldOf DEF Inv
<1>3. /\ Works("next path")
      /\ Uses({v["path"]}) /\ UNCHANGED Rest /\ UNCHANGED <<op, nextFailed>> /\ left' \in Nat
    BY <1>1 DEF UpdatePathSupport, Works, Rest, loopVars, argVars, pastVars
<1>4. HandlesInv' /\ (Failing \/ Going("next path", Filled))
    BY <1>1, <1>2, <1>3, WorksDoes DEF Inv
<1>5. StageInv'
  <2>1. CASE Failing
      BY <2>1, <1>1, <1>3, FailKeepsStage DEF Inv, EnumStages
  <2>2. CASE ~ Failing
      BY <2>2, <1>1, <1>3, <1>4
         DEF Going, Inv, StageInv, FilledAtEnum, FilledAtCommit, Stages, EnumStages,
             CommitStages, ModeStages, Between, Pins
  <2> QED
      BY <2>1, <2>2
<1> QED
    BY <1>4, <1>5 DEF Inv

(* pfnAcquireNextPathInfo: the path moves to the temporary.                 *)
LEMMA AcquireNextPathKeeps ==
    ASSUME Inv, AcquireNextPath
    PROVE  Inv'
<1>1. /\ pc = "next path" /\ Filled = {"path"} /\ status = "ok"
      /\ ~ nextFailed /\ op = "enum" /\ left \in Nat
    BY DEF Inv, StageInv, FilledAtEnum, EnumStages, AcquireNextPath
<1>2. /\ v["path"] \in held /\ Path \in 1 .. request.paths /\ request.paths \in Nat
      /\ v \in [Fields -> KindNames \X Nat] /\ v["path"][1] = "path" /\ v["temp"] = Null
      /\ v["path"] # Null
  <2>1. v["path"] \in held
      BY <1>1, HeldOf DEF Inv
  <2>2. <<"path", v["path"][1]>> \in OfField
      BY <1>1 DEF Inv, HandlesInv
  <2>3. v["path"][1] = "path"
      BY <2>2 DEF OfField
  <2>4. v["temp"] = Null /\ v["path"] # Null
    <3>1. "temp" \in Fields \ Filled /\ "path" \in Filled
        BY <1>1 DEF Fields
    <3> QED
        BY <3>1 DEF Filled
  <2>5. request.paths \in 0 .. MaxPaths /\ v \in [Fields -> KindNames \X Nat]
      BY DEF Inv, HandlesInv
  <2>6. Path \in 1 .. request.paths
      BY <1>1 DEF Inv, HandlesInv
  <2> QED
      BY <2>1, <2>3, <2>4, <2>5, <2>6
<1>3. UNCHANGED <<op, request, left, refused, misused, side>>
    BY <1>1, <1>2, UseKeeps DEF AcquireNextPath, argVars, loopVars
<1> DEFINE next == Handle("path", Path + 1)
<1>4. next \in KindNames \X Nat /\ next[1] = "path" /\ next # v["path"] /\ next # Null
      /\ next[2] = Path + 1
  <2>1. next \in KindNames \X Nat /\ next[1] = "path" /\ next[2] = Path + 1
    <3>1. "path" \in KindNames
        BY DEF KindNames
    <3>2. Path + 1 \in Nat
        BY <1>2
    <3> QED
        BY <3>1, <3>2, HandleIs
  <2>2. Null[1] = "null" /\ Path # Path + 1
      BY <1>2 DEF Null
  <2> HIDE DEF next
  <2> QED
      BY <2>1, <2>2 DEF Path
<1> HIDE DEF next
<1>5. PICK h \in {next, v["path"], Null} :
         /\ v' = [v EXCEPT !["temp"] = v["path"], !["path"] = h]
         /\ h = next => held' = held \cup {next} /\ Path < request.paths
         /\ h # next => held' = held
         /\ \/ pc' = "drop path" /\ h # v["path"]
               /\ status' = IF h = Null THEN "no more" ELSE "ok"
            \/ pc' = "cleanup" /\ h # next
  <2>1. CASE /\ Path < request.paths
             /\ v' = [v EXCEPT !["temp"] = v["path"], !["path"] = next]
             /\ held' = held \cup {next}
             /\ pc' = "drop path" /\ UNCHANGED status
      BY <2>1, <1>1, <1>4
  <2>2. CASE /\ v' = [v EXCEPT !["temp"] = v["path"], !["path"] = Null]
             /\ pc' = "drop path" /\ status' = "no more" /\ UNCHANGED held
      BY <2>2, <1>1, <1>2, <1>4
  <2>3. CASE /\ \E h \in {v["path"], Null} :
                   v' = [v EXCEPT !["temp"] = v["path"], !["path"] = h]
             /\ pc' = "cleanup" /\ UNCHANGED held
      BY <2>3, <1>1, <1>2, <1>4
  <2> QED
      BY <2>1, <2>2, <2>3 DEF AcquireNextPath, next
<1>6. \/ pc' = "cleanup" /\ nextFailed'
      \/ pc' = "drop path" /\ ~ nextFailed'
  <2>1. \/ pc' = "cleanup" /\ nextFailed' = TRUE
        \/ pc' = "drop path" /\ nextFailed' = nextFailed
      BY Zenon DEF AcquireNextPath
  <2> QED
      BY <2>1, <1>1, Zenon
<1>7. /\ v' \in [Fields -> KindNames \X Nat]
      /\ v'["temp"] = v["path"] /\ v'["path"] = h
      /\ \A f \in Fields \ {"temp", "path"} : v'[f] = v[f]
  <2>1. h \in KindNames \X Nat
      BY <1>2, <1>4 DEF Null, KindNames, Fields
  <2> QED
      BY <1>2, <1>5, <2>1 DEF Fields
<1>8. Filled' = IF h = Null THEN {"temp"} ELSE {"temp", "path"}
    BY <1>1, <1>2, <1>7 DEF Filled, Fields
<1>9. HandlesInv'
  <2>1. \A f \in Filled' : <<f, v'[f][1]>> \in OfField
      BY ZenonT(30), <1>2, <1>4, <1>5, <1>7, <1>8 DEF OfField
  <2>2. "path" \in Filled' => Path' \in 1 .. request'.paths
    <3>1. Path' = h[2] /\ v["path"][2] = Path
        BY <1>7 DEF Path
    <3>2. "path" \in Filled' => h = next \/ h = v["path"]
        BY <1>8
    <3>3. h = next => h[2] \in 1 .. request.paths
      <4>1. h = next => Path < request.paths
          BY <1>5
      <4> QED
          BY <4>1, <1>2, <1>4
    <3> QED
        BY <3>1, <3>2, <3>3, <1>2, <1>3
  <2>3. \A f \in Filled' : v'[f] \in held'
    <3>1. v["path"] \in held' /\ (h = next => h \in held')
        BY <1>2, <1>5
    <3> QED
        BY <3>1, <1>7, <1>8
  <2>4. held' \subseteq {v'[f] : f \in Filled'} \cup refused' \cup {MonitorSet}
    <3>1. held \subseteq {v["path"]} \cup refused \cup {MonitorSet}
        BY <1>1 DEF Inv, HandlesInv
    <3>2. v["path"] \in {v'[f] : f \in Filled'}
        BY <1>7, <1>8
    <3>3. h = next => next \in {v'[f] : f \in Filled'}
        BY <1>4, <1>7, <1>8
    <3> QED
        BY <3>1, <3>2, <3>3, <1>3, <1>5
  <2>5. v'["path"] # v'["temp"] \/ nextFailed'
      BY <1>5, <1>7, <1>6
  <2>6. UsesHeld'
      BY <1>1, <1>3 DEF Inv, HandlesInv, UsesHeld
  <2> QED
      BY <2>1, <2>2, <2>3, <2>4, <2>5, <2>6, <1>1, <1>3, <1>7 DEF Inv, HandlesInv
<1>10. StageInv'
  <2>1. CASE pc' = "cleanup" /\ nextFailed'
      BY <2>1, <1>1, <1>3, <1>8
         DEF Inv, StageInv, FilledAtEnum, FilledAtCommit, Stages, EnumStages,
             CommitStages, ModeStages
  <2>2. CASE pc' = "drop path" /\ ~ nextFailed'
    <3>1. Filled' = IF status' = "no more" THEN {"temp"} ELSE {"path", "temp"}
        BY <2>2, <1>5, <1>8, <1>6
    <3>2. status' \in {"ok", "no more"}
        BY <2>2, <1>5
    <3> QED
        BY <2>2, <3>1, <3>2, <1>1, <1>3
           DEF Inv, StageInv, FilledAtEnum, FilledAtCommit, Stages, EnumStages,
               CommitStages, ModeStages
  <2> QED
      BY <2>1, <2>2, <1>6
<1> QED
    BY <1>9, <1>10 DEF Inv

LEMMA ReleaseLastPathKeeps ==
    ASSUME Inv, ReleaseLastPath
    PROVE  Inv'
<1> DEFINE next == IF status = "no more" THEN "cleanup" ELSE "source set"
<1>1. /\ pc = "drop path"
      /\ Filled = IF status = "no more" THEN {"temp"} ELSE {"path", "temp"}
      /\ ~ nextFailed /\ op = "enum" /\ left \in Nat
    BY DEF Inv, StageInv, FilledAtEnum, EnumStages, ReleaseLastPath
<1>2. {v["temp"]} \subseteq held /\ "temp" \in Filled
    BY <1>1, HeldOf DEF Inv
<1>3. /\ Releases("temp", next) /\ Uses({v["temp"]})
      /\ UNCHANGED Rest /\ UNCHANGED <<op, nextFailed>> /\ left' \in Nat
    BY <1>1 DEF ReleaseLastPath, Rest, loopVars, argVars, pastVars
<1>4. HandlesInv' /\ (Failing \/ Going(next, Filled \ {"temp"}))
    BY <1>1, <1>2, <1>3, ReleasesDoes DEF Inv
<1>5. StageInv'
  <2>1. CASE Failing
      BY <2>1, <1>1, <1>3, FailKeepsStage DEF Inv, EnumStages
  <2>2. CASE ~ Failing
    <3>1. Filled' = IF status = "no more" THEN {} ELSE {"path"}
        BY <2>2, <1>1, <1>4 DEF Going
    <3> QED
        BY ZenonT(30), <2>2, <3>1, <1>1, <1>3, <1>4
           DEF Going, Inv, StageInv, FilledAtEnum, FilledAtCommit, Stages, EnumStages,
               CommitStages, ModeStages
  <2> QED
      BY <2>1, <2>2
<1> QED
    BY <1>4, <1>5 DEF Inv

-----------------------------------------------------------------------------
(* Creating, adding and giving back the mode infos of a set.                *)
LEMMA InModesMoves ==
    ASSUME NEW a, NEW b, a \subseteq {"mode"}, b \subseteq {"mode"}, InModes(a),
           UNCHANGED <<side, op>>, side = "monitor" \/ status' = "ok",
           Filled' = (Filled \ a) \cup b
    PROVE  InModes(b)'
<1>1. CASE side = "monitor"
    BY <1>1 DEF InModes
<1>2. CASE side = "source" /\ op = "enum" /\ Filled = {"path", "source"} \cup a
  <2>1. Filled' = {"path", "source"} \cup b
      BY <1>2
  <2> QED
      BY <1>2, <2>1 DEF InModes
<1>3. CASE /\ side = "target" /\ op = "enum"
           /\ Between({"path", "target"} \cup a, {"path", "target"} \cup Pins \cup a)
  <2>1. /\ {"path", "target"} \cup b \subseteq Filled'
        /\ Filled' \subseteq {"path", "target"} \cup Pins \cup b
      BY <1>3 DEF Between, Pins
  <2> QED
      BY <1>3, <2>1 DEF InModes, Between
<1> QED
    BY <1>1, <1>2, <1>3 DEF InModes

LEMMA InModesMeans ==
    ASSUME Inv, pc \in ModeStages
    PROVE  /\ ~ nextFailed /\ op # "none" /\ left \in Nat
           /\ \/ side \in {"source", "target"} /\ op = "enum" /\ status = "ok"
              \/ side = "monitor" /\ op = "monitor"
           /\ {SetInUse} \subseteq held
           /\ pc = "create mode" => InModes({}) /\ "mode" \in Fields \ Filled
           /\ pc # "create mode" => InModes({"mode"}) /\ "mode" \in Filled /\ left > 0
<1>1. /\ ~ nextFailed /\ op # "none" /\ left \in Nat
      /\ pc = "create mode" => InModes({})
      /\ pc # "create mode" => InModes({"mode"}) /\ left > 0
    BY DEF Inv, StageInv, ModeStages
<1>2. PICK more \in SUBSET {"mode"} : InModes(more) /\ more = IF pc = "create mode" THEN {} ELSE {"mode"}
    BY <1>1
<1>3. "mode" \notin {"path", "source", "target", "pinnedSource"} /\ "mode" \in Fields
    BY DEF Fields
<1>4. "mode" \in Filled <=> pc # "create mode"
    BY <1>2, <1>3 DEF InModes, Between, Pins
<1>5. {SetInUse} \subseteq held
  <2>1. CASE side = "source"
    <3>1. "source" \in Filled
        BY <2>1, <1>2 DEF InModes
    <3> QED
        BY <2>1, <3>1, <1>1, HeldOf DEF SetInUse, Inv
  <2>2. CASE side = "target"
    <3>1. "target" \in Filled
        BY <2>2, <1>2 DEF InModes, Between
    <3> QED
        BY <2>2, <3>1, <1>1, HeldOf DEF SetInUse, Inv
  <2>3. CASE side = "monitor"
    <3>1. MonitorSet \in held
        BY <2>3, <1>2 DEF InModes, Inv, HandlesInv
    <3> QED
        BY <2>3, <3>1 DEF SetInUse
  <2> QED
      BY <2>1, <2>2, <2>3, <1>2 DEF InModes
<1>6. \/ side \in {"source", "target"} /\ op = "enum" /\ status = "ok"
      \/ side = "monitor" /\ op = "monitor"
    BY <1>2 DEF InModes
<1> QED
    BY <1>1, <1>3, <1>4, <1>5, <1>6

(* Where the mode stages lead.                                              *)
LEMMA ToModes ==
    ASSUME StageInv, op # "none", ~ nextFailed, UNCHANGED <<op, nextFailed>>, left' \in Nat,
           pc' \in ModeStages,
           pc' = "create mode" => InModes({})', pc' # "create mode" => InModes({"mode"})' /\ left' > 0,
           "pinnedSource" \in Filled' => "source" \in Filled'
    PROVE  StageInv'
<1>1. \E more \in SUBSET {"mode"} : InModes(more)'
    BY DEF ModeStages
<1>2. "pinnedTarget" \notin Filled'
  <2>1. "pinnedTarget" \notin {"path", "source", "target", "pinnedSource", "mode"}
      OBVIOUS
  <2> QED
      BY <1>1, <2>1 DEF InModes, Between, Pins
<1> QED
    BY <1>2 DEF StageInv, FilledAtEnum, FilledAtCommit, Stages, EnumStages, CommitStages, ModeStages

LEMMA CreateModeKeeps ==
    ASSUME Inv, CreateMode
    PROVE  Inv'
<1>1. /\ pc = "create mode" /\ pc \in ModeStages /\ InModes({})
      /\ UNCHANGED <<op, nextFailed, left, side, request>> /\ UNCHANGED Rest
    BY DEF CreateMode, ModeStages, argVars, pastVars, loopVars, Rest, Inv, StageInv
<1>2. /\ ~ nextFailed /\ op # "none" /\ left \in Nat
      /\ \/ side \in {"source", "target"} /\ op = "enum" /\ status = "ok"
         \/ side = "monitor" /\ op = "monitor"
      /\ {SetInUse} \subseteq held /\ "mode" \in Fields \ Filled
      /\ "pinnedSource" \in Filled => "source" \in Filled
    BY <1>1, InModesMeans DEF Inv, StageInv
<1>3. CASE left = 0
  <2>1. Skips(FromModes)
      BY <1>3 DEF CreateMode
  <2>2. HandlesInv' /\ Going(FromModes, Filled)
      BY <1>1, <2>1, SkipsDoes DEF Inv
  <2>3. StageInv'
    <3>1. CASE side = "source"
      <4>1. Filled = {"path", "source"} /\ FromModes = "assign source"
          BY <3>1, <1>1 DEF InModes, FromModes
      <4> QED
          BY <4>1, <3>1, <2>2, <1>1, <1>2
             DEF Going, Inv, StageInv, FilledAtEnum, FilledAtCommit, Stages, EnumStages,
                 CommitStages, ModeStages
    <3>2. CASE side = "target"
      <4>1. Between({"path", "target"}, {"path", "target"} \cup Pins) /\ FromModes = "assign target"
          BY <3>2, <1>1 DEF InModes, FromModes, Between
      <4> QED
          BY <4>1, <3>2, <2>2, <1>1, <1>2
             DEF Going, Inv, StageInv, FilledAtEnum, FilledAtCommit, Stages, EnumStages,
                 CommitStages, ModeStages, Between
    <3>3. CASE side = "monitor"
      <4>1. Filled = {} /\ FromModes = "returned"
          BY <3>3, <1>1 DEF InModes, FromModes
      <4> QED
          BY <4>1, <3>3, <2>2, <1>1, <1>2
             DEF Going, Inv, StageInv, FilledAtEnum, FilledAtCommit, Stages, EnumStages,
                 CommitStages, ModeStages
    <3> QED
        BY <3>1, <3>2, <3>3, <1>2
  <2> QED
      BY <2>2, <2>3 DEF Inv
<1>4. CASE left # 0 /\ pc' = "add mode"
  <2> DEFINE h == Handle("mode", left)
  <2>1. Uses({SetInUse}) /\ Acquires("mode", h, "add mode")
      BY <1>4 DEF CreateMode, Abandon, Acquires
  <2>2. h \in KindNames \X Nat /\ <<"mode", h[1]>> \in OfField
    <3>1. "mode" \in KindNames /\ <<"mode", "mode">> \in OfField
        BY DEF KindNames, OfField
    <3> QED
        BY <3>1, <1>2, HandleIs
  <2> HIDE DEF h
  <2>3. HandlesInv' /\ Going("add mode", Filled \cup {"mode"})
      BY <1>1, <1>2, <1>4, <2>1, <2>2, AcquiresDoes DEF Inv, Failing
  <2>4. InModes({"mode"})'
    <3>1. Filled' = (Filled \ {}) \cup {"mode"}
        BY <2>3 DEF Going
    <3> QED
        BY <3>1, <1>1, <1>2, <2>3, InModesMoves DEF Going
  <2>5. StageInv'
    <3>1. "pinnedSource" \in Filled' => "source" \in Filled'
        BY <1>2, <2>3 DEF Going
    <3>2. StageInv /\ pc' \in ModeStages
        BY <1>4 DEF Inv, ModeStages
    <3>3. left' \in Nat /\ left' > 0
      <4>1. left' = left /\ left \in Nat
          BY <1>1, <1>2
      <4>2. left # 0
          BY <1>4
      <4> QED
          BY <4>1, <4>2
    <3> QED
        BY <3>1, <3>2, <3>3, <1>1, <1>2, <1>4, <2>4, ToModes
  <2> QED
      BY <2>3, <2>5 DEF Inv
<1>5. CASE left # 0 /\ pc' # "add mode"
  <2>1. Uses({SetInUse}) /\ pc' = Abandon /\ status' = "failed" /\ UNCHANGED <<v, held>>
      BY <1>5 DEF CreateMode
  <2>2. UNCHANGED Same /\ UNCHANGED op
      BY <1>1, <1>2, <2>1, UseKeeps DEF Same, Rest, pastVars
  <2>3. HandlesInv' /\ Filled' = Filled
      BY <2>2, SameKeeps DEF Inv
  <2>4. CASE side = "monitor"
    <3>1. Filled' = {} /\ pc' = "returned"
        BY <2>1, <2>3, <2>4, <1>1 DEF InModes, Abandon
    <3> QED
        BY <3>1, <2>3, <2>4, <1>1, <1>2
           DEF Inv, StageInv, FilledAtEnum, FilledAtCommit, Stages, EnumStages,
               CommitStages, ModeStages
  <2>5. CASE side # "monitor"
    <3>1. Failing
        BY <2>1, <2>3, <2>5 DEF Failing, Abandon
    <3> QED
        BY <3>1, <2>3, <2>5, <1>1, <1>2, FailKeepsStage DEF Inv
  <2> QED
      BY <2>4, <2>5
<1> QED
    BY <1>3, <1>4, <1>5

LEMMA AddModeKeeps ==
    ASSUME Inv, AddMode
    PROVE  Inv'
<1>1. pc = "add mode" /\ pc \in ModeStages /\ UNCHANGED <<op, side, nextFailed, request, refused>>
    BY DEF AddMode, ModeStages, argVars, pastVars
<1>2. /\ ~ nextFailed /\ op # "none" /\ left \in Nat /\ left > 0
      /\ {SetInUse} \subseteq held /\ InModes({"mode"}) /\ "mode" \in Filled
      /\ "pinnedSource" \in Filled => "source" \in Filled
      /\ side = "monitor" \/ status = "ok"
    BY <1>1, InModesMeans DEF Inv, StageInv
<1>3. misused' = misused
  <2>1. {SetInUse, v["mode"]} \subseteq held
      BY <1>2, HeldOf DEF Inv
  <2> QED
      BY <2>1, UseKeeps DEF AddMode
<1>4. CASE /\ held' = held \ {v["mode"]} /\ v' = [v EXCEPT !["mode"] = Null]
           /\ pc' = "create mode" /\ left' = left - 1 /\ status' = "ok"
  <2>1. HandlesInv' /\ Filled' = Filled \ {"mode"}
      BY <1>1, <1>2, <1>3, <1>4, ReleaseKeeps DEF Inv
  <2>2. InModes({})'
    <3>1. Filled' = (Filled \ {"mode"}) \cup {}
        BY <2>1
    <3> QED
        BY <3>1, <1>1, <1>2, <1>4, InModesMoves
  <2>3. StageInv'
    <3>1. "pinnedSource" \in Filled' => "source" \in Filled'
        BY <1>2, <2>1
    <3>2. StageInv /\ pc' \in ModeStages
        BY <1>4 DEF Inv, ModeStages
    <3>3. left' \in Nat
      <4>1. left' = left - 1
          BY <1>4
      <4>2. left \in Nat /\ left > 0
          BY <1>2
      <4> QED
          BY <4>1, <4>2
    <3> QED
        BY <3>1, <3>2, <3>3, <1>1, <1>2, <1>4, <2>2, ToModes
  <2> QED
      BY <2>1, <2>3 DEF Inv
<1>5. CASE pc' \in {"release known mode", "release mode"} /\ UNCHANGED <<v, held, left, status>>
  <2>1. HandlesInv' /\ Filled' = Filled
      BY <1>1, <1>3, <1>5, SameKeeps DEF Same, Inv
  <2>2. InModes({"mode"})'
    <3>1. Filled' = (Filled \ {"mode"}) \cup {"mode"}
        BY <2>1, <1>2
    <3> QED
        BY <3>1, <1>1, <1>2, <1>5, InModesMoves
  <2>3. StageInv'
      BY <1>1, <1>2, <1>5, <2>1, <2>2, ToModes DEF Inv, ModeStages
  <2> QED
      BY <2>1, <2>3 DEF Inv
<1> QED
    BY <1>4, <1>5 DEF AddMode

LEMMA ReleaseModeKeeps ==
    ASSUME Inv, ReleaseMode
    PROVE  Inv'
<1> DEFINE known == pc = "release known mode"
           ends == IF side = "source" THEN ~ known ELSE Preferred
<1>1. /\ pc \in {"release known mode", "release mode"} /\ pc \in ModeStages
      /\ pc # "create mode" /\ UNCHANGED <<op, side, nextFailed, request>> /\ left' = left - 1
      /\ pc' = IF ends THEN Abandon ELSE "create mode"
      /\ v' = [v EXCEPT !["mode"] = Null]
      /\ side # "monitor" /\ ~ ends => status' = "ok"
    BY DEF ReleaseMode, ModeStages, argVars
<1>2. /\ ~ nextFailed /\ op # "none" /\ left \in Nat /\ left > 0
      /\ {SetInUse} \subseteq held /\ InModes({"mode"}) /\ "mode" \in Filled
      /\ "pinnedSource" \in Filled => "source" \in Filled
      /\ \/ side \in {"source", "target"} /\ op = "enum" /\ status = "ok"
         \/ side = "monitor" /\ op = "monitor"
    BY <1>1, InModesMeans DEF Inv, StageInv
<1>3. misused' = misused
  <2>1. {SetInUse, v["mode"]} \subseteq held
      BY <1>2, HeldOf DEF Inv
  <2> QED
      BY <2>1, UseKeeps DEF ReleaseMode
<1>4. \/ held' = held \ {v["mode"]} /\ refused' = refused
      \/ held' = held /\ refused' = refused \cup {v["mode"]}
    BY DEF ReleaseMode
<1>5. HandlesInv' /\ Filled' = Filled \ {"mode"}
    BY <1>1, <1>2, <1>3, <1>4, ReleaseKeeps DEF Inv
<1>6. /\ StageInv /\ left' \in Nat
      /\ "pinnedSource" \in Filled' => "source" \in Filled'
      /\ "pinnedTarget" \in Filled' => "target" \in Filled'
  <2>1. left' \in Nat
    <3>1. left' = left - 1
        BY <1>1
    <3>2. left \in Nat /\ left > 0
        BY <1>2
    <3> QED
        BY <3>1, <3>2
  <2>2. StageInv /\ ("pinnedTarget" \in Filled => "target" \in Filled)
      BY DEF Inv, StageInv
  <2> QED
      BY <2>1, <2>2, <1>2, <1>5
<1>7. StageInv'
  <2>1. CASE ~ ends
    <3>1. Filled' = (Filled \ {"mode"}) \cup {}
        BY <1>5
    <3>2. InModes({})'
        BY <3>1, <2>1, <1>1, <1>2, InModesMoves
    <3> QED
        BY <3>2, <1>6, <1>1, <1>2, <2>1, ToModes DEF ModeStages
  <2>2. CASE ends /\ side = "monitor"
    <3>1. Filled' = {} /\ pc' = "returned"
        BY <2>2, <1>1, <1>2, <1>5 DEF InModes, Abandon
    <3> QED
        BY <3>1, <1>1, <1>2, <1>6
           DEF Inv, StageInv, FilledAtEnum, FilledAtCommit, Stages, EnumStages,
               CommitStages, ModeStages
  <2>3. CASE ends /\ side # "monitor"
    <3>1. pc' = "cleanup" /\ op = "enum" /\ "mode" \notin Filled'
        BY <2>3, <1>1, <1>2, <1>5 DEF Abandon
    <3> QED
        BY <3>1, <1>1, <1>2, <1>6
           DEF Inv, StageInv, FilledAtEnum, FilledAtCommit, Stages, EnumStages,
               CommitStages, ModeStages
  <2> QED
      BY <2>1, <2>2, <2>3
<1> QED
    BY <1>5, <1>7 DEF Inv

-----------------------------------------------------------------------------
(* The first step of each of the three calls.                               *)
LEMMA NoneMeans ==
    ASSUME Inv, op = "none"
    PROVE  Filled = {} /\ held = {} /\ ~ nextFailed /\ left = 0 /\ v \in [Fields -> KindNames \X Nat]
    BY DEF Inv, HandlesInv, StageInv

LEMMA StartMonitorKeeps ==
    ASSUME Inv, StartMonitor
    PROVE  Inv'
<1>1. Filled = {} /\ held = {} /\ ~ nextFailed /\ v \in [Fields -> KindNames \X Nat]
    BY NoneMeans DEF StartMonitor
<1>2. /\ op' = "monitor" /\ held' = {MonitorSet} /\ pc' = "create mode" /\ side' = "monitor"
      /\ left' = MaxModes + 1 /\ UNCHANGED <<request, v, misused, refused, nextFailed>>
    BY DEF StartMonitor, pastVars
<1>3. Filled' = {} /\ left' \in Nat /\ ~ nextFailed'
  <2>1. v' = v /\ nextFailed' = nextFailed /\ left' = MaxModes + 1
      BY <1>2
  <2>2. Filled' = {}
      BY <2>1, <1>1 DEF Filled
  <2> QED
      BY <2>1, <2>2, <1>1
<1>4. HandlesInv'
    BY <1>1, <1>2, <1>3 DEF Inv, HandlesInv, UsesHeld
<1>5. InModes({})'
    BY <1>2, <1>3 DEF InModes
<1>6. StageInv'
    BY <1>2, <1>3, <1>5
       DEF StageInv, FilledAtEnum, FilledAtCommit, Stages, EnumStages, CommitStages, ModeStages
<1> QED
    BY <1>4, <1>6 DEF Inv

LEMMA StartEnumKeeps ==
    ASSUME Inv, StartEnum
    PROVE  Inv'
<1> DEFINE h == Handle("path", 1)
<1>1. Filled = {} /\ held = {} /\ ~ nextFailed /\ left = 0 /\ v \in [Fields -> KindNames \X Nat]
    BY NoneMeans DEF StartEnum
<1>2. /\ op' = "enum" /\ UNCHANGED <<misused, refused, nextFailed, left>>
      /\ request'.paths \in 1 .. MaxPaths
  <2>1. PICK n \in Paths, pivot \in Pivots, pinned \in [Paths -> SUBSET Aspects] :
           request' = [paths |-> n, pivot |-> pivot, pinned |-> pinned]
      BY DEF StartEnum
  <2>2. request'.paths = n
      BY <2>1
  <2> QED
      BY <2>2 DEF StartEnum, pastVars, loopVars, Paths
<1>3. ~ nextFailed' /\ left' \in Nat
  <2>1. nextFailed' = nextFailed
      BY <1>2
  <2> QED
      BY <2>1, <1>1, <1>2
<1>4. UsesHeld'
    BY <1>1, <1>2, <1>3 DEF Inv, HandlesInv, UsesHeld
<1>5. h \in KindNames \X Nat /\ h[1] = "path" /\ h[2] = 1
    BY HandleIs, "path" \in KindNames DEF KindNames
<1> HIDE DEF h
<1>6. CASE v' = [v EXCEPT !["path"] = h] /\ held' = {h} /\ pc' = "source set" /\ UNCHANGED status
  <2>1. <<"path", h[1]>> \in OfField
      BY <1>5 DEF OfField
  <2>2. h # Null
      BY <2>1, KindsApart
  <2>3. v' \in [Fields -> KindNames \X Nat] /\ v'["path"] = h
        /\ \A f \in Fields \ {"path"} : v'[f] = v[f]
      BY <1>1, <1>5, <1>6 DEF Fields
  <2>4. "path" \in Fields /\ Filled' = {"path"}
      BY <1>1, <2>2, <2>3 DEF Filled, Fields
  <2>5. HandlesInv'
    <3>1. request'.paths \in 0 .. MaxPaths /\ Path' \in 1 .. request'.paths
        BY <1>2, <1>5, <2>3 DEF Path
    <3>2. \A f \in Filled' : f = "path" /\ v'[f] = h /\ v'[f] \in held'
        BY <1>6, <2>3, <2>4
    <3>3. held' \subseteq {v'[f] : f \in Filled'} /\ "temp" \notin Filled'
        BY <1>6, <2>3, <2>4
    <3> QED
        BY <3>1, <3>2, <3>3, <1>2, <1>4, <2>1, <2>3 DEF HandlesInv
  <2>6. status' = "ok"
      BY <1>6 DEF Inv, StageInv, StartEnum
  <2>7. StageInv'
      BY <1>2, <1>3, <1>6, <2>4, <2>6
         DEF StageInv, FilledAtEnum, FilledAtCommit, Stages, EnumStages, CommitStages, ModeStages
  <2> QED
      BY <2>5, <2>7 DEF Inv
<1>7. CASE pc' = "returned" /\ status' = "failed" /\ UNCHANGED <<v, held>>
  <2>1. Filled' = {}
      BY <1>1, <1>7 DEF Filled
  <2>2. HandlesInv'
      BY <1>1, <1>2, <1>4, <1>7, <2>1 DEF HandlesInv
  <2>3. StageInv'
      BY <1>2, <1>3, <1>7, <2>1
         DEF StageInv, FilledAtEnum, FilledAtCommit, Stages, EnumStages, CommitStages, ModeStages
  <2> QED
      BY <2>2, <2>3 DEF Inv
<1> QED
    BY <1>6, <1>7 DEF StartEnum, h

LEMMA StartCommitKeeps ==
    ASSUME Inv, StartCommit
    PROVE  Inv'
<1>1. Filled = {} /\ held = {} /\ ~ nextFailed /\ left = 0 /\ v \in [Fields -> KindNames \X Nat]
    BY NoneMeans DEF StartCommit
<1>2. /\ op' = "commit" /\ UNCHANGED <<v, held, misused, refused, nextFailed, left>>
      /\ request'.paths \in 0 .. MaxPaths
      /\ pc' \in {"check mode", "commit source set", "cleanup"}
    BY DEF StartCommit, pastVars, loopVars, NoRequest
<1>3. ~ nextFailed' /\ left' = 0 /\ Filled' = {} /\ left' <= request'.paths
  <2>1. nextFailed' = nextFailed /\ left' = left /\ v' = v
      BY <1>2
  <2>2. Filled' = {}
      BY <2>1, <1>1 DEF Filled
  <2>3. 0 <= request'.paths
    <3>1. request'.paths \in 0 .. MaxPaths
        BY <1>2
    <3> QED
        BY <3>1
  <2> QED
      BY <2>1, <2>2, <2>3, <1>1
<1>4. HandlesInv'
    BY <1>1, <1>2, <1>3 DEF Inv, HandlesInv, UsesHeld
<1>5. StageInv'
  <2>1. op' = "commit" /\ pc' \in {"check mode", "commit source set", "cleanup"}
      BY <1>2
  <2> QED
      BY <2>1, <1>3
         DEF StageInv, FilledAtEnum, FilledAtCommit, Stages, EnumStages, CommitStages, ModeStages
<1> QED
    BY <1>4, <1>5 DEF Inv

-----------------------------------------------------------------------------
(* The calls of CommitVidPn.                                               *)
LEMMA CommitMeans ==
    ASSUME Inv, pc \in CommitStages
    PROVE  /\ ~ nextFailed /\ op = "commit" /\ left \in Nat /\ left <= request.paths
           /\ request.paths \in Nat /\ ("pinnedSource" \in Filled => "source" \in Filled)
<1>1. request.paths \in 0 .. MaxPaths
    BY DEF Inv, HandlesInv
<1>2. request.paths \in Nat
    BY <1>1
<1> QED
    BY <1>2 DEF Inv, StageInv, FilledAtCommit, CommitStages

LEMMA CommitGoes ==
    ASSUME pc' \in CommitStages \cup {"cleanup"}, op' = "commit", ~ nextFailed', left' \in Nat,
           pc' \in CommitStages => FilledAtCommit', Filled' \subseteq Pins \cup {"path"},
           "pinnedSource" \in Filled' => "source" \in Filled'
    PROVE  StageInv'
    BY DEF StageInv, FilledAtEnum, FilledAtCommit, Stages, EnumStages, CommitStages, ModeStages,
           Pins

LEMMA AcquireCommitSetKeeps ==
    ASSUME Inv, AcquireCommitSet
    PROVE  Inv'
<1>1. pc = "commit source set" /\ Filled = {} /\ ~ nextFailed /\ op = "commit" /\ left \in Nat
      /\ left <= request.paths
    BY CommitMeans DEF Inv, StageInv, FilledAtCommit, CommitStages, AcquireCommitSet
<1>2. /\ Uses({}) /\ Acquires("source", Handle("source set", 1), "commit pinned")
      /\ UNCHANGED Rest /\ UNCHANGED <<op, nextFailed, left, request>>
    BY DEF AcquireCommitSet, Rest, loopVars, argVars, pastVars
<1> DEFINE h == Handle("source set", 1)
<1>3. h \in KindNames \X Nat /\ <<"source", h[1]>> \in OfField
  <2>1. "source set" \in KindNames /\ <<"source", "source set">> \in OfField
      BY DEF KindNames, OfField
  <2> QED
      BY <2>1, HandleIs
<1> HIDE DEF h
<1>4. "source" \in Fields \ Filled
    BY <1>1 DEF Fields
<1>5. HandlesInv' /\ (Failing \/ Going("commit pinned", Filled \cup {"source"}))
    BY <1>1, <1>2, <1>3, <1>4, AcquiresDoes DEF Inv, h
<1>6. StageInv'
  <2>1. CASE Failing
      BY <2>1, <1>1, <1>2, FailKeepsStage DEF Inv, CommitStages
  <2>2. CASE ~ Failing
    <3>1. Filled' = {"source"} /\ pc' = "commit pinned"
        BY <2>2, <1>1, <1>5 DEF Going
    <3>2. FilledAtCommit'
        BY <3>1, <1>1, <1>2 DEF FilledAtCommit
    <3> QED
        BY <3>1, <3>2, <1>1, <1>2, CommitGoes DEF Pins, CommitStages
  <2> QED
      BY <2>1, <2>2
<1> QED
    BY <1>5, <1>6 DEF Inv

LEMMA AcquireCommitModeKeeps ==
    ASSUME Inv, AcquireCommitMode
    PROVE  Inv'
<1>1. pc = "commit pinned" /\ Filled = {"source"} /\ ~ nextFailed /\ op = "commit"
      /\ left \in Nat /\ left <= request.paths
    BY CommitMeans DEF Inv, StageInv, FilledAtCommit, CommitStages, AcquireCommitMode
<1>2. /\ \/ Acquires("pinnedSource", Handle("pinned source", 1), "check mode")
         \/ Works("check mode")
      /\ Uses({v["source"]}) /\ UNCHANGED Rest /\ UNCHANGED <<op, nextFailed, left, request>>
    BY DEF AcquireCommitMode, Rest, loopVars, argVars, pastVars
<1>3. {v["source"]} \subseteq held
    BY <1>1, HeldOf DEF Inv
<1>4. HandlesInv' /\ (Failing \/ \E filled \in SUBSET Pins : Going("check mode", filled)
                                                             /\ "source" \in filled)
  <2>1. CASE Acquires("pinnedSource", Handle("pinned source", 1), "check mode")
    <3> DEFINE h == Handle("pinned source", 1)
    <3>1. "pinned source" \in KindNames /\ <<"pinnedSource", "pinned source">> \in OfField
        BY DEF KindNames, OfField
    <3>2. h \in KindNames \X Nat /\ <<"pinnedSource", h[1]>> \in OfField
        BY <3>1, HandleIs
    <3> HIDE DEF h
    <3>3. "pinnedSource" \in Fields \ Filled
        BY <1>1 DEF Fields
    <3>4. HandlesInv' /\ (Failing \/ Going("check mode", Filled \cup {"pinnedSource"}))
        BY <2>1, <1>1, <1>2, <1>3, <3>2, <3>3, AcquiresDoes DEF Inv, h
    <3>5. Filled \cup {"pinnedSource"} \in SUBSET Pins /\ "source" \in Filled \cup {"pinnedSource"}
        BY <1>1 DEF Pins
    <3> QED
        BY <3>4, <3>5
  <2>2. CASE Works("check mode")
    <3>1. HandlesInv' /\ (Failing \/ Going("check mode", Filled))
        BY <2>2, <1>1, <1>2, <1>3, WorksDoes DEF Inv
    <3>2. Filled \in SUBSET Pins /\ "source" \in Filled
        BY <1>1 DEF Pins
    <3> QED
        BY <3>1, <3>2
  <2> QED
      BY <2>1, <2>2, <1>2
<1>5. StageInv'
  <2>1. CASE Failing
      BY <2>1, <1>1, <1>2, FailKeepsStage DEF Inv, CommitStages
  <2>2. CASE ~ Failing
    <3>1. Filled' \subseteq Pins /\ pc' = "check mode" /\ "source" \in Filled'
        BY <2>2, <1>4 DEF Going
    <3>2. FilledAtCommit'
        BY <3>1, <1>1, <1>2 DEF FilledAtCommit
    <3> QED
        BY <3>1, <3>2, <1>1, <1>2, CommitGoes DEF CommitStages
  <2> QED
      BY <2>1, <2>2
<1> QED
    BY <1>4, <1>5 DEF Inv

LEMMA CheckModeKeeps ==
    ASSUME Inv, CheckMode
    PROVE  Inv'
<1>1. pc = "check mode" /\ Filled \subseteq Pins /\ ~ nextFailed /\ op = "commit"
      /\ request.paths \in Nat /\ ("pinnedSource" \in Filled => "source" \in Filled)
    BY CommitMeans DEF Inv, StageInv, FilledAtCommit, CommitStages, CheckMode
<1>2. UNCHANGED Rest /\ UNCHANGED <<op, nextFailed, request>> /\ left' = request.paths
      /\ Uses({v["pinnedSource"]} \ {Null})
    BY DEF CheckMode, Rest, argVars, pastVars
<1>3. {v["pinnedSource"]} \ {Null} \subseteq held
  <2>1. v["pinnedSource"] # Null => "pinnedSource" \in Filled
      BY DEF Filled, Fields
  <2> QED
      BY <2>1, <1>1, HeldOf DEF Inv
<1>4. CASE v["pinnedSource"] = Null
  <2>1. UNCHANGED Same /\ pc' = "cleanup"
      BY <1>2, <1>3, <1>4, UseKeeps DEF CheckMode, Same, Rest, pastVars
  <2>2. HandlesInv' /\ Filled' = Filled
      BY <2>1, <1>2, SameKeeps DEF Inv
  <2>3. StageInv'
      BY <2>1, <2>2, <1>1, <1>2, CommitGoes DEF CommitStages
  <2> QED
      BY <2>2, <2>3 DEF Inv
<1>5. CASE v["pinnedSource"] # Null
  <2>1. Works("acquire path")
      BY <1>5 DEF CheckMode
  <2>2. HandlesInv' /\ (Failing \/ Going("acquire path", Filled))
      BY <2>1, <1>2, <1>3, WorksDoes DEF Inv
  <2>3. Filled = Pins
    <3>1. "pinnedSource" \in Filled
        BY <1>5 DEF Filled, Fields
    <3> QED
        BY <3>1, <1>1 DEF Pins
  <2>4. StageInv'
    <3>1. CASE Failing
        BY <3>1, <1>1, <1>2, FailKeepsStage DEF Inv, CommitStages
    <3>2. CASE ~ Failing
      <4>1. Filled' = Pins /\ pc' = "acquire path"
          BY <3>2, <2>2, <2>3 DEF Going
      <4>2. left' \in Nat /\ left' <= request'.paths
        <5>1. left' = request.paths /\ request' = request /\ request.paths \in Nat
            BY <1>1, <1>2
        <5> QED
            BY <5>1
      <4>3. FilledAtCommit'
          BY <4>1, <4>2 DEF FilledAtCommit
      <4> QED
          BY <4>1, <4>2, <4>3, <1>1, <1>2, CommitGoes DEF CommitStages, Pins
    <3> QED
        BY <3>1, <3>2
  <2> QED
      BY <2>2, <2>4 DEF Inv
<1> QED
    BY <1>4, <1>5

LEMMA AcquireCommitPathKeeps ==
    ASSUME Inv, AcquireCommitPath
    PROVE  Inv'
<1>1. pc = "acquire path" /\ Filled = Pins /\ ~ nextFailed /\ op = "commit"
      /\ left \in Nat /\ left <= request.paths /\ request.paths \in Nat
    BY CommitMeans DEF Inv, StageInv, FilledAtCommit, CommitStages, AcquireCommitPath
<1>2. UNCHANGED Rest /\ UNCHANGED <<op, nextFailed, request, left>> /\ Uses({})
    BY DEF AcquireCommitPath, Rest, argVars, pastVars, loopVars
<1>3. CASE left = 0
  <2>1. UNCHANGED Same /\ pc' = "cleanup"
      BY <1>2, <1>3, UseKeeps DEF AcquireCommitPath, Same, Rest, pastVars
  <2>2. HandlesInv' /\ Filled' = Filled
      BY <2>1, <1>2, SameKeeps DEF Inv
  <2>3. StageInv'
      BY <2>1, <2>2, <1>1, <1>2, CommitGoes DEF CommitStages, Pins
  <2> QED
      BY <2>2, <2>3 DEF Inv
<1>4. CASE left # 0
  <2> DEFINE h == Handle("path", left)
  <2>1. Acquires("path", h, "set mode")
      BY <1>4 DEF AcquireCommitPath
  <2>2. "path" \in KindNames /\ <<"path", "path">> \in OfField
      BY DEF KindNames, OfField
  <2>3. h \in KindNames \X Nat /\ <<"path", h[1]>> \in OfField /\ h[2] = left
      BY <2>2, <1>1, HandleIs
  <2> HIDE DEF h
  <2>4. "path" \in Fields \ Filled /\ "temp" \notin Filled
      BY <1>1 DEF Fields, Pins
  <2>5. h[2] \in 1 .. request.paths /\ left > 0
    <3>1. h[2] = left /\ left \in Nat /\ left # 0
        BY <2>3, <1>1, <1>4
    <3>2. left <= request.paths /\ request.paths \in Nat
        BY <1>1
    <3> QED
        BY <3>1, <3>2
  <2>6. HandlesInv' /\ (Failing \/ (Going("set mode", Filled \cup {"path"})
                                    /\ v' = [v EXCEPT !["path"] = h]))
      BY <2>1, <2>3, <2>4, <2>5, <1>1, <1>2, AcquiresDoes DEF Inv
  <2>7. StageInv'
    <3>1. CASE Failing
        BY <3>1, <1>1, <1>2, FailKeepsStage DEF Inv, CommitStages
    <3>2. CASE ~ Failing
      <4>1. Filled' = Pins \cup {"path"} /\ pc' = "set mode"
          BY <3>2, <2>6, <1>1 DEF Going
      <4>2. v'["path"] = Handle("path", left) /\ left' > 0
        <5>1. v \in [Fields -> KindNames \X Nat] /\ "path" \in Fields
            BY <2>4 DEF Inv, HandlesInv
        <5> QED
            BY <5>1, <3>2, <2>5, <2>6, <1>2 DEF h
      <4>3. FilledAtCommit'
          BY <4>1, <4>2, <1>1, <1>2 DEF FilledAtCommit
      <4> QED
          BY <4>1, <4>3, <1>1, <1>2, CommitGoes DEF CommitStages, Pins
    <3> QED
        BY <3>1, <3>2
  <2> QED
      BY <2>6, <2>7 DEF Inv
<1> QED
    BY <1>3, <1>4

LEMMA SetModeOfPathKeeps ==
    ASSUME Inv, SetModeOfPath
    PROVE  Inv'
<1>1. pc = "set mode" /\ Filled = Pins \cup {"path"} /\ ~ nextFailed /\ op = "commit"
      /\ left \in Nat /\ left <= request.paths /\ left > 0 /\ v["path"] = Handle("path", left)
    BY CommitMeans DEF Inv, StageInv, FilledAtCommit, CommitStages, SetModeOfPath
<1>2. /\ Works("release path") /\ Uses({v["path"], v["pinnedSource"]})
      /\ UNCHANGED Rest /\ UNCHANGED <<op, nextFailed, left, request>>
    BY DEF SetModeOfPath, Rest, argVars, pastVars, loopVars
<1>3. {v["path"], v["pinnedSource"]} \subseteq held
    BY <1>1, HeldOf DEF Inv, Pins
<1>4. HandlesInv' /\ (Failing \/ (Going("release path", Filled) /\ v' = v))
    BY <1>2, <1>3, WorksDoes DEF Inv
<1>5. StageInv'
  <2>1. CASE Failing
      BY <2>1, <1>1, <1>2, FailKeepsStage DEF Inv, CommitStages
  <2>2. CASE ~ Failing
    <3>1. Filled' = Pins \cup {"path"} /\ pc' = "release path" /\ v' = v
        BY <2>2, <1>1, <1>4 DEF Going
    <3>2. FilledAtCommit'
        BY <3>1, <1>1, <1>2 DEF FilledAtCommit
    <3> QED
        BY <3>1, <3>2, <1>1, <1>2, CommitGoes DEF CommitStages, Pins
  <2> QED
      BY <2>1, <2>2
<1> QED
    BY <1>4, <1>5 DEF Inv

LEMMA ReleaseCommitPathKeeps ==
    ASSUME Inv, ReleaseCommitPath
    PROVE  Inv'
<1>1. pc = "release path" /\ Filled = Pins \cup {"path"} /\ ~ nextFailed /\ op = "commit"
      /\ left \in Nat /\ left <= request.paths /\ left > 0 /\ request.paths \in Nat
    BY CommitMeans DEF Inv, StageInv, FilledAtCommit, CommitStages, ReleaseCommitPath
<1>2. /\ Releases("path", "acquire path") /\ Uses({v["path"]}) /\ left' = left - 1
      /\ UNCHANGED Rest /\ UNCHANGED <<op, nextFailed, request>>
    BY DEF ReleaseCommitPath, Rest, argVars, pastVars
<1>3. {v["path"]} \subseteq held /\ "path" \in Filled
    BY <1>1, HeldOf DEF Inv
<1>4. HandlesInv' /\ (Failing \/ Going("acquire path", Filled \ {"path"}))
    BY <1>1, <1>2, <1>3, ReleasesDoes DEF Inv
<1>5. left' \in Nat /\ left' <= request.paths
  <2>1. left \in Nat /\ left <= request.paths /\ left > 0 /\ request.paths \in Nat
      BY <1>1
  <2>2. left' = left - 1
      BY <1>2
  <2> QED
      BY <2>1, <2>2
<1>6. StageInv'
  <2>1. CASE Failing
      BY <2>1, <1>1, <1>2, <1>5, FailKeepsStage DEF Inv, CommitStages
  <2>2. CASE ~ Failing
    <3>1. Filled' = Pins /\ pc' = "acquire path"
        BY <2>2, <1>1, <1>4 DEF Going, Pins
    <3>2. FilledAtCommit'
        BY <3>1, <1>5, <1>2 DEF FilledAtCommit
    <3> QED
        BY <3>1, <3>2, <1>1, <1>2, <1>5, CommitGoes DEF CommitStages, Pins
  <2> QED
      BY <2>1, <2>2
<1> QED
    BY <1>4, <1>6 DEF Inv

-----------------------------------------------------------------------------
(* The way out gives back every handle, a mode info before its set.         *)
LEMMA CleanupFields ==
    ASSUME op \in {"enum", "commit"}, NEW k \in DOMAIN CleanupOrder
    PROVE  /\ CleanupOrder[k] \in Fields \ {"mode"}
           /\ CleanupOrder[k] = "source" =>
                 \E j \in 1 .. k - 1 : CleanupOrder[j] = "pinnedSource"
           /\ CleanupOrder[k] = "target" =>
                 \E j \in 1 .. k - 1 : CleanupOrder[j] = "pinnedTarget"
<1>1. CASE op = "enum"
  <2>1. CleanupOrder = <<"pinnedSource", "pinnedTarget", "path", "temp", "source", "target">>
      BY <1>1 DEF CleanupOrder
  <2>2. k \in 1 .. 6
      BY <2>1
  <2>3. k > 4 => 1 \in 1 .. k - 1 /\ 2 \in 1 .. k - 1
      BY <2>2
  <2> QED
      BY <2>1, <2>2, <2>3 DEF Fields
<1>2. CASE op = "commit"
  <2>1. CleanupOrder = <<"pinnedSource", "source", "path">>
      BY <1>2 DEF CleanupOrder
  <2>2. k \in 1 .. 3
      BY <2>1
  <2>3. k = 2 => 1 \in 1 .. k - 1
      BY <2>2
  <2> QED
      BY <2>1, <2>2, <2>3 DEF Fields
<1> QED
    BY <1>1, <1>2

LEMMA CleanupCovers ==
    ASSUME op \in {"enum", "commit"}, NEW f \in Fields \ {"mode"},
           op = "commit" => f \in Pins \cup {"path"}
    PROVE  \E k \in DOMAIN CleanupOrder : CleanupOrder[k] = f
<1>1. CASE op = "enum"
  <2>1. CleanupOrder = <<"pinnedSource", "pinnedTarget", "path", "temp", "source", "target">>
      BY <1>1 DEF CleanupOrder
  <2>2. DOMAIN CleanupOrder = 1 .. 6
      BY <2>1
  <2> QED
      BY <2>1, <2>2 DEF Fields
<1>2. CASE op = "commit"
  <2>1. CleanupOrder = <<"pinnedSource", "source", "path">>
      BY <1>2 DEF CleanupOrder
  <2>2. DOMAIN CleanupOrder = 1 .. 3
      BY <2>1
  <2> QED
      BY <1>2, <2>1, <2>2 DEF Pins
<1> QED
    BY <1>1, <1>2

LEMMA CleanUpKeeps ==
    ASSUME Inv, CleanUp
    PROVE  Inv'
<1>1. /\ pc = "cleanup" /\ op \in {"enum", "commit"} /\ "mode" \notin Filled /\ left \in Nat
      /\ op = "commit" => Filled \subseteq Pins \cup {"path"}
      /\ "pinnedSource" \in Filled => "source" \in Filled
      /\ "pinnedTarget" \in Filled => "target" \in Filled
  <2>1. "mode" \notin Pins \cup {"path"}
      BY DEF Pins
  <2> QED
      BY <2>1 DEF CleanUp, Inv, StageInv
<1>2. UNCHANGED <<op, request, pc, left, nextFailed>>
    BY DEF CleanUp, argVars, loopVars
<1>3. PICK k \in DOMAIN CleanupOrder :
         /\ v[CleanupOrder[k]] # Null
         /\ \A j \in 1 .. k - 1 : v[CleanupOrder[j]] = Null
         /\ Uses(WithSet(CleanupOrder[k]))
         /\ v' = [v EXCEPT ![CleanupOrder[k]] = Null]
         /\ \/ held' = held \ {v[CleanupOrder[k]]} /\ refused' = refused
            \/ refused' = refused \cup {v[CleanupOrder[k]]} /\ held' = held
    BY DEF CleanUp
<1> DEFINE f == CleanupOrder[k]
<1>4. f \in Fields \ {"mode"} /\ f \in Filled
    BY <1>1, <1>3, CleanupFields DEF Filled
<1>5. (f = "source" => "pinnedSource" \notin Filled) /\ (f = "target" => "pinnedTarget" \notin Filled)
    BY <1>1, <1>3, CleanupFields DEF Filled
<1>6. /\ Uses(WithSet(f)) /\ v' = [v EXCEPT ![f] = Null]
      /\ \/ held' = held \ {v[f]} /\ refused' = refused
         \/ held' = held /\ refused' = refused \cup {v[f]}
    BY <1>3
<1> HIDE DEF f
<1>7. \A h \in WithSet(f) \ held : nextFailed /\ h[1] = "path"
  <2>1. CASE f = "pinnedSource"
    <3>1. v["source"] \in held /\ v["pinnedSource"] \in held
        BY <2>1, <1>1, <1>4 DEF Inv, HandlesInv
    <3> QED
        BY <3>1, <2>1 DEF WithSet
  <2>2. CASE f = "pinnedTarget"
    <3>1. v["target"] \in held /\ v["pinnedTarget"] \in held
        BY <2>2, <1>1, <1>4 DEF Inv, HandlesInv
    <3> QED
        BY <3>1, <2>2 DEF WithSet
  <2>3. CASE f \notin {"pinnedSource", "pinnedTarget"}
    <3>1. WithSet(f) = {v[f]}
        BY <2>3 DEF WithSet
    <3>2. <<f, v[f][1]>> \in OfField /\ (v[f] \in held \/ (nextFailed /\ f \in {"path", "temp"}))
        BY <1>4 DEF Inv, HandlesInv
    <3>3. f \in {"path", "temp"} => v[f][1] = "path"
        BY <3>2 DEF OfField
    <3> QED
        BY <3>1, <3>2, <3>3
  <2> QED
      BY <2>1, <2>2, <2>3
<1>8. UsesHeld'
  <2>1. misused' = misused \cup (WithSet(f) \ held) /\ nextFailed' = nextFailed
      BY <1>2, <1>6 DEF Uses
  <2>2. \A h \in misused : nextFailed /\ h[1] = "path"
      BY DEF Inv, HandlesInv, UsesHeld
  <2> QED
      BY <2>1, <2>2, <1>7 DEF UsesHeld
<1>9. HandlesInv' /\ Filled' = Filled \ {f}
    BY <1>2, <1>4, <1>6, <1>8, GiveBackKeeps DEF Inv
<1>10. StageInv'
  <2>1. /\ "mode" \notin Filled' /\ (op = "commit" => Filled' \subseteq Pins \cup {"path"})
        /\ "pinnedSource" \in Filled' => "source" \in Filled'
        /\ "pinnedTarget" \in Filled' => "target" \in Filled'
      BY <1>1, <1>5, <1>9
  <2> QED
      BY <2>1, <1>1, <1>2
         DEF Inv, StageInv, FilledAtEnum, FilledAtCommit, Stages, EnumStages, CommitStages,
             ModeStages
<1> QED
    BY <1>9, <1>10 DEF Inv

LEMMA ReturnsKeeps ==
    ASSUME Inv, Returns
    PROVE  Inv'
<1>1. /\ pc = "cleanup" /\ op \in {"enum", "commit"} /\ "mode" \notin Filled /\ left \in Nat
      /\ op = "commit" => Filled \subseteq Pins \cup {"path"}
  <2>1. "mode" \notin Pins \cup {"path"}
      BY DEF Pins
  <2> QED
      BY <2>1 DEF Returns, Inv, StageInv
<1>2. UNCHANGED Same /\ UNCHANGED <<op, left>> /\ pc' = "returned"
    BY DEF Returns, argVars, loopVars, pastVars, Same
<1>3. Filled = {}
  <2>1. ASSUME NEW f \in Filled
        PROVE  FALSE
    <3>1. f \in Fields \ {"mode"} /\ v[f] # Null
        BY <1>1 DEF Filled
    <3>2. \E k \in DOMAIN CleanupOrder : CleanupOrder[k] = f
        BY <3>1, <1>1, CleanupCovers
    <3> QED
        BY <3>1, <3>2 DEF Returns
  <2> QED
      BY <2>1
<1>4. HandlesInv' /\ Filled' = Filled
    BY <1>2, SameKeeps DEF Inv
<1>5. StageInv'
  <2>1. Filled' = {} /\ nextFailed' = nextFailed
      BY <1>2, <1>3, <1>4 DEF Same
  <2> QED
      BY <2>1, <1>1, <1>2
         DEF Inv, StageInv, FilledAtEnum, FilledAtCommit, Stages, EnumStages, CommitStages,
             ModeStages
<1> QED
    BY <1>4, <1>5 DEF Inv

LEMMA InitInv == Init => Inv
<1> SUFFICES ASSUME Init
             PROVE  Inv
    OBVIOUS
<1>1. /\ v = NoHandles /\ held = {} /\ refused = {} /\ misused = {} /\ op = "none"
      /\ pc = "called" /\ left = 0 /\ status = "ok" /\ nextFailed = FALSE /\ request.paths = 0
    BY DEF Init, NoRequest
<1>2. v \in [Fields -> KindNames \X Nat] /\ Filled = {}
    BY <1>1 DEF NoHandles, Null, KindNames, Filled
<1>3. HandlesInv
    BY <1>1, <1>2 DEF HandlesInv, UsesHeld
<1>4. StageInv
    BY <1>1, <1>2
       DEF StageInv, FilledAtEnum, FilledAtCommit, Stages, EnumStages, CommitStages, ModeStages
<1> QED
    BY <1>3, <1>4 DEF Inv

LEMMA NextInv == Inv /\ [Next]_vars => Inv'
<1> SUFFICES ASSUME Inv, [Next]_vars
             PROVE  Inv'
    OBVIOUS
<1>1. CASE UNCHANGED vars
  <2>1. UNCHANGED <<argVars, pc, v, loopVars, status, held, misused, pastVars>>
      BY <1>1 DEF vars
  <2>2. UNCHANGED <<op, request, pc, v, side, left, status, held, misused, refused, nextFailed>>
      BY <2>1 DEF argVars, loopVars, pastVars
  <2>3. Filled' = Filled
      BY <2>2 DEF Filled
  <2>4. HandlesInv'
      BY <2>2, <2>3, SameKeeps DEF Same, Inv
  <2>5. StageInv'
    <3>1. FilledAtEnum' = FilledAtEnum
        BY <2>2, <2>3 DEF FilledAtEnum, Between
    <3>2. FilledAtCommit' = FilledAtCommit
        BY <2>2, <2>3 DEF FilledAtCommit
    <3>3. InModes({})' = InModes({}) /\ InModes({"mode"})' = InModes({"mode"})
        BY <2>2, <2>3 DEF InModes, Between
    <3> QED
        BY <2>2, <2>3, <3>1, <3>2, <3>3 DEF Inv, StageInv
  <2> QED
      BY <2>4, <2>5 DEF Inv
<1>2. CASE \/ StartEnum \/ AcquireSourceSet \/ AcquirePinnedSource
           \/ ReleaseOldSource \/ CreateSourceSet \/ AssignSourceSet
           \/ AcquireTargetSet \/ AcquirePinnedTarget
           \/ ReleaseOldTarget \/ CreateTargetSet \/ AssignTargetSet
           \/ DropPinnedTarget \/ DropTargetSet \/ DropPinnedSource \/ DropSourceSet
           \/ UpdatePathSupport \/ AcquireNextPath \/ ReleaseLastPath
    BY <1>2, StartEnumKeeps, AcquireSourceSetKeeps, AcquirePinnedSourceKeeps,
       ReleaseOldSourceKeeps, CreateSourceSetKeeps, AssignSourceSetKeeps,
       AcquireTargetSetKeeps, AcquirePinnedTargetKeeps, ReleaseOldTargetKeeps,
       CreateTargetSetKeeps, AssignTargetSetKeeps, DropPinnedTargetKeeps, DropTargetSetKeeps,
       DropPinnedSourceKeeps, DropSourceSetKeeps, UpdatePathSupportKeeps, AcquireNextPathKeeps,
       ReleaseLastPathKeeps
<1>3. CASE \/ StartMonitor \/ CreateMode \/ AddMode \/ ReleaseMode
           \/ StartCommit \/ AcquireCommitSet \/ AcquireCommitMode \/ CheckMode
           \/ AcquireCommitPath \/ SetModeOfPath \/ ReleaseCommitPath
           \/ CleanUp \/ Returns
    BY <1>3, StartMonitorKeeps, CreateModeKeeps, AddModeKeeps, ReleaseModeKeeps,
       StartCommitKeeps, AcquireCommitSetKeeps, AcquireCommitModeKeeps, CheckModeKeeps,
       AcquireCommitPathKeeps, SetModeOfPathKeeps, ReleaseCommitPathKeeps, CleanUpKeeps,
       ReturnsKeeps
<1> QED
    BY <1>1, <1>2, <1>3 DEF Next

LEMMA InvHolds == Spec => []Inv
    BY InitInv, NextInv, PTL DEF Spec

(* Whatever fails, no call on dxgkrnl's interfaces is made with a handle     *)
(* that was given back, but for the path after a failed                     *)
(* pfnAcquireNextPathInfo: EnumVidPnCofuncModality, CommitVidPn and          *)
(* RecommendMonitorModes for any number of paths and modes.                  *)
THEOREM HandlesCorrect == Spec => []UsesHeld
<1>1. Inv => UsesHeld
    BY DEF Inv, HandlesInv
<1> QED
    BY <1>1, InvHolds, PTL

(* Every call has given back what it acquired when it returns, or has tried: *)
(* there is no way out of the three functions that leaks a handle.           *)
THEOREM ReturnsCorrect == Spec => []NothingHeld
<1>1. ASSUME Inv, pc = "returned"
      PROVE  held \ {MonitorSet} \subseteq refused
  <2>1. Filled = {}
      BY <1>1 DEF Inv, StageInv
  <2> QED
      BY <1>1, <2>1 DEF Inv, HandlesInv
<1>2. Inv => NothingHeld
    BY <1>1 DEF NothingHeld
<1> QED
    BY <1>2, InvHolds, PTL

-----------------------------------------------------------------------------
(* What a commit has set: the paths above the one in hand, until all are.    *)
PinnedPaths == IF "source" \in request.pinned[1] THEN 1 .. request.paths ELSE {}

CommitInv ==
    /\ op = "none" => offered = {} /\ supported = {} /\ tidied = FALSE
    /\ op # "commit" => modesSet = {}
    /\ pc \in CommitStages => status = "ok"
    /\ pc \in {"commit source set", "commit pinned"} => request.paths > 0
    /\ pc \in {"commit source set", "commit pinned", "check mode"} =>
          modesSet = {} /\ tidied = FALSE
    /\ pc = "check mode" =>
          Filled = {} \/ ("source" \in request.pinned[1] <=> "pinnedSource" \in Filled)
    /\ pc \in {"acquire path", "set mode", "release path"} => "source" \in request.pinned[1]
    /\ pc \in {"acquire path", "set mode"} => modesSet = left + 1 .. request.paths
    /\ pc = "release path" => modesSet = left .. request.paths
    /\ op = "commit" =>
          /\ status # "no more"
          /\ modesSet # {} => "source" \in request.pinned[1]
          /\ (pc = "cleanup" /\ Filled # {}) \/ (pc \in {"cleanup", "returned"} /\ tidied = TRUE) =>
                status = "failed" \/ modesSet = PinnedPaths

LEMMA CommitFails ==
    ASSUME CommitInv, op = "commit", UNCHANGED <<op, request, modesSet>>,
           pc' = "cleanup", status' = "failed"
    PROVE  CommitInv'
    BY DEF CommitInv, CommitStages

LEMMA SameKeepsCommit ==
    ASSUME CommitInv, UNCHANGED <<op, request, modesSet>>, op # "none", op # "commit",
           StageInv'
    PROVE  CommitInv'
    BY DEF CommitInv, StageInv, CommitStages

LEMMA CommitSet ==
    ASSUME Inv, CommitInv, AcquireCommitSet, Inv'
    PROVE  CommitInv'
<1>1. /\ pc = "commit source set" /\ op = "commit"
      /\ UNCHANGED <<op, request, modesSet, tidied>>
      /\ \/ pc' = "commit pinned" /\ status' = status
         \/ pc' = "cleanup" /\ status' = "failed"
    BY DEF AcquireCommitSet, Inv, StageInv, CommitStages, argVars, doneVars, pastVars,
           Acquires, Fails
<1>2. CASE pc' = "cleanup" /\ status' = "failed"
    BY <1>1, <1>2, CommitFails
<1>3. CASE pc' = "commit pinned" /\ status' = status
    BY <1>1, <1>3 DEF CommitInv, CommitStages
<1> QED
    BY <1>1, <1>2, <1>3

LEMMA CommitPinned ==
    ASSUME Inv, CommitInv, AcquireCommitMode, Inv'
    PROVE  CommitInv'
<1>1. /\ pc = "commit pinned" /\ op = "commit" /\ Filled = {"source"}
      /\ UNCHANGED <<op, request, modesSet, tidied>> /\ v \in [Fields -> KindNames \X Nat]
    BY DEF AcquireCommitMode, Inv, HandlesInv, StageInv, FilledAtCommit, CommitStages, argVars,
           doneVars, pastVars
<1>2. CASE pc' = "cleanup" /\ status' = "failed"
    BY <1>1, <1>2, CommitFails
<1>3. CASE ~ (pc' = "cleanup" /\ status' = "failed")
  <2>1. pc' = "check mode" /\ status' = status
      BY <1>3 DEF AcquireCommitMode, Acquires, Works, Fails
  <2>2. "source" \in request.pinned[1] <=> "pinnedSource" \in Filled'
    <3>1. CASE "source" \in request.pinned[1]
      <4>1. v' = [v EXCEPT !["pinnedSource"] = Handle("pinned source", 1)]
          BY <3>1, <1>3 DEF AcquireCommitMode, Acquires, Fails
      <4>2. "pinnedSource" \in Fields /\ v'["pinnedSource"] = Handle("pinned source", 1)
          BY <4>1, <1>1 DEF Fields
      <4>3. Handle("pinned source", 1) # Null
          BY DEF Handle, Null
      <4> QED
          BY <4>2, <4>3, <3>1 DEF Filled
    <3>2. CASE "source" \notin request.pinned[1]
      <4>1. v' = v
          BY <3>2, <1>3 DEF AcquireCommitMode, Works, Fails
      <4> QED
        <5>1. "pinnedSource" \notin Filled
            BY <1>1
        <5>2. Filled' = Filled
            BY <4>1 DEF Filled
        <5> QED
            BY <5>1, <5>2, <3>2
    <3> QED
        BY <3>1, <3>2
  <2> QED
      BY <1>1, <2>1, <2>2 DEF CommitInv, CommitStages
<1> QED
    BY <1>2, <1>3

LEMMA CommitChecks ==
    ASSUME Inv, CommitInv, CheckMode, Inv'
    PROVE  CommitInv'
<1>1. /\ pc = "check mode" /\ op = "commit" /\ Filled \subseteq Pins
      /\ UNCHANGED <<op, request, modesSet, tidied>> /\ left' = request.paths
      /\ request.paths \in Nat
    BY CommitMeans
       DEF CheckMode, Inv, StageInv, FilledAtCommit, CommitStages, argVars, doneVars, pastVars
<1>2. CASE pc' = "cleanup" /\ status' = "failed"
    BY <1>1, <1>2, CommitFails
<1>3. CASE ~ (pc' = "cleanup" /\ status' = "failed") /\ v["pinnedSource"] = Null
  <2>1. "pinnedSource" \notin Filled
      BY <1>3 DEF Filled
  <2>2. v' = v /\ status' = status /\ pc' = "cleanup"
      BY <1>3 DEF CheckMode
  <2>3. Filled' = Filled
      BY <2>2 DEF Filled
  <2>4. Filled # {} => modesSet = PinnedPaths
      BY <2>1, <1>1 DEF CommitInv, PinnedPaths
  <2> QED
      BY <2>2, <2>3, <2>4, <1>1 DEF CommitInv, PinnedPaths, CommitStages
<1>4. CASE ~ (pc' = "cleanup" /\ status' = "failed") /\ v["pinnedSource"] # Null
  <2>1. "pinnedSource" \in Filled
      BY <1>4 DEF Filled, Fields
  <2>2. status' = status /\ pc' = "acquire path"
      BY <1>4 DEF CheckMode, Works, Fails
  <2>3. left' + 1 .. request.paths = {}
    <3>1. left' = request.paths /\ request.paths \in Nat
        BY <1>1
    <3> QED
        BY <3>1
  <2> QED
      BY <2>1, <2>2, <2>3, <1>1 DEF CommitInv, CommitStages
<1> QED
    BY <1>2, <1>3, <1>4

LEMMA CommitAcquires ==
    ASSUME Inv, CommitInv, AcquireCommitPath, Inv'
    PROVE  CommitInv'
<1>1. /\ pc = "acquire path" /\ op = "commit"
      /\ UNCHANGED <<op, request, modesSet, tidied, left>>
    BY DEF AcquireCommitPath, Inv, StageInv, CommitStages, argVars, doneVars, pastVars, loopVars
<1>2. CASE pc' = "cleanup" /\ status' = "failed"
    BY <1>1, <1>2, CommitFails
<1>3. CASE ~ (pc' = "cleanup" /\ status' = "failed") /\ left = 0
  <2>1. status' = status /\ pc' = "cleanup"
      BY <1>3 DEF AcquireCommitPath
  <2>2. modesSet = PinnedPaths
    <3>1. modesSet = 0 + 1 .. request.paths /\ "source" \in request.pinned[1]
        BY <1>1, <1>3 DEF CommitInv
    <3> QED
        BY <3>1 DEF PinnedPaths
  <2>3. PinnedPaths' = PinnedPaths
      BY <1>1 DEF PinnedPaths
  <2> QED
      BY <2>1, <2>2, <2>3, <1>1 DEF CommitInv, CommitStages
<1>4. CASE ~ (pc' = "cleanup" /\ status' = "failed") /\ left # 0
  <2>1. status' = status /\ pc' = "set mode"
      BY <1>4 DEF AcquireCommitPath, Acquires, Fails
  <2> QED
      BY <2>1, <1>1 DEF CommitInv, CommitStages
<1> QED
    BY <1>2, <1>3, <1>4

LEMMA CommitSets ==
    ASSUME Inv, CommitInv, SetModeOfPath, Inv'
    PROVE  CommitInv'
<1>1. /\ pc = "set mode" /\ op = "commit" /\ left \in Nat /\ left <= request.paths
      /\ request.paths \in Nat /\ v["path"] = Handle("path", left)
      /\ UNCHANGED <<op, request, tidied, left>>
    BY CommitMeans
       DEF SetModeOfPath, Inv, StageInv, FilledAtCommit, CommitStages, argVars, pastVars, loopVars
<1>2. CASE pc' = "cleanup" /\ status' = "failed"
  <2>1. modesSet' = modesSet
      BY <1>2 DEF SetModeOfPath
  <2> QED
      BY <2>1, <1>1, <1>2, CommitFails
<1>3. CASE ~ (pc' = "cleanup" /\ status' = "failed")
  <2>1. status' = status /\ pc' = "release path"
      BY <1>3 DEF SetModeOfPath, Works, Fails
  <2>2. Path = left
    <3>1. Handle("path", left)[2] = left
        BY DEF Handle
    <3> QED
        BY <1>1, <3>1 DEF Path
  <2>3. status = "ok"
      BY <1>1 DEF CommitInv, CommitStages
  <2>4. modesSet' = (left + 1 .. request.paths) \cup {left}
      BY <2>1, <2>2, <2>3, <1>1 DEF SetModeOfPath, CommitInv
  <2>5. modesSet' = left .. request.paths
    <3>1. left \in Nat /\ left <= request.paths /\ request.paths \in Nat
        BY <1>1
    <3> QED
        BY <2>4, <3>1
  <2> QED
      BY <2>1, <2>5, <1>1 DEF CommitInv, CommitStages
<1> QED
    BY <1>2, <1>3

LEMMA CommitReleases ==
    ASSUME Inv, CommitInv, ReleaseCommitPath, Inv'
    PROVE  CommitInv'
<1>1. /\ pc = "release path" /\ op = "commit" /\ left \in Nat /\ left' = left - 1
      /\ UNCHANGED <<op, request, modesSet, tidied>>
    BY CommitMeans
       DEF ReleaseCommitPath, Inv, StageInv, CommitStages, argVars, doneVars, pastVars
<1>2. CASE pc' = "cleanup" /\ status' = "failed"
    BY <1>1, <1>2, CommitFails
<1>3. CASE ~ (pc' = "cleanup" /\ status' = "failed")
  <2>1. status' = status /\ pc' = "acquire path"
      BY <1>3 DEF ReleaseCommitPath, Releases, Fails
  <2>2. left' + 1 = left
    <3>1. left \in Nat /\ left' = left - 1
        BY <1>1
    <3> QED
        BY <3>1
  <2> QED
      BY <2>1, <2>2, <1>1 DEF CommitInv, CommitStages
<1> QED
    BY <1>2, <1>3

LEMMA CommitStarts ==
    ASSUME Inv, CommitInv, StartEnum \/ StartMonitor \/ StartCommit, Inv'
    PROVE  CommitInv'
<1>1. op = "none" /\ modesSet' = {} /\ tidied' = FALSE /\ status = "ok" /\ Filled = {}
  <2>1. UNCHANGED <<modesSet, tidied>> /\ op = "none"
      BY DEF StartEnum, StartMonitor, StartCommit, doneVars, pastVars
  <2> QED
      BY <2>1 DEF CommitInv, Inv, StageInv
<1>2. CASE StartEnum \/ StartMonitor
  <2>1. op' \in {"enum", "monitor"}
      BY <1>2 DEF StartEnum, StartMonitor
  <2> QED
      BY <2>1, <1>1 DEF CommitInv, CommitStages, Inv, StageInv
<1>3. CASE StartCommit
  <2>1. PICK n \in 0 .. MaxPaths, pinned \in SUBSET {"source"} :
           /\ request' = [NoRequest EXCEPT !.paths = n, !.pinned = [p \in Paths |-> pinned]]
           /\ \/ pc' = (IF n = 0 THEN "check mode" ELSE "commit source set") /\ UNCHANGED status
              \/ pc' = "cleanup" /\ status' \in {status, "failed"}
      BY <1>3 DEF StartCommit
  <2>2. request'.paths = n
      BY <2>1 DEF NoRequest
  <2>3. op' = "commit" /\ Filled' = {} /\ status' # "no more"
    <3>1. v' = v
        BY <1>3 DEF StartCommit
    <3>2. Filled' = {}
        BY <3>1, <1>1 DEF Filled
    <3> QED
        BY <3>2, <2>1, <1>1, <1>3 DEF StartCommit
  <2>4. CASE pc' = "cleanup"
      BY <2>3, <2>4, <1>1 DEF CommitInv, CommitStages
  <2>5. CASE pc' = (IF n = 0 THEN "check mode" ELSE "commit source set") /\ UNCHANGED status
    <3>1. pc' = "commit source set" => request'.paths > 0
      <4>1. pc' = "commit source set" => n # 0
          BY <2>5
      <4>2. n # 0 => n > 0
          OBVIOUS
      <4> QED
          BY <4>1, <4>2, <2>2
    <3> QED
        BY <2>3, <2>5, <3>1, <1>1 DEF CommitInv, CommitStages
  <2> QED
      BY <2>1, <2>4, <2>5
<1> QED
    BY <1>2, <1>3

LEMMA CommitCleans ==
    ASSUME Inv, CommitInv, CleanUp \/ Returns, Inv'
    PROVE  CommitInv'
<1>1. /\ UNCHANGED <<op, request, modesSet>> /\ pc = "cleanup" /\ op \in {"enum", "commit"}
      /\ pc' \in {"cleanup", "returned"}
    BY DEF CleanUp, Returns, argVars, doneVars, Inv, StageInv
<1>2. CASE op = "enum"
    BY <1>1, <1>2, SameKeepsCommit DEF Inv
<1>3. CASE op = "commit" /\ CleanUp
  <2>1. status' = status
      BY <1>3 DEF CleanUp
  <2>2. PICK k \in DOMAIN CleanupOrder : v[CleanupOrder[k]] # Null
      BY <1>3 DEF CleanUp
  <2>3. CleanupOrder[k] \in Filled
      BY <2>2, <1>1, CleanupFields DEF Filled
  <2>4. status = "failed" \/ modesSet = PinnedPaths
      BY <2>3, <1>1, <1>3 DEF CommitInv
  <2>5. PinnedPaths' = PinnedPaths
      BY <1>1 DEF PinnedPaths
  <2> QED
      BY <2>1, <2>4, <2>5, <1>1, <1>3 DEF CommitInv, CommitStages
<1>4. CASE op = "commit" /\ Returns
  <2>1. status' = status /\ tidied' = tidied /\ pc' = "returned"
      BY <1>1, <1>4 DEF Returns, pastVars, CommitInv
  <2>2. PinnedPaths' = PinnedPaths
      BY <1>1 DEF PinnedPaths
  <2> QED
      BY <2>1, <2>2, <1>1, <1>4 DEF CommitInv, CommitStages
<1> QED
    BY <1>1, <1>2, <1>3, <1>4

LEMMA CommitInit == Init => CommitInv
    BY DEF Init, CommitInv, CommitStages

LEMMA CommitNext == Inv /\ CommitInv /\ [Next]_vars => CommitInv'
<1> SUFFICES ASSUME Inv, CommitInv, [Next]_vars
             PROVE  CommitInv'
    OBVIOUS
<1>1. Inv'
    BY NextInv
<1>2. CASE UNCHANGED vars
  <2>1. UNCHANGED <<op, request, pc, v, left, status, offered, supported, modesSet, tidied>>
      BY <1>2 DEF vars, argVars, doneVars, loopVars, pastVars
  <2>2. Filled' = Filled /\ PinnedPaths' = PinnedPaths
      BY <2>1 DEF Filled, PinnedPaths
  <2> QED
      BY <2>1, <2>2 DEF CommitInv
<1>3. CASE \/ AcquireSourceSet \/ AcquirePinnedSource
           \/ ReleaseOldSource \/ CreateSourceSet \/ AssignSourceSet
           \/ AcquireTargetSet \/ AcquirePinnedTarget
           \/ ReleaseOldTarget \/ CreateTargetSet \/ AssignTargetSet
           \/ DropPinnedTarget \/ DropTargetSet \/ DropPinnedSource \/ DropSourceSet
           \/ UpdatePathSupport \/ AcquireNextPath \/ ReleaseLastPath
  <2>1. UNCHANGED <<op, request, modesSet>> /\ pc \in EnumStages
      BY <1>3 DEF AcquireSourceSet, AcquirePinnedSource, ReleaseOldSource, CreateSourceSet,
         AssignSourceSet, AcquireTargetSet, AcquirePinnedTarget, ReleaseOldTarget,
         CreateTargetSet, AssignTargetSet, DropPinnedTarget, DropTargetSet, DropPinnedSource,
         DropSourceSet, UpdatePathSupport, AcquireNextPath, ReleaseLastPath, argVars, doneVars,
         EnumStages
  <2> QED
      BY <2>1, <1>1, SameKeepsCommit DEF Inv, StageInv
<1>4. CASE CreateMode \/ AddMode \/ ReleaseMode
  <2>1. UNCHANGED <<op, request, modesSet>> /\ pc \in ModeStages
      BY <1>4 DEF CreateMode, AddMode, ReleaseMode, argVars, doneVars, ModeStages
  <2>2. op \in {"enum", "monitor"}
      BY <2>1, InModesMeans
  <2> QED
      BY <2>1, <2>2, <1>1, SameKeepsCommit DEF Inv
<1>5. CASE \/ StartEnum \/ StartMonitor \/ StartCommit \/ CleanUp \/ Returns
           \/ AcquireCommitSet \/ AcquireCommitMode \/ CheckMode
           \/ AcquireCommitPath \/ SetModeOfPath \/ ReleaseCommitPath
    BY <1>1, <1>5, CommitStarts, CommitCleans, CommitSet, CommitPinned, CommitChecks,
       CommitAcquires, CommitSets, CommitReleases
<1> QED
    BY <1>2, <1>3, <1>4, <1>5 DEF Next

TidiedInv == tidied \in BOOLEAN

LEMMA TidiedBoolean == Spec => []TidiedInv
<1>1. Init => TidiedInv
    BY DEF Init, TidiedInv
<1>2. TidiedInv /\ [Next]_vars => TidiedInv'
  <2>1. ASSUME [Next]_vars
        PROVE  tidied' = tidied \/ tidied' = TRUE
    <3>1. CASE \/ UNCHANGED vars
               \/ StartEnum \/ AcquireSourceSet \/ AcquirePinnedSource
               \/ ReleaseOldSource \/ CreateSourceSet \/ AssignSourceSet
               \/ AcquireTargetSet \/ AcquirePinnedTarget
               \/ ReleaseOldTarget \/ CreateTargetSet \/ AssignTargetSet
               \/ DropPinnedTarget \/ DropTargetSet \/ DropPinnedSource \/ DropSourceSet
               \/ UpdatePathSupport \/ AcquireNextPath \/ ReleaseLastPath
        BY <3>1
           DEF vars, StartEnum, AcquireSourceSet, AcquirePinnedSource, ReleaseOldSource,
               CreateSourceSet, AssignSourceSet, AcquireTargetSet, AcquirePinnedTarget,
               ReleaseOldTarget, CreateTargetSet, AssignTargetSet, DropPinnedTarget,
               DropTargetSet, DropPinnedSource, DropSourceSet, UpdatePathSupport,
               AcquireNextPath, ReleaseLastPath, pastVars
    <3>2. CASE \/ StartMonitor \/ CreateMode \/ AddMode \/ ReleaseMode
               \/ StartCommit \/ AcquireCommitSet \/ AcquireCommitMode \/ CheckMode
               \/ AcquireCommitPath \/ SetModeOfPath \/ ReleaseCommitPath
               \/ CleanUp \/ Returns
        BY <3>2
           DEF StartMonitor, CreateMode, AddMode, ReleaseMode, StartCommit, AcquireCommitSet,
               AcquireCommitMode, CheckMode, AcquireCommitPath, SetModeOfPath,
               ReleaseCommitPath, CleanUp, Returns, pastVars
    <3> QED
        BY <2>1, <3>1, <3>2 DEF Next
  <2> QED
      BY <2>1 DEF TidiedInv
<1> QED
    BY <1>1, <1>2, PTL DEF Spec

(* What a failing commit leaves behind: the paths before the one it failed   *)
(* at, in the loop's order, and all of them only after a refused release.     *)
FailedInv ==
    op = "commit" /\ status = "failed" /\ modesSet # {} =>
       \E p \in 1 .. request.paths :
          modesSet = p .. request.paths /\ (p = 1 => unreleased = TRUE)

SettingPath == pc \in {"set mode", "release path"}

LEMMA HandPath ==
    ASSUME Inv, SettingPath
    PROVE  left # 0
<1>1. left \in Nat /\ left > 0
    BY DEF Inv, StageInv, FilledAtCommit, SettingPath
<1> QED
    BY <1>1

LEMMA FailedNext == Inv /\ CommitInv /\ FailedInv /\ [Next]_vars => FailedInv'
<1> SUFFICES ASSUME Inv, CommitInv, FailedInv, [Next]_vars
             PROVE  FailedInv'
    OBVIOUS
<1>0. StageInv /\ StageInv' /\ CommitInv'
    BY NextInv, CommitNext DEF Inv
<1>1. CASE UNCHANGED vars
  <2>1. UNCHANGED <<op, request, status, modesSet, unreleased>>
      BY <1>1 DEF vars, argVars, doneVars, pastVars
  <2> QED
      BY <2>1 DEF FailedInv
<1>2. CASE StartEnum
    BY <1>2 DEF StartEnum, FailedInv
<1>3. CASE \/ AcquireSourceSet \/ AcquirePinnedSource
           \/ ReleaseOldSource \/ CreateSourceSet \/ AssignSourceSet
           \/ AcquireTargetSet \/ AcquirePinnedTarget
           \/ ReleaseOldTarget \/ CreateTargetSet \/ AssignTargetSet
           \/ DropPinnedTarget \/ DropTargetSet \/ DropPinnedSource \/ DropSourceSet
           \/ UpdatePathSupport \/ AcquireNextPath \/ ReleaseLastPath
  <2>1. op' = op /\ pc \in EnumStages
      BY <1>3 DEF AcquireSourceSet, AcquirePinnedSource, ReleaseOldSource,
         CreateSourceSet, AssignSourceSet, AcquireTargetSet, AcquirePinnedTarget,
         ReleaseOldTarget, CreateTargetSet, AssignTargetSet, DropPinnedTarget, DropTargetSet,
         DropPinnedSource, DropSourceSet, UpdatePathSupport, AcquireNextPath, ReleaseLastPath,
         argVars, EnumStages
  <2>2. op' = "enum"
      BY <2>1, <1>0 DEF StageInv
  <2> QED
      BY <2>2 DEF FailedInv
<1>4. CASE StartMonitor \/ CreateMode \/ AddMode \/ ReleaseMode
  <2>1. op' = "monitor" \/ (op' = op /\ pc \in ModeStages)
      BY <1>4 DEF StartMonitor, CreateMode, AddMode, ReleaseMode, argVars, ModeStages
  <2>2. op' \in {"enum", "monitor"}
      BY <2>1, InModesMeans
  <2> QED
      BY <2>2 DEF FailedInv
<1>5. CASE StartCommit \/ AcquireCommitSet \/ AcquireCommitMode \/ CheckMode
  <2>1. modesSet = {} /\ modesSet' = modesSet
    <3>1. op = "none" \/ pc \in {"commit source set", "commit pinned", "check mode"}
        BY <1>5 DEF StartCommit, AcquireCommitSet, AcquireCommitMode, CheckMode
    <3>2. modesSet' = modesSet
        BY <1>5 DEF StartCommit, AcquireCommitSet, AcquireCommitMode, CheckMode, doneVars
    <3> QED
        BY <3>1, <3>2 DEF CommitInv
  <2> QED
      BY <2>1 DEF FailedInv
<1>6. CASE AcquireCommitPath \/ SetModeOfPath
  <2>1. /\ pc \in {"acquire path", "set mode"} /\ op = "commit"
        /\ left \in Nat /\ request.paths \in Nat
        /\ UNCHANGED <<op, request, left, unreleased>>
      BY <1>6, CommitMeans
         DEF AcquireCommitPath, SetModeOfPath, CommitStages, argVars, pastVars, loopVars
  <2>2. status = "ok" /\ modesSet = left + 1 .. request.paths
      BY <2>1 DEF CommitInv, CommitStages
  <2>3. CASE status' = "failed"
    <3>1. modesSet' = left + 1 .. request.paths /\ left # 0
      <4>1. CASE AcquireCommitPath
          BY <4>1, <2>2, <2>3 DEF AcquireCommitPath, doneVars
      <4>2. CASE SetModeOfPath
        <5>1. left # 0
            BY <4>2, <2>1, HandPath DEF SetModeOfPath, SettingPath
        <5> QED
            BY <5>1, <4>2, <2>2, <2>3 DEF SetModeOfPath
      <4> QED
          BY <4>1, <4>2, <1>6
    <3>2. CASE left + 1 <= request.paths
      <4>1. left + 1 \in 1 .. request.paths /\ left + 1 # 1
        <5>1. left \in Nat /\ left # 0 /\ request.paths \in Nat
            BY <3>1, <2>1
        <5> QED
            BY <5>1, <3>2
      <4> QED
          BY <4>1, <3>1, <2>1 DEF FailedInv
    <3>3. CASE ~ (left + 1 <= request.paths)
      <4>1. left + 1 .. request.paths = {}
        <5>1. left \in Nat /\ request.paths \in Nat
            BY <2>1
        <5> QED
            BY <5>1, <3>3
      <4> QED
          BY <4>1, <3>1 DEF FailedInv
    <3> QED
        BY <3>2, <3>3
  <2> QED
      BY <2>3 DEF FailedInv
<1>7. CASE ReleaseCommitPath
  <2>1. /\ pc = "release path" /\ op = "commit" /\ UNCHANGED <<op, request, modesSet>>
        /\ left \in Nat /\ left <= request.paths /\ request.paths \in Nat
      BY <1>7, CommitMeans DEF ReleaseCommitPath, CommitStages, argVars, doneVars
  <2>2. modesSet = left .. request.paths /\ left # 0
      BY <2>1, HandPath DEF CommitInv, SettingPath
  <2>3. left \in 1 .. request.paths
    <3>1. left \in Nat /\ left <= request.paths /\ request.paths \in Nat /\ left # 0
        BY <2>1, <2>2
    <3> QED
        BY <3>1
  <2>4. status' = "failed" => unreleased' = TRUE
      BY <1>7 DEF ReleaseCommitPath
  <2> QED
      BY <2>1, <2>2, <2>3, <2>4 DEF FailedInv
<1>8. CASE CleanUp \/ Returns
  <2>1. UNCHANGED <<op, request, modesSet, unreleased>>
      BY <1>8 DEF CleanUp, Returns, argVars, doneVars, pastVars
  <2>2. status' = "failed" => status = "failed"
      BY <1>8 DEF CleanUp, Returns
  <2> QED
      BY <2>1, <2>2 DEF FailedInv
<1> QED
    BY <1>1, <1>2, <1>3, <1>4, <1>5, <1>6, <1>7, <1>8 DEF Next

(* CommitVidPn sets the pinned mode on every path of the topology or fails,  *)
(* whatever the number of paths; where it fails the paths it came past have  *)
(* the mode; and no other call sets one.                                     *)
THEOREM CommitCorrect == Spec => []CommitSetsModes
<1>1. CommitInv /\ TidiedInv /\ FailedInv => CommitSetsModes
  <2> SUFFICES ASSUME CommitInv, TidiedInv, FailedInv
               PROVE  CommitSetsModes
      OBVIOUS
  <2>1. modesSet # {} => op = "commit" /\ "source" \in request.pinned[1]
      BY DEF CommitInv
  <2>2. op = "commit" /\ pc = "returned" /\ status = "ok" /\ tidied = TRUE => modesSet = PinnedPaths
      BY DEF CommitInv
  <2>3. op = "commit" /\ pc = "returned" /\ status = "failed" /\ modesSet # {} =>
           \E p \in 1 .. request.paths :
              modesSet = p .. request.paths /\ (p = 1 => unreleased)
      BY DEF FailedInv
  <2> QED
      BY <2>1, <2>2, <2>3 DEF CommitSetsModes, PinnedPaths, TidiedInv
<1>2. Init => FailedInv
    BY DEF Init, FailedInv
<1>3. Spec => [](CommitInv /\ FailedInv)
    BY <1>2, InitInv, NextInv, CommitInit, CommitNext, FailedNext, PTL DEF Spec
<1> QED
    BY <1>1, <1>3, TidiedBoolean, PTL

-----------------------------------------------------------------------------
(* What is asked of EnumVidPnCofuncModality, and what it has made of it.     *)
Asked == {"source", "target", "scaling"}
Wanted(a, p) ==
    /\ a \notin request.pinned[p]
    /\ ~ (request.pivot.kind = a
          /\ p = IF a = "target" THEN request.pivot.target ELSE request.pivot.source)
Made(a, p) == <<a, p>> \in IF a = "scaling" THEN supported ELSE offered

(* Done for the paths below c, and at c for all but what is still open.      *)
MadeUpTo(c, open) ==
    \A a \in Asked, p \in Paths :
        Made(a, p) <=> Wanted(a, p) /\ (p < c \/ (p = c /\ a \notin open))
AllMade == \A a \in Asked, p \in 1 .. request.paths : Made(a, p) <=> Wanted(a, p)

(* Where the loop over the paths stands.                                    *)
AtSource == pc \in {"source set", "pinned source"}
InSource == \/ pc \in {"old source", "new source", "assign source"}
            \/ pc \in ModeStages /\ side = "source"
AtTarget == pc \in {"target set", "pinned target"}
InTarget == \/ pc \in {"old target", "new target", "assign target"}
            \/ pc \in ModeStages /\ side = "target"
AtSupport == pc \in {"drop pinned target", "drop target set", "drop pinned source",
                     "drop source set", "support"}
AtNext == pc \in {"next path", "drop path"}

Current == IF pc = "drop path" THEN v["temp"][2] ELSE Path
Open == {a \in Asked : \/ AtSource \/ InSource
                       \/ (AtTarget \/ InTarget) /\ a # "source"
                       \/ AtSupport /\ a = "scaling"}

EnumInv ==
    op = "enum" =>
        /\ PivotOK(request.pivot, request.paths)
        /\ offered \subseteq {"source", "target"} \X (1 .. request.paths)
        /\ pc \notin {"cleanup", "returned"} => MadeUpTo(Current, Open)
        /\ InSource => Wanted("source", Path)
        /\ AtTarget => ~ TargetIsPivot
        /\ InTarget => Wanted("target", Path)
        /\ pc = "drop path" => IF status = "no more" THEN v["temp"][2] = request.paths
                                                     ELSE Path = v["temp"][2] + 1
        /\ pc = "cleanup" => status \in {"no more", "failed"}
        /\ (pc = "cleanup" /\ status = "no more") \/ (pc = "returned" /\ status = "ok") => AllMade

LEMMA OpenIs ==
    ASSUME AtSource \/ InSource \/ AtTarget \/ InTarget \/ AtSupport \/ AtNext
    PROVE  Open = IF AtSource \/ InSource THEN Asked
                  ELSE IF AtTarget \/ InTarget THEN {"target", "scaling"}
                  ELSE IF AtSupport THEN {"scaling"} ELSE {}
    BY DEF Open, Asked, AtSupport, AtTarget, InTarget, AtSource, InSource, AtNext, ModeStages

(* How the calls leave the path in hand.                                    *)
Stops == pc' = "cleanup" /\ status' = "failed"
Moves(next) == pc' = next /\ status' = status /\ Path' = Path

LEMMA Outcome ==
    ASSUME Inv, NEW f, f # "path", NEW h, NEW next,
           Acquires(f, h, next) \/ Releases(f, next) \/ Works(next) \/ Skips(next)
    PROVE  Stops \/ Moves(next)
<1>1. v \in [Fields -> KindNames \X Nat] /\ "path" \in Fields
    BY DEF Inv, HandlesInv, Fields
<1>2. CASE v' = v
    BY <1>2 DEF Acquires, Releases, Works, Skips, Fails, Stops, Moves, Path
<1>3. CASE \E x : v' = [v EXCEPT ![f] = x]
  <2>1. v'["path"] = v["path"]
      BY <1>1, <1>3
  <2> QED
      BY <2>1 DEF Acquires, Releases, Works, Skips, Fails, Stops, Moves, Path
<1> QED
    BY <1>2, <1>3 DEF Acquires, Releases, Works, Skips, Fails

LEMMA OutcomeWorks ==
    ASSUME NEW next, Works(next)
    PROVE  Stops \/ Moves(next)
    BY DEF Works, Fails, Stops, Moves, Path

LEMMA EnumFails ==
    ASSUME EnumInv, op = "enum", UNCHANGED <<op, request, offered>>, Stops
    PROVE  EnumInv'
    BY DEF EnumInv, Stops, InSource, AtTarget, InTarget, ModeStages

Looping == pc \notin {"drop path", "cleanup", "returned"}

LEMMA EnumStays ==
    ASSUME EnumInv, op = "enum", UNCHANGED <<op, request, offered, supported>>,
           Looping, Looping', Path' = Path, Open' \subseteq Open,
           \A a \in Open \ Open' : ~ Wanted(a, Path),
           InSource' => Wanted("source", Path), AtTarget' => ~ TargetIsPivot,
           InTarget' => Wanted("target", Path)
    PROVE  EnumInv'
<1>1. Current = Path /\ Current' = Path
    BY DEF Looping, Current
<1>2. MadeUpTo(Path, Open)
    BY <1>1 DEF EnumInv, Looping
<1>3. \A a, p : /\ Wanted(a, p)' <=> Wanted(a, p)
                /\ Made(a, p)' <=> Made(a, p)
    BY DEF Wanted, Made
<1>4. MadeUpTo(Path, Open)'
  <2>1. Paths' = Paths /\ Asked' = Asked
      BY DEF Paths, Asked
  <2>2. ASSUME NEW a \in Asked, NEW p \in Paths
        PROVE  Made(a, p)' <=> Wanted(a, p)' /\ (p < Path' \/ (p = Path' /\ a \notin Open'))
    <3>1. Made(a, p) <=> Wanted(a, p) /\ (p < Path \/ (p = Path /\ a \notin Open))
        BY <1>2 DEF MadeUpTo
    <3>2. p = Path /\ Wanted(a, p) => (a \in Open <=> a \in Open')
        OBVIOUS
    <3> QED
        BY <3>1, <3>2, <1>3
  <2> QED
      BY <2>1, <2>2 DEF MadeUpTo
<1>5. (pc \notin {"cleanup", "returned"} => MadeUpTo(Current, Open))'
    BY <1>1, <1>4
<1> QED
    BY <1>1, <1>3, <1>5 DEF EnumInv, Looping, TargetIsPivot

(* Calls that stay with the source, with the target or with the clean-up.    *)
LEMMA EnumSameGroup ==
    ASSUME EnumInv, op = "enum", UNCHANGED <<op, request, offered, supported>>,
           Looping, Looping', Path' = Path,
           InSource' => InSource, AtTarget' => AtTarget, InTarget' => InTarget,
           \/ (AtSource \/ InSource) /\ (AtSource \/ InSource)'
           \/ (AtTarget \/ InTarget) /\ (AtTarget \/ InTarget)'
           \/ AtSupport /\ AtSupport'
    PROVE  EnumInv'
<1>1. Open' = Open
  <2>1. CASE (AtSource \/ InSource) /\ (AtSource \/ InSource)'
      BY <2>1 DEF Open, Asked
  <2>2. CASE (AtTarget \/ InTarget) /\ (AtTarget \/ InTarget)'
      BY <2>2 DEF Open, AtSource, InSource, AtTarget, InTarget, AtSupport, ModeStages
  <2>3. CASE AtSupport /\ AtSupport'
      BY <2>3 DEF Open, AtSource, InSource, AtTarget, InTarget, AtSupport, ModeStages
  <2> QED
      BY <2>1, <2>2, <2>3
<1> QED
    BY <1>1, EnumStays DEF EnumInv

SamePairs == {<<"source set", "pinned source">>, <<"old source", "new source">>,
              <<"target set", "pinned target">>, <<"old target", "new target">>,
              <<"drop pinned target", "drop target set">>,
              <<"drop target set", "drop pinned source">>,
              <<"drop pinned source", "drop source set">>, <<"drop source set", "support">>}

(* The calls that neither offer modes nor decide on what follows.           *)
LEMMA EnumSimple ==
    ASSUME Inv, EnumInv,
           \/ AcquireSourceSet \/ ReleaseOldSource \/ AcquireTargetSet \/ ReleaseOldTarget
           \/ DropPinnedTarget \/ DropTargetSet \/ DropPinnedSource \/ DropSourceSet
    PROVE  EnumInv'
<1>1. /\ pc \in EnumStages /\ UNCHANGED <<op, request, offered, supported>>
      /\ \E to, f, h : /\ <<pc, to>> \in SamePairs /\ f # "path"
                       /\ Acquires(f, h, to) \/ Releases(f, to) \/ Skips(to)
    BY DEF AcquireSourceSet, ReleaseOldSource, AcquireTargetSet, ReleaseOldTarget,
           DropPinnedTarget, DropTargetSet, DropPinnedSource, DropSourceSet, argVars, doneVars,
           SamePairs, EnumStages
<1>2. op = "enum"
    BY <1>1 DEF Inv, StageInv
<1>3. PICK to : <<pc, to>> \in SamePairs /\ (Stops \/ Moves(to))
    BY <1>1, Outcome
<1>4. CASE Stops
    BY <1>1, <1>2, <1>4, EnumFails
<1>5. CASE Moves(to)
  <2>1. <<pc, pc'>> \in SamePairs
      BY <1>3, <1>5 DEF Moves
  <2>2. /\ InSource' => InSource
        /\ AtTarget' => AtTarget
        /\ InTarget' => InTarget
        /\ \/ (AtSource \/ InSource) /\ (AtSource \/ InSource)'
           \/ (AtTarget \/ InTarget) /\ (AtTarget \/ InTarget)'
           \/ AtSupport /\ AtSupport'
        /\ Looping /\ Looping'
      BY <2>1 DEF SamePairs, AtSource, InSource, AtTarget, InTarget, AtSupport, Looping, ModeStages
  <2> QED
      BY <1>1, <1>2, <1>5, <2>2, EnumSameGroup DEF Moves
<1> QED
    BY <1>3, <1>4, <1>5

(* A new mode set, its modes one by one, and back.                          *)
LEMMA EnumModes ==
    ASSUME Inv, EnumInv, op = "enum", CreateSourceSet \/ CreateTargetSet
    PROVE  EnumInv'
<1>1. /\ UNCHANGED <<op, request, offered, supported>>
      /\ \E f, h : f # "path" /\ Acquires(f, h, "create mode")
    BY DEF CreateSourceSet, CreateTargetSet, argVars, doneVars
<1>2. Stops \/ Moves("create mode")
    BY <1>1, Outcome
<1>3. CASE Stops
    BY <1>1, <1>3, EnumFails
<1>4. CASE Moves("create mode")
  <2>1. /\ pc' = "create mode"
        /\ \/ pc = "new source" /\ side' = "source"
           \/ pc = "new target" /\ side' = "target"
      BY <1>4 DEF CreateSourceSet, CreateTargetSet, Moves
  <2>2. /\ InSource' => InSource
        /\ AtTarget' => AtTarget
        /\ InTarget' => InTarget
        /\ \/ (AtSource \/ InSource) /\ (AtSource \/ InSource)'
           \/ (AtTarget \/ InTarget) /\ (AtTarget \/ InTarget)'
        /\ Looping /\ Looping'
      BY <2>1 DEF AtSource, InSource, AtTarget, InTarget, AtSupport, Looping, ModeStages
  <2> QED
      BY <1>1, <1>4, <2>2, EnumSameGroup DEF Moves
<1> QED
    BY <1>2, <1>3, <1>4

LEMMA EnumMode ==
    ASSUME Inv, EnumInv, op = "enum", CreateMode \/ AddMode \/ ReleaseMode
    PROVE  EnumInv'
<1>1. /\ UNCHANGED <<op, request, offered, supported, side>> /\ pc \in ModeStages
    BY DEF CreateMode, AddMode, ReleaseMode, argVars, doneVars, loopVars, ModeStages
<1>2. side \in {"source", "target"} /\ v \in [Fields -> KindNames \X Nat]
    BY <1>1, InModesMeans DEF Inv, HandlesInv
<1>3. v'["path"] = v["path"]
  <2>1. v' = v \/ \E x : v' = [v EXCEPT !["mode"] = x]
      BY DEF CreateMode, AddMode, ReleaseMode, Skips
  <2> QED
      BY <2>1, <1>2 DEF Fields
<1>4. Stops \/ pc' \in ModeStages \/ pc' = FromModes
  <2>1. CASE CreateMode
      BY <2>1, <1>2 DEF CreateMode, Skips, Abandon, Stops, ModeStages
  <2>2. CASE AddMode
      BY <2>2 DEF AddMode, ModeStages
  <2>3. CASE ReleaseMode
    <3>1. ~ Preferred
        BY <1>2 DEF Preferred
    <3> QED
        BY <2>3, <3>1, <1>2 DEF ReleaseMode, Abandon, Stops, ModeStages
  <2> QED
      BY <2>1, <2>2, <2>3
<1>5. CASE Stops
    BY <1>1, <1>5, EnumFails
<1>6. CASE pc' \in ModeStages \/ pc' = FromModes
  <2>1. pc' \in ModeStages \/ pc' = IF side = "source" THEN "assign source" ELSE "assign target"
      BY <1>2, <1>6 DEF FromModes
  <2>2. /\ InSource' => InSource
        /\ AtTarget' => AtTarget
        /\ InTarget' => InTarget
        /\ \/ (AtSource \/ InSource) /\ (AtSource \/ InSource)'
           \/ (AtTarget \/ InTarget) /\ (AtTarget \/ InTarget)'
        /\ Looping /\ Looping'
      BY <2>1, <1>1, <1>2 DEF AtSource, InSource, AtTarget, InTarget, Looping, ModeStages
  <2> QED
      BY <1>1, <1>3, <2>2, EnumSameGroup DEF Path
<1> QED
    BY <1>4, <1>5, <1>6

(* What is pinned, or is the pivot, is left as it is.                       *)
LEMMA InRange ==
    ASSUME NEW m \in 0 .. MaxPaths, NEW p \in 1 .. m
    PROVE  m \in Nat /\ p \in 1 .. MaxPaths
    OBVIOUS

LEMMA PathInHand ==
    ASSUME Inv, pc \in EnumStages \ {"drop path"}
    PROVE  /\ op = "enum" /\ status = "ok" /\ Path \in 1 .. request.paths
           /\ request.paths \in Nat /\ Path \in Paths
<1>1. op = "enum" /\ status = "ok" /\ "path" \in Filled
    BY DEF Inv, StageInv, FilledAtEnum, Between, EnumStages
<1>2. request.paths \in 0 .. MaxPaths /\ Path \in 1 .. request.paths
    BY <1>1 DEF Inv, HandlesInv
<1> QED
    BY <1>1, <1>2, InRange DEF Paths

LEMMA EnumLeavesSource ==
    ASSUME EnumInv, op = "enum", UNCHANGED <<op, request, offered, supported>>,
           pc = "pinned source", Moves(AfterSource), ~ Wanted("source", Path)
    PROVE  EnumInv'
<1>1. Open = Asked
    BY DEF Open, AtSource
<1>2. CASE TargetIsPivot
  <2>1. pc' = "drop pinned source" /\ Path' = Path
      BY <1>2 DEF Moves, AfterSource
  <2>2. ~ Wanted("target", Path)
      BY <1>2 DEF Wanted, TargetIsPivot
  <2>3. /\ ~ InSource' /\ ~ AtTarget' /\ ~ InTarget' /\ Looping /\ Looping'
        /\ Open' = {"scaling"}
      BY <2>1 DEF AtSource, InSource, AtTarget, InTarget, AtSupport, Looping, ModeStages, Open,
         Asked
  <2>4. \A a \in Open \ Open' : ~ Wanted(a, Path)
      BY <1>1, <2>2, <2>3 DEF Asked
  <2> QED
      BY <1>1, <2>1, <2>3, <2>4, EnumStays DEF Asked
<1>3. CASE ~ TargetIsPivot
  <2>1. pc' = "target set" /\ Path' = Path
      BY <1>3 DEF Moves, AfterSource
  <2>2. /\ ~ InSource' /\ ~ InTarget' /\ Looping /\ Looping'
        /\ Open' = {"target", "scaling"}
      BY <2>1 DEF AtSource, InSource, AtTarget, InTarget, AtSupport, Looping, ModeStages, Open,
         Asked
  <2>3. \A a \in Open \ Open' : ~ Wanted(a, Path)
      BY <1>1, <2>2 DEF Asked
  <2> QED
      BY <1>1, <1>3, <2>1, <2>2, <2>3, EnumStays DEF Asked
<1> QED
    BY <1>2, <1>3

LEMMA EnumPinnedSource ==
    ASSUME Inv, EnumInv, AcquirePinnedSource
    PROVE  EnumInv'
<1>1. pc = "pinned source" /\ UNCHANGED <<op, request, offered, supported>> /\ op = "enum"
    BY PathInHand DEF AcquirePinnedSource, argVars, doneVars, EnumStages
<1>2. CASE Pinned("source") \/ SourceIsPivot
  <2>1. Stops \/ Moves(AfterSource)
    <3>1. CASE Pinned("source")
        BY <3>1, Outcome DEF AcquirePinnedSource
    <3>2. CASE ~ Pinned("source") /\ SourceIsPivot
        BY <3>2, OutcomeWorks DEF AcquirePinnedSource
    <3> QED
        BY <1>2, <3>1, <3>2
  <2>2. ~ Wanted("source", Path)
      BY <1>2 DEF Pinned, SourceIsPivot, Wanted
  <2> QED
      BY <1>1, <2>1, <2>2, EnumFails, EnumLeavesSource
<1>3. CASE ~ (Pinned("source") \/ SourceIsPivot)
  <2>1. Stops \/ Moves("old source")
      BY <1>3, OutcomeWorks DEF AcquirePinnedSource
  <2>2. Wanted("source", Path)
      BY <1>3 DEF Pinned, SourceIsPivot, Wanted
  <2>3. CASE Moves("old source")
    <3>1. pc' = "old source" /\ Path' = Path
        BY <2>3 DEF Moves
    <3>2. /\ ~ AtTarget' /\ ~ InTarget' /\ Looping /\ Looping' /\ Open' = Open
        BY <1>1, <3>1 DEF AtSource, InSource, AtTarget, InTarget, AtSupport, Looping,
           ModeStages, Open, Asked
    <3> QED
        BY <1>1, <2>2, <3>1, <3>2, EnumStays
  <2> QED
      BY <1>1, <2>1, <2>3, EnumFails
<1> QED
    BY <1>2, <1>3

LEMMA EnumPinnedTarget ==
    ASSUME Inv, EnumInv, AcquirePinnedTarget
    PROVE  EnumInv'
<1>1. pc = "pinned target" /\ UNCHANGED <<op, request, offered, supported>> /\ op = "enum"
    BY PathInHand DEF AcquirePinnedTarget, argVars, doneVars, EnumStages
<1>2. Open = {"target", "scaling"} /\ ~ TargetIsPivot
    BY <1>1 DEF EnumInv, AtSource, InSource, AtTarget, InTarget, AtSupport, ModeStages, Open,
       Asked
<1>3. CASE Pinned("target")
  <2>1. Stops \/ Moves("drop pinned target")
      BY <1>3, Outcome DEF AcquirePinnedTarget
  <2>2. ~ Wanted("target", Path)
      BY <1>3 DEF Pinned, Wanted
  <2>3. CASE Moves("drop pinned target")
    <3>1. pc' = "drop pinned target" /\ Path' = Path
        BY <2>3 DEF Moves
    <3>2. /\ ~ InSource' /\ ~ AtTarget' /\ ~ InTarget' /\ Looping /\ Looping'
          /\ Open' = {"scaling"}
        BY <1>1, <3>1 DEF AtSource, InSource, AtTarget, InTarget, AtSupport, Looping,
           ModeStages, Open, Asked
    <3>3. \A a \in Open \ Open' : ~ Wanted(a, Path)
        BY <1>2, <2>2, <3>2
    <3> QED
        BY <1>1, <1>2, <3>1, <3>2, <3>3, EnumStays
  <2> QED
      BY <1>1, <2>1, <2>3, EnumFails
<1>4. CASE ~ Pinned("target")
  <2>1. Stops \/ Moves("old target")
      BY <1>4, OutcomeWorks DEF AcquirePinnedTarget
  <2>2. Wanted("target", Path)
      BY <1>2, <1>4 DEF Pinned, TargetIsPivot, Wanted
  <2>3. CASE Moves("old target")
    <3>1. pc' = "old target" /\ Path' = Path
        BY <2>3 DEF Moves
    <3>2. /\ ~ InSource' /\ ~ AtTarget' /\ Looping /\ Looping' /\ Open' = {"target", "scaling"}
        BY <1>1, <3>1 DEF AtSource, InSource, AtTarget, InTarget, AtSupport, Looping,
           ModeStages, Open, Asked
    <3> QED
        BY <1>1, <1>2, <2>2, <3>1, <3>2, EnumStays
  <2> QED
      BY <1>1, <2>1, <2>3, EnumFails
<1> QED
    BY <1>3, <1>4

(* A mode set that is assigned is what was wanted there.                    *)
LEMMA EnumOffers ==
    ASSUME EnumInv, op = "enum", UNCHANGED <<op, request, supported>>,
           NEW a \in {"source", "target"}, offered' = offered \cup {<<a, Path>>},
           Path \in 1 .. request.paths, Looping, Looping', Path' = Path,
           Wanted(a, Path), a \in Open, a \notin Open', Open' \subseteq Open,
           \A b \in Open \ Open' : b = a \/ ~ Wanted(b, Path),
           ~ InSource', ~ InTarget', AtTarget' => ~ TargetIsPivot
    PROVE  EnumInv'
<1>1. Current = Path /\ Current' = Path
    BY DEF Looping, Current
<1>2. MadeUpTo(Path, Open)
    BY <1>1 DEF EnumInv, Looping
<1>3. \A b, p : Wanted(b, p)' <=> Wanted(b, p)
    BY DEF Wanted
<1>4. \A b, p : Made(b, p)' <=> Made(b, p) \/ (b = a /\ p = Path)
  <2>1. a # "scaling"
      OBVIOUS
  <2> QED
      BY <2>1 DEF Made
<1>5. MadeUpTo(Path, Open)'
  <2>1. Paths' = Paths /\ Asked' = Asked
      BY DEF Paths, Asked
  <2>2. ASSUME NEW b \in Asked, NEW p \in Paths
        PROVE  Made(b, p)' <=> Wanted(b, p)' /\ (p < Path' \/ (p = Path' /\ b \notin Open'))
    <3>1. Made(b, p) <=> Wanted(b, p) /\ (p < Path \/ (p = Path /\ b \notin Open))
        BY <1>2 DEF MadeUpTo
    <3>2. p = Path /\ b # a /\ Wanted(b, p) => (b \in Open <=> b \in Open')
        OBVIOUS
    <3> QED
        BY <3>1, <3>2, <1>3, <1>4
  <2> QED
      BY <2>1, <2>2 DEF MadeUpTo
<1>6. (pc \notin {"cleanup", "returned"} => MadeUpTo(Current, Open))'
    BY <1>1, <1>5
<1>7. offered' \subseteq {"source", "target"} \X (1 .. request.paths)
  <2>1. <<a, Path>> \in {"source", "target"} \X (1 .. request.paths)
      OBVIOUS
  <2>2. offered \subseteq {"source", "target"} \X (1 .. request.paths)
      BY DEF EnumInv
  <2> QED
      BY <2>1, <2>2
<1> QED
    BY <1>1, <1>3, <1>6, <1>7 DEF EnumInv, Looping, TargetIsPivot

LEMMA EnumAssignsSource ==
    ASSUME Inv, EnumInv, AssignSourceSet
    PROVE  EnumInv'
<1>1. /\ pc = "assign source" /\ UNCHANGED <<op, request, supported>> /\ op = "enum"
      /\ status = "ok" /\ Path \in 1 .. request.paths
    BY PathInHand DEF AssignSourceSet, argVars, EnumStages
<1>2. Stops \/ Moves(AfterSource)
  <2>1. Releases("source", AfterSource)
      BY DEF AssignSourceSet
  <2> QED
      BY <2>1, Outcome
<1>3. CASE Stops
  <2>1. offered' = offered
      BY <1>3 DEF Stops, AssignSourceSet
  <2> QED
      BY <2>1, <1>1, <1>3, EnumFails
<1>4. CASE Moves(AfterSource)
  <2>1. /\ offered' = offered \cup {<<"source", Path>>}
        /\ pc' = (IF TargetIsPivot THEN "drop pinned source" ELSE "target set") /\ Path' = Path
      BY <1>1, <1>4 DEF Moves, AfterSource, AssignSourceSet
  <2>2. Wanted("source", Path) /\ Open = Asked
      BY <1>1 DEF EnumInv, InSource, Open
  <2>3. /\ ~ InSource' /\ ~ InTarget' /\ (AtTarget' => ~ TargetIsPivot) /\ Looping /\ Looping'
        /\ Open' = IF TargetIsPivot THEN {"scaling"} ELSE {"target", "scaling"}
      BY <1>1, <2>1 DEF AtSource, InSource, AtTarget, InTarget, AtSupport, Looping, ModeStages,
         Open, Asked
  <2>4. \A b \in Open \ Open' : b = "source" \/ ~ Wanted(b, Path)
      BY <2>2, <2>3 DEF Asked, Wanted, TargetIsPivot
  <2>5. "source" \in Open /\ "source" \notin Open' /\ Open' \subseteq Open
      BY <2>2, <2>3 DEF Asked
  <2> QED
      BY <1>1, <2>1, <2>2, <2>3, <2>4, <2>5, EnumOffers
<1> QED
    BY <1>2, <1>3, <1>4

LEMMA EnumAssignsTarget ==
    ASSUME Inv, EnumInv, AssignTargetSet
    PROVE  EnumInv'
<1>1. /\ pc = "assign target" /\ UNCHANGED <<op, request, supported>> /\ op = "enum"
      /\ status = "ok" /\ Path \in 1 .. request.paths
    BY PathInHand DEF AssignTargetSet, argVars, EnumStages
<1>2. Stops \/ Moves("drop pinned source")
  <2>1. Releases("target", "drop pinned source")
      BY DEF AssignTargetSet
  <2> QED
      BY <2>1, Outcome
<1>3. CASE Stops
  <2>1. offered' = offered
      BY <1>3 DEF Stops, AssignTargetSet
  <2> QED
      BY <2>1, <1>1, <1>3, EnumFails
<1>4. CASE Moves("drop pinned source")
  <2>1. /\ offered' = offered \cup {<<"target", Path>>}
        /\ pc' = "drop pinned source" /\ Path' = Path
      BY <1>1, <1>4 DEF Moves, AssignTargetSet
  <2>2. Wanted("target", Path) /\ Open = {"target", "scaling"}
      BY <1>1 DEF EnumInv, AtSource, InSource, AtTarget, InTarget, ModeStages, AtSupport, Open,
         Asked
  <2>3. /\ ~ InSource' /\ ~ InTarget' /\ ~ AtTarget' /\ Looping /\ Looping'
        /\ Open' = {"scaling"}
      BY <1>1, <2>1 DEF AtSource, InSource, AtTarget, InTarget, AtSupport, Looping, ModeStages,
         Open, Asked
  <2>4. \A b \in Open \ Open' : b = "target" \/ ~ Wanted(b, Path)
      BY <2>2, <2>3
  <2>5. "target" \in Open /\ "target" \notin Open' /\ Open' \subseteq Open
      BY <2>2, <2>3
  <2> QED
      BY <1>1, <2>1, <2>2, <2>3, <2>4, <2>5, EnumOffers
<1> QED
    BY <1>2, <1>3, <1>4

(* The scaling is offered unless it is pinned or the pivot, whose path is    *)
(* named by source and target alike.                                       *)
LEMMA EnumSupports ==
    ASSUME Inv, EnumInv, UpdatePathSupport
    PROVE  EnumInv'
<1>1. /\ pc = "support" /\ UNCHANGED <<op, request, offered>> /\ op = "enum"
      /\ status = "ok" /\ Path \in 1 .. request.paths
    BY PathInHand DEF UpdatePathSupport, argVars, EnumStages
<1>2. Stops \/ Moves("next path")
    BY OutcomeWorks DEF UpdatePathSupport, Moves, Path
<1>3. CASE Stops
    BY <1>1, <1>3, EnumFails
<1>4. CASE Moves("next path")
  <2>1. /\ supported' = supported \cup {<<a, Path>> : a \in SupportWritten}
        /\ pc' = "next path" /\ Path' = Path
      BY <1>1, <1>4 DEF Moves, UpdatePathSupport
  <2>2. "scaling" \in SupportWritten <=> Wanted("scaling", Path)
    <3>1. PivotOK(request.pivot, request.paths)
        BY <1>1 DEF EnumInv
    <3>2. request.pivot.kind = "scaling" => request.pivot.source = request.pivot.target
        BY <3>1 DEF PivotOK
    <3> QED
        BY <3>2 DEF SupportWritten, Wanted, Pinned, PathIsPivot
  <2>3. Open = {"scaling"} /\ Current = Path /\ Current' = Path
      BY <1>1, <2>1 DEF AtSource, InSource, AtTarget, InTarget, AtSupport, ModeStages, Open,
         Asked, Current
  <2>4. Open' = {} /\ ~ InSource' /\ ~ InTarget' /\ ~ AtTarget'
      BY <2>1 DEF AtSource, InSource, AtTarget, InTarget, AtSupport, ModeStages, Open
  <2>5. MadeUpTo(Path, {"scaling"})
      BY <1>1, <2>3 DEF EnumInv
  <2>6. \A a, p : Wanted(a, p)' <=> Wanted(a, p)
      BY <1>1 DEF Wanted
  <2>7. \A a, p : Made(a, p)' <=> \/ Made(a, p)
                                  \/ a = "scaling" /\ p = Path /\ Wanted("scaling", Path)
      BY <1>1, <2>1, <2>2 DEF Made
  <2>8. MadeUpTo(Path, {})'
    <3>1. Paths' = Paths /\ Asked' = Asked
        BY DEF Paths, Asked
    <3>2. ASSUME NEW a \in Asked, NEW p \in Paths
          PROVE  Made(a, p)' <=> Wanted(a, p)' /\ (p < Path' \/ (p = Path' /\ a \notin {}))
      <4>1. Made(a, p) <=> Wanted(a, p) /\ (p < Path \/ (p = Path /\ a \notin {"scaling"}))
          BY <2>5 DEF MadeUpTo
      <4> QED
          BY <4>1, <2>1, <2>6, <2>7
    <3> QED
        BY <3>1, <3>2 DEF MadeUpTo
  <2>9. (pc \notin {"cleanup", "returned"} => MadeUpTo(Current, Open))'
      BY <2>1, <2>3, <2>4, <2>8
  <2> QED
      BY <1>1, <2>1, <2>4, <2>9 DEF EnumInv
<1> QED
    BY <1>2, <1>3, <1>4

(* On to the next path: what was done at one path is done below the next.    *)
LEMMA EnumNextPath ==
    ASSUME Inv, EnumInv, AcquireNextPath
    PROVE  EnumInv'
<1>1. /\ pc = "next path" /\ UNCHANGED <<op, request, offered, supported>> /\ op = "enum"
      /\ status = "ok" /\ Path \in 1 .. request.paths
      /\ v \in [Fields -> KindNames \X Nat]
    BY PathInHand DEF AcquireNextPath, argVars, doneVars, EnumStages, Inv, HandlesInv
<1>2. MadeUpTo(Path, {})
  <2>1. Open = {} /\ Current = Path
      BY <1>1 DEF AtSource, InSource, AtTarget, InTarget, AtSupport, ModeStages, Open, Current
  <2> QED
      BY <1>1, <2>1 DEF EnumInv
<1>3. CASE Stops
    BY <1>1, <1>3, EnumFails
<1>4. CASE ~ Stops
  <2>1. /\ pc' = "drop path"
        /\ \E h : v' = [v EXCEPT !["temp"] = v["path"], !["path"] = h]
                  /\ \/ h = Handle("path", Path + 1) /\ status' = status
                     \/ Path = request.paths /\ status' = "no more"
      BY <1>4 DEF AcquireNextPath, Stops
  <2>2. PICK h : /\ v' = [v EXCEPT !["temp"] = v["path"], !["path"] = h]
                 /\ \/ h = Handle("path", Path + 1) /\ status' = status
                    \/ Path = request.paths /\ status' = "no more"
      BY <2>1
  <2>3. v'["temp"] = v["path"] /\ v'["path"] = h
      BY <1>1, <2>2 DEF Fields
  <2>4. v'["temp"][2] = Path /\ (status' # "no more" => Path' = Path + 1)
    <3>1. Handle("path", Path + 1)[2] = Path + 1
        BY DEF Handle
    <3> QED
        BY <3>1, <2>2, <2>3 DEF Path
  <2>5. Open' = {} /\ Current' = Path /\ ~ InSource' /\ ~ InTarget' /\ ~ AtTarget'
      BY <2>1, <2>4 DEF AtSource, InSource, AtTarget, InTarget, AtSupport, ModeStages, Open,
         Current
  <2>6. \A a, p : (Wanted(a, p)' <=> Wanted(a, p)) /\ (Made(a, p)' <=> Made(a, p))
      BY <1>1 DEF Wanted, Made
  <2>7. MadeUpTo(Current, Open)'
      BY <1>2, <2>5, <2>6 DEF MadeUpTo, Paths, Asked
  <2>8. status' = "no more" => Path = request.paths
      BY <1>1, <2>2
  <2> QED
      BY <1>1, <2>1, <2>4, <2>5, <2>7, <2>8 DEF EnumInv
<1> QED
    BY <1>3, <1>4

LEMMA EnumDropsPath ==
    ASSUME Inv, EnumInv, ReleaseLastPath
    PROVE  EnumInv'
<1>1. /\ pc = "drop path" /\ UNCHANGED <<op, request, offered, supported>> /\ op = "enum"
      /\ v \in [Fields -> KindNames \X Nat] /\ request.paths \in 0 .. MaxPaths
    BY DEF ReleaseLastPath, argVars, doneVars, EnumStages, Inv, StageInv, HandlesInv
<1> DEFINE last == v["temp"][2]
<1>2. MadeUpTo(last, {}) /\ last \in Nat
  <2>1. Open = {} /\ Current = last
      BY <1>1 DEF AtSource, InSource, AtTarget, InTarget, AtSupport, ModeStages, Open, Current
  <2>2. last \in Nat
      BY <1>1 DEF Fields
  <2> QED
      BY <1>1, <2>1, <2>2 DEF EnumInv
<1>3. IF status = "no more" THEN last = request.paths ELSE Path = last + 1
    BY <1>1 DEF EnumInv
<1> HIDE DEF last
<1>4. \A a, p : (Wanted(a, p)' <=> Wanted(a, p)) /\ (Made(a, p)' <=> Made(a, p))
    BY <1>1 DEF Wanted, Made
<1>5. Stops \/ Moves(IF status = "no more" THEN "cleanup" ELSE "source set")
  <2>1. Releases("temp", IF status = "no more" THEN "cleanup" ELSE "source set")
      BY DEF ReleaseLastPath
  <2> QED
      BY <2>1, Outcome
<1>6. CASE Stops
    BY <1>1, <1>6, EnumFails
<1>7. CASE status = "no more" /\ Moves("cleanup")
  <2>1. pc' = "cleanup" /\ status' = "no more" /\ request' = request
      BY <1>1, <1>7 DEF Moves
  <2>2. AllMade'
    <3>1. ASSUME NEW a \in Asked, NEW p \in 1 .. request.paths
          PROVE  Made(a, p) <=> Wanted(a, p)
      <4>1. p \in Paths
          BY <1>1, InRange DEF Paths
      <4>2. p < last \/ p = last
        <5>1. p \in 1 .. last /\ last \in Nat
            BY <1>2, <1>3, <1>7
        <5> QED
            BY <5>1
      <4> QED
          BY <4>1, <4>2, <1>2 DEF MadeUpTo
    <3> QED
        BY <3>1, <2>1, <1>4 DEF AllMade, Asked
  <2> QED
      BY <1>1, <2>1, <2>2 DEF EnumInv, InSource, AtTarget, InTarget, ModeStages
<1>8. CASE status # "no more" /\ Moves("source set")
  <2>1. pc' = "source set" /\ Path' = last + 1
      BY <1>3, <1>8 DEF Moves
  <2>2. Open' = Asked /\ Current' = last + 1 /\ ~ InSource' /\ ~ InTarget' /\ ~ AtTarget'
      BY <2>1 DEF AtSource, InSource, AtTarget, InTarget, AtSupport, ModeStages, Open, Current,
         Asked
  <2>3. ASSUME NEW a \in Asked, NEW p \in Paths
        PROVE  Made(a, p) <=> Wanted(a, p) /\ (p < last + 1 \/ (p = last + 1 /\ a \notin Asked))
    <3>1. Made(a, p) <=> Wanted(a, p) /\ (p < last \/ (p = last /\ a \notin {}))
        BY <1>2 DEF MadeUpTo
    <3>2. p \in Nat
        BY DEF Paths
    <3>3. p < last + 1 <=> p < last \/ p = last
        BY <3>2, <1>2
    <3> QED
        BY <3>1, <3>3
  <2>4. MadeUpTo(Current, Open)'
      BY <2>2, <2>3, <1>4 DEF MadeUpTo, Paths, Asked
  <2> QED
      BY <1>1, <2>1, <2>2, <2>4 DEF EnumInv
<1> QED
    BY <1>5, <1>6, <1>7, <1>8

LEMMA EnumStarts ==
    ASSUME Inv, CommitInv, StartEnum
    PROVE  EnumInv'
<1>1. offered' = {} /\ supported' = {} /\ PivotOK(request.pivot, request.paths)'
      /\ v \in [Fields -> KindNames \X Nat]
  <2>1. offered' = {} /\ supported' = {}
      BY DEF StartEnum, doneVars, CommitInv
  <2>2. PICK n \in Paths, pivot \in Pivots, pinned \in [Paths -> SUBSET Aspects] :
           /\ PivotOK(pivot, n)
           /\ request' = [paths |-> n, pivot |-> pivot, pinned |-> pinned]
      BY DEF StartEnum
  <2>3. request'.pivot = pivot /\ request'.paths = n
      BY <2>2
  <2> QED
      BY <2>1, <2>2, <2>3 DEF Inv, HandlesInv
<1>2. CASE pc' = "source set"
  <2>1. v' = [v EXCEPT !["path"] = Handle("path", 1)]
      BY <1>2 DEF StartEnum
  <2>2. Path' = 1
      BY <1>1, <2>1 DEF Path, Fields, Handle
  <2>3. Open' = Asked /\ Current' = 1 /\ ~ InSource' /\ ~ InTarget' /\ ~ AtTarget'
      BY <1>2, <2>2 DEF AtSource, InSource, AtTarget, InTarget, AtSupport, ModeStages, Open,
         Current, Asked
  <2>4. \A a, p : ~ Made(a, p)'
      BY <1>1 DEF Made
  <2>5. \A a \in Asked, p \in Paths : ~ (p < 1 \/ (p = 1 /\ a \notin Asked))
      BY DEF Paths
  <2>6. MadeUpTo(Current, Open)'
      BY <2>3, <2>4, <2>5 DEF MadeUpTo, Paths, Asked
  <2> QED
      BY <1>1, <1>2, <2>3, <2>6 DEF EnumInv
<1>3. CASE pc' = "returned" /\ status' = "failed"
    BY <1>1, <1>3 DEF EnumInv, InSource, AtTarget, InTarget, ModeStages
<1> QED
    BY <1>2, <1>3 DEF StartEnum

LEMMA EnumCleans ==
    ASSUME EnumInv, op = "enum", CleanUp \/ Returns
    PROVE  EnumInv'
<1>1. pc = "cleanup" /\ UNCHANGED <<op, request, offered, supported>>
    BY DEF CleanUp, Returns, argVars, doneVars
<1>2. AllMade' <=> AllMade
    BY <1>1 DEF AllMade, Made, Wanted, Asked
<1>3. CASE CleanUp
  <2>1. pc' = "cleanup" /\ status' = status
      BY <1>3 DEF CleanUp
  <2> QED
      BY <2>1, <1>1, <1>2 DEF EnumInv, InSource, AtTarget, InTarget, ModeStages
<1>4. CASE Returns
  <2>1. pc' = "returned" /\ status' = IF status = "no more" THEN "ok" ELSE status
      BY <1>4 DEF Returns
  <2> QED
      BY <2>1, <1>1, <1>2 DEF EnumInv, InSource, AtTarget, InTarget, ModeStages
<1> QED
    BY <1>3, <1>4

LEMMA EnumInit == Init => EnumInv
    BY DEF Init, EnumInv

LEMMA EnumNext == Inv /\ CommitInv /\ EnumInv /\ [Next]_vars => EnumInv'
<1> SUFFICES ASSUME Inv, CommitInv, EnumInv, [Next]_vars
             PROVE  EnumInv'
    OBVIOUS
<1>1. CASE UNCHANGED vars
  <2>1. UNCHANGED <<op, request, pc, v, side, status, offered, supported>>
      BY <1>1 DEF vars, argVars, doneVars, loopVars
  <2>2. /\ Open' = Open /\ Current' = Current /\ Path' = Path
        /\ InSource' = InSource /\ AtTarget' = AtTarget /\ InTarget' = InTarget
      BY <2>1 DEF Open, Current, Path, AtSource, InSource, AtTarget, InTarget, AtSupport
  <2>3. \A a, p : (Wanted(a, p)' <=> Wanted(a, p)) /\ (Made(a, p)' <=> Made(a, p))
      BY <2>1 DEF Wanted, Made
  <2>4. (MadeUpTo(Current, Open)' <=> MadeUpTo(Current, Open)) /\ (AllMade' <=> AllMade)
      BY <2>1, <2>2, <2>3 DEF MadeUpTo, AllMade, Asked, Paths
  <2>5. Wanted("source", Path)' <=> Wanted("source", Path)
      BY <2>1 DEF Wanted, Path
  <2>6. Wanted("target", Path)' <=> Wanted("target", Path)
      BY <2>1 DEF Wanted, Path
  <2>7. (TargetIsPivot' <=> TargetIsPivot) /\ PivotOK(request.pivot, request.paths)' = PivotOK(request.pivot, request.paths)
      BY <2>1 DEF TargetIsPivot, Path, PivotOK
  <2> QED
      BY <2>1, <2>2, <2>4, <2>5, <2>6, <2>7 DEF EnumInv
<1>2. CASE op' # "enum"
    BY <1>2 DEF EnumInv
<1>3. CASE op' = "enum" /\ Next
  <2>1. op = "enum" \/ StartEnum
      BY <1>3 DEF Next, StartEnum, AcquireSourceSet, AcquirePinnedSource, ReleaseOldSource,
         CreateSourceSet, AssignSourceSet, AcquireTargetSet, AcquirePinnedTarget,
         ReleaseOldTarget, CreateTargetSet, AssignTargetSet, DropPinnedTarget, DropTargetSet,
         DropPinnedSource, DropSourceSet, UpdatePathSupport, AcquireNextPath, ReleaseLastPath,
         StartMonitor, CreateMode, AddMode, ReleaseMode, StartCommit, AcquireCommitSet,
         AcquireCommitMode, CheckMode, AcquireCommitPath, SetModeOfPath, ReleaseCommitPath,
         CleanUp, Returns, argVars
  <2>2. CASE StartEnum
      BY <2>2, EnumStarts
  <2>3. CASE op = "enum" /\ ~ StartEnum
    <3>1. ~ StartMonitor /\ ~ StartCommit
        BY <2>3 DEF StartMonitor, StartCommit
    <3>2. /\ ~ AcquireCommitSet /\ ~ AcquireCommitMode /\ ~ CheckMode
          /\ ~ AcquireCommitPath /\ ~ SetModeOfPath /\ ~ ReleaseCommitPath
        BY <2>3 DEF AcquireCommitSet, AcquireCommitMode, CheckMode, AcquireCommitPath,
           SetModeOfPath, ReleaseCommitPath, Inv, StageInv, CommitStages
    <3> QED
        BY <1>3, <2>3, <3>1, <3>2, EnumSimple, EnumModes, EnumMode, EnumPinnedSource,
           EnumPinnedTarget, EnumAssignsSource, EnumAssignsTarget, EnumSupports, EnumNextPath,
           EnumDropsPath, EnumCleans DEF Next
  <2> QED
      BY <2>1, <2>2, <2>3
<1> QED
    BY <1>1, <1>2, <1>3

(* A successful EnumVidPnCofuncModality has offered modes and scalings       *)
(* exactly where they are neither pinned nor the pivot, on every path of the *)
(* topology: no path is left out and none is offered what it may not have.   *)
THEOREM EnumCorrect == Spec => []ModesOffered
<1>1. ASSUME EnumInv, op = "enum", pc = "returned", status = "ok"
      PROVE  /\ offered = {x \in {"source", "target"} \X (1 .. request.paths) :
                              /\ x[1] \notin request.pinned[x[2]]
                              /\ ~ (request.pivot.kind = x[1] /\ request.pivot[x[1]] = x[2])}
             /\ \A p \in 1 .. request.paths :
                   <<"scaling", p>> \in supported <=>
                      /\ "scaling" \notin request.pinned[p]
                      /\ ~ (request.pivot.kind = "scaling" /\ request.pivot.source = p)
  <2>1. AllMade /\ offered \subseteq {"source", "target"} \X (1 .. request.paths)
      BY <1>1 DEF EnumInv
  <2>2. ASSUME NEW p \in 1 .. request.paths
        PROVE  /\ <<"source", p>> \in offered <=>
                     /\ "source" \notin request.pinned[p]
                     /\ ~ (request.pivot.kind = "source" /\ request.pivot["source"] = p)
               /\ <<"target", p>> \in offered <=>
                     /\ "target" \notin request.pinned[p]
                     /\ ~ (request.pivot.kind = "target" /\ request.pivot["target"] = p)
               /\ <<"scaling", p>> \in supported <=>
                     /\ "scaling" \notin request.pinned[p]
                     /\ ~ (request.pivot.kind = "scaling" /\ request.pivot.source = p)
    <3>1. \A a \in {"source", "target", "scaling"} : Made(a, p) <=> Wanted(a, p)
        BY <2>1 DEF AllMade, Asked
    <3> QED
        BY <3>1 DEF Made, Wanted
  <2>3. ASSUME NEW x \in {"source", "target"} \X (1 .. request.paths)
        PROVE  x \in offered <=>
                  /\ x[1] \notin request.pinned[x[2]]
                  /\ ~ (request.pivot.kind = x[1] /\ request.pivot[x[1]] = x[2])
    <3>1. x = <<x[1], x[2]>> /\ x[1] \in {"source", "target"} /\ x[2] \in 1 .. request.paths
        OBVIOUS
    <3> QED
        BY <3>1, <2>2
  <2> QED
      BY <2>1, <2>2, <2>3
<1>2. EnumInv => ModesOffered
    BY <1>1 DEF ModesOffered
<1>3. Spec => [](CommitInv /\ EnumInv)
    BY InitInv, NextInv, CommitInit, CommitNext, EnumInit, EnumNext, PTL DEF Spec
<1> QED
    BY <1>2, <1>3, PTL
=============================================================================
