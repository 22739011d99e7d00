-------------------------------- MODULE VidPn --------------------------------
(***************************************************************************)
(* The three calls of viogpudo.cpp that negotiate modes with dxgkrnl, call  *)
(* by call on the VidPN interfaces: EnumVidPnCofuncModality (which modes and *)
(* transformations can be had with what is pinned), CommitVidPn (make the   *)
(* pinned mode the current one) and RecommendMonitorModes.  Paths, mode     *)
(* sets and mode infos are acquired from dxgkrnl and must be released, in   *)
(* order, on every way out; every call on the interfaces may fail.  What    *)
(* geometry the offered modes have is the subject of ModeList.             *)
(***************************************************************************)
EXTENDS Integers

CONSTANTS
    MaxPaths,       (* paths of the topology; 1 with MAX_VIEWS, MAX_CHILDREN *)
    MaxModes        (* m_ModeCount                                          *)

ASSUME MaxPathsAssumption == MaxPaths \in Nat \ {0}
ASSUME MaxModesAssumption == MaxModes \in Nat \ {0}

VARIABLES
    op,             (* the call dxgkrnl makes                               *)
    request,        (* its arguments                                        *)
    pc,             (* the next call on the interfaces                      *)
    v,              (* the local variables that hold handles                *)
    side, left,     (* the inner loops: what for, and iterations left       *)
    status,         (* Status                                               *)
    offered,        (* mode sets that were assigned                         *)
    supported,      (* support fields that were written                     *)
    modesSet,       (* paths whose mode SetSourceModeAndPath has set        *)
    held,           (* what dxgkrnl handed out and did not get back          *)
    misused,        (* history: arguments that were not held                *)
    refused,        (* history: releases that failed for good               *)
    nextFailed,     (* history: pfnAcquireNextPathInfo failed               *)
    unreleased,     (* history: a commit could not release a path it had set *)
    tidied          (* history: the releases after the loop had work        *)

argVars == <<op, request>>
doneVars == <<offered, supported, modesSet>>
loopVars == <<side, left>>
pastVars == <<refused, nextFailed, unreleased, tidied>>
vars == <<argVars, pc, v, loopVars, status, doneVars, held, misused, pastVars>>

Paths == 1 .. MaxPaths
Aspects == {"source", "target", "scaling", "rotation"}
Pivots == [kind : Aspects \cup {"none"}, source : 0 .. MaxPaths, target : 0 .. MaxPaths]

Handle(kind, p) == <<kind, p>>
Null == <<"null", 0>>
MonitorSet == Handle("monitor set", 0)
Fields == {"path", "temp", "source", "pinnedSource", "target", "pinnedTarget", "mode"}
NoHandles == [f \in Fields |-> Null]
NoRequest == [paths |-> 0, pivot |-> [kind |-> "none", source |-> 0, target |-> 0],
              pinned |-> [p \in Paths |-> {}]]

(* The pivot names a source, a target, or a path by both.                  *)
PivotOK(pivot, n) ==
    CASE pivot.kind = "source" -> pivot.source \in 1 .. n /\ pivot.target = 0
      [] pivot.kind = "target" -> pivot.source = 0 /\ pivot.target \in 1 .. n
      [] pivot.kind = "none"   -> pivot.source = pivot.target /\ pivot.source <= n
      [] OTHER                 -> pivot.source = pivot.target /\ pivot.source \in 1 .. n

Init ==
    /\ op = "none" /\ request = NoRequest
    /\ pc = "called" /\ v = NoHandles
    /\ side = "source" /\ left = 0 /\ status = "ok"
    /\ offered = {} /\ supported = {} /\ modesSet = {}
    /\ held = {} /\ misused = {} /\ refused = {}
    /\ nextFailed = FALSE /\ unreleased = FALSE /\ tidied = FALSE

-----------------------------------------------------------------------------
(* Calls on the interfaces.                                                *)

Uses(hs) == misused' = misused \cup (hs \ held)

Fails ==
    /\ pc' = "cleanup" /\ status' = "failed"
    /\ UNCHANGED <<v, held>>

Works(next) ==
    \/ pc' = next /\ UNCHANGED <<v, held, status>>
    \/ Fails

Acquires(f, h, next) ==
    \/ /\ v' = [v EXCEPT ![f] = h]
       /\ held' = held \cup {h}
       /\ pc' = next
       /\ UNCHANGED status
    \/ Fails

(* A release, or pfnAssign..., which amounts to one.                       *)
Releases(f, next) ==
    \/ /\ held' = held \ {v[f]}
       /\ v' = [v EXCEPT ![f] = Null]
       /\ pc' = next
       /\ UNCHANGED status
    \/ Fails

Skips(next) == pc' = next /\ UNCHANGED <<v, held, status, misused>>

-----------------------------------------------------------------------------
(* EnumVidPnCofuncModality.                                                *)

Path == v.path[2]
Pinned(aspect) == aspect \in request.pinned[Path]

(* Without the topology or a first path the call returns at once.           *)
StartEnum ==
    /\ op = "none" /\ op' = "enum"
    /\ \E n \in Paths, pivot \in Pivots, pinned \in [Paths -> SUBSET Aspects] :
          /\ PivotOK(pivot, n)
          /\ \A p \in Paths : p > n => pinned[p] = {}
          /\ request' = [paths |-> n, pivot |-> pivot, pinned |-> pinned]
    /\ \/ /\ v' = [v EXCEPT !.path = Handle("path", 1)]
          /\ held' = {Handle("path", 1)}
          /\ pc' = "source set" /\ UNCHANGED status
       \/ pc' = "returned" /\ status' = "failed" /\ UNCHANGED <<v, held>>
    /\ UNCHANGED <<loopVars, doneVars, misused, pastVars>>

AcquireSourceSet ==
    /\ pc = "source set"
    /\ Uses({v.path})
    /\ Acquires("source", Handle("source set", Path), "pinned source")
    /\ UNCHANGED <<argVars, loopVars, doneVars, pastVars>>

(* Deviation: the source is compared where the target should be.            *)
TargetIsPivotMixed == request.pivot.kind = "target" /\ request.pivot.source = Path

SourceIsPivot == request.pivot.kind = "source" /\ request.pivot.source = Path
TargetIsPivot == request.pivot.kind = "target" /\ request.pivot.target = Path

AfterSource == IF TargetIsPivot THEN "drop pinned source" ELSE "target set"

AcquirePinnedSource ==
    /\ pc = "pinned source"
    /\ Uses({v.source})
    /\ IF Pinned("source")
       THEN Acquires("pinnedSource", Handle("pinned source", Path), AfterSource)
       ELSE Works(IF SourceIsPivot THEN AfterSource ELSE "old source")
    /\ UNCHANGED <<argVars, loopVars, doneVars, pastVars>>

(* The mode set that was acquired gives way to a new one.                   *)
ReleaseOldSource ==
    /\ pc = "old source"
    /\ Uses({v.source}) /\ Releases("source", "new source")
    /\ UNCHANGED <<argVars, loopVars, doneVars, pastVars>>

CreateSourceSet ==
    /\ pc = "new source"
    /\ Uses({v.path})
    /\ Acquires("source", Handle("new source set", Path), "create mode")
    /\ side' = "source" /\ left' = MaxModes
    /\ UNCHANGED <<argVars, doneVars, pastVars>>

AssignSourceSet ==
    /\ pc = "assign source"
    /\ Uses({v.source, v.path})
    /\ Releases("source", AfterSource)
    /\ offered' = IF status' = "failed" THEN offered ELSE offered \cup {<<"source", Path>>}
    /\ UNCHANGED <<argVars, loopVars, supported, modesSet, pastVars>>

AcquireTargetSet ==
    /\ pc = "target set"
    /\ Uses({v.path})
    /\ Acquires("target", Handle("target set", Path), "pinned target")
    /\ UNCHANGED <<argVars, loopVars, doneVars, pastVars>>

AcquirePinnedTarget ==
    /\ pc = "pinned target"
    /\ Uses({v.target})
    /\ IF Pinned("target")
       THEN Acquires("pinnedTarget", Handle("pinned target", Path), "drop pinned target")
       ELSE Works("old target")
    /\ UNCHANGED <<argVars, loopVars, doneVars, pastVars>>

ReleaseOldTarget ==
    /\ pc = "old target"
    /\ Uses({v.target}) /\ Releases("target", "new target")
    /\ UNCHANGED <<argVars, loopVars, doneVars, pastVars>>

CreateTargetSet ==
    /\ pc = "new target"
    /\ Uses({v.path})
    /\ Acquires("target", Handle("new target set", Path), "create mode")
    /\ side' = "target" /\ left' = MaxModes
    /\ UNCHANGED <<argVars, doneVars, pastVars>>

AssignTargetSet ==
    /\ pc = "assign target"
    /\ Uses({v.target, v.path})
    /\ Releases("target", "drop pinned source")
    /\ offered' = IF status' = "failed" THEN offered ELSE offered \cup {<<"target", Path>>}
    /\ UNCHANGED <<argVars, loopVars, supported, modesSet, pastVars>>

(* A pinned target is given back, and its mode set after it.               *)
DropPinnedTarget ==
    /\ pc = "drop pinned target"
    /\ Uses({v.target, v.pinnedTarget}) /\ Releases("pinnedTarget", "drop target set")
    /\ UNCHANGED <<argVars, loopVars, doneVars, pastVars>>

DropTargetSet ==
    /\ pc = "drop target set"
    /\ Uses({v.target}) /\ Releases("target", "drop pinned source")
    /\ UNCHANGED <<argVars, loopVars, doneVars, pastVars>>

DropPinnedSource ==
    /\ pc = "drop pinned source"
    /\ IF v.pinnedSource = Null THEN Skips("drop source set")
       ELSE Uses({v.source, v.pinnedSource}) /\ Releases("pinnedSource", "drop source set")
    /\ UNCHANGED <<argVars, loopVars, doneVars, pastVars>>

DropSourceSet ==
    /\ pc = "drop source set"
    /\ IF v.source = Null THEN Skips("support")
       ELSE Uses({v.source}) /\ Releases("source", "support")
    /\ UNCHANGED <<argVars, loopVars, doneVars, pastVars>>

PathIsPivot == request.pivot.source = Path /\ request.pivot.target = Path

(* What is unpinned and not skipped; the two tests of the pivot's kind      *)
(* differ, "==" for the scaling and "!=" for the rotation.                  *)
SupportWritten ==
    {a \in {"scaling", "rotation"} :
        /\ ~ Pinned(a)
        /\ ~ (PathIsPivot /\ IF a = "scaling" THEN request.pivot.kind = "scaling"
                                              ELSE request.pivot.kind # "rotation")}

UpdatePathSupport ==
    /\ pc = "support"
    /\ Uses({v.path})
    /\ IF SupportWritten = {}
       THEN pc' = "next path" /\ UNCHANGED <<v, held, status>>
       ELSE Works("next path")
    /\ supported' = IF status' = "failed" THEN supported
                    ELSE supported \cup {<<a, Path>> : a \in SupportWritten}
    /\ UNCHANGED <<argVars, loopVars, offered, modesSet, pastVars>>

(* Whether a failing pfnAcquireNextPathInfo writes its last argument is     *)
(* for dxgkrnl to say.                                                     *)
AcquireNextPath ==
    /\ pc = "next path"
    /\ Uses({v.path})
    /\ \/ /\ Path < request.paths
          /\ v' = [v EXCEPT !.temp = v.path, !.path = Handle("path", Path + 1)]
          /\ held' = held \cup {Handle("path", Path + 1)}
          /\ pc' = "drop path" /\ UNCHANGED <<status, nextFailed>>
       \/ /\ Path = request.paths
          /\ v' = [v EXCEPT !.temp = v.path, !.path = Null]
          /\ pc' = "drop path" /\ status' = "no more" /\ UNCHANGED <<held, nextFailed>>
       \/ /\ \E h \in {v.path, Null} : v' = [v EXCEPT !.temp = v.path, !.path = h]
          /\ pc' = "cleanup" /\ status' = "failed" /\ nextFailed' = TRUE /\ UNCHANGED held
    /\ UNCHANGED <<argVars, loopVars, doneVars, refused, unreleased, tidied>>

ReleaseLastPath ==
    /\ pc = "drop path"
    /\ Uses({v.temp})
    /\ Releases("temp", IF status = "no more" THEN "cleanup" ELSE "source set")
    /\ UNCHANGED <<argVars, loopVars, doneVars, pastVars>>

-----------------------------------------------------------------------------
(* AddSingleSourceMode, AddSingleTargetMode, AddSingleMonitorMode: a mode   *)
(* info is created and added for each mode; the one for the monitor's       *)
(* preferred mode comes first.                                             *)

SetInUse == CASE side = "source" -> v.source
              [] side = "target" -> v.target
              [] side = "monitor" -> MonitorSet

Preferred == side = "monitor" /\ left = MaxModes + 1
FromModes == CASE side = "source" -> "assign source"
               [] side = "target" -> "assign target"
               [] side = "monitor" -> "returned"
Abandon == IF side = "monitor" THEN "returned" ELSE "cleanup"

CreateMode ==
    /\ pc = "create mode"
    /\ IF left = 0 THEN Skips(FromModes)
       ELSE /\ Uses({SetInUse})
            /\ \/ /\ v' = [v EXCEPT !.mode = Handle("mode", left)]
                  /\ held' = held \cup {Handle("mode", left)}
                  /\ pc' = "add mode" /\ UNCHANGED status
               \/ pc' = Abandon /\ status' = "failed" /\ UNCHANGED <<v, held>>
    /\ UNCHANGED <<argVars, loopVars, doneVars, pastVars>>

(* An added mode info is dxgkrnl's again.                                  *)
AddMode ==
    /\ pc = "add mode"
    /\ Uses({SetInUse, v.mode})
    /\ \/ /\ held' = held \ {v.mode}
          /\ v' = [v EXCEPT !.mode = Null]
          /\ pc' = "create mode" /\ left' = left - 1 /\ status' = "ok"
       \/ /\ pc' \in {"release known mode", "release mode"}
          /\ UNCHANGED <<v, held, left, status>>
    /\ UNCHANGED <<argVars, side, doneVars, pastVars>>

(* A mode that was in the set already is no failure, whatever else happened *)
(* is none for a target; a failed release of the monitor's last mode is one. *)
ReleaseMode ==
    LET known == pc = "release known mode"
        ends == IF side = "source" THEN ~ known ELSE Preferred
    IN  /\ pc \in {"release known mode", "release mode"}
        /\ Uses({SetInUse, v.mode})
        /\ v' = [v EXCEPT !.mode = Null]
        /\ \E ok \in BOOLEAN :
              /\ held' = IF ok THEN held \ {v.mode} ELSE held
              /\ refused' = IF ok THEN refused ELSE refused \cup {v.mode}
              /\ status' = IF (ends /\ ~ known) \/ (side = "monitor" /\ ~ ends /\ ~ ok)
                           THEN "failed" ELSE "ok"
        /\ pc' = IF ends THEN Abandon ELSE "create mode"
        /\ left' = left - 1
        /\ UNCHANGED <<argVars, side, doneVars, nextFailed, unreleased, tidied>>

StartMonitor ==
    /\ op = "none" /\ op' = "monitor"
    /\ held' = {MonitorSet}
    /\ side' = "monitor" /\ left' = MaxModes + 1
    /\ pc' = "create mode"
    /\ UNCHANGED <<request, v, status, doneVars, misused, pastVars>>

-----------------------------------------------------------------------------
(* CommitVidPn, for the one source of the adapter.                         *)

(* Up to pfnGetNumPaths; with no path there is nothing to acquire.          *)
StartCommit ==
    /\ op = "none" /\ op' = "commit"
    /\ \E n \in 0 .. MaxPaths, pinned \in SUBSET {"source"} :
          /\ request' = [NoRequest EXCEPT !.paths = n, !.pinned = [p \in Paths |-> pinned]]
          /\ \/ /\ pc' = IF n = 0 THEN "check mode" ELSE "commit source set"
                /\ UNCHANGED status
             \/ /\ pc' = "cleanup"     (* PathPoweredOff, or a call fails *)
                /\ status' \in {status, "failed"}
    /\ UNCHANGED <<v, loopVars, doneVars, held, misused, pastVars>>

AcquireCommitSet ==
    /\ pc = "commit source set"
    /\ Uses({}) /\ Acquires("source", Handle("source set", 1), "commit pinned")
    /\ UNCHANGED <<argVars, loopVars, doneVars, pastVars>>

AcquireCommitMode ==
    /\ pc = "commit pinned"
    /\ Uses({v.source})
    /\ IF "source" \in request.pinned[1]
       THEN Acquires("pinnedSource", Handle("pinned source", 1), "check mode")
       ELSE Works("check mode")
    /\ UNCHANGED <<argVars, loopVars, doneVars, pastVars>>

(* IsVidPnSourceModeFieldsValid, pfnGetNumPathsFromSource.                 *)
CheckMode ==
    /\ pc = "check mode"
    /\ Uses({v.pinnedSource} \ {Null})
    /\ IF v.pinnedSource = Null THEN pc' = "cleanup" /\ UNCHANGED <<v, held, status>>
       ELSE Works("acquire path")
    /\ left' = request.paths
    /\ UNCHANGED <<argVars, side, doneVars, pastVars>>

AcquireCommitPath ==
    /\ pc = "acquire path"
    /\ Uses({})
    /\ IF left = 0 THEN pc' = "cleanup" /\ UNCHANGED <<v, held, status>>
       ELSE Acquires("path", Handle("path", left), "set mode")
    /\ UNCHANGED <<argVars, loopVars, doneVars, pastVars>>

(* Deviation: the mode is set before the path is found to be valid.         *)
SetModeUnchecked ==
    /\ pc = "set mode"
    /\ Uses({v.path, v.pinnedSource})
    /\ Works("release path")
    /\ modesSet' = modesSet \cup {Path}
    /\ UNCHANGED <<argVars, loopVars, offered, supported, pastVars>>

(* IsVidPnPathFieldsValid, which may fail, then SetSourceModeAndPath, which  *)
(* for the virtio-gpu device cannot: AcquireFrameBuffer does nothing and    *)
(* SetCurrentMode finds the index it is given.                             *)
SetModeOfPath ==
    /\ pc = "set mode"
    /\ Uses({v.path, v.pinnedSource})
    /\ Works("release path")
    /\ modesSet' = IF status' = "failed" THEN modesSet ELSE modesSet \cup {Path}
    /\ UNCHANGED <<argVars, loopVars, offered, supported, pastVars>>

(* A path that is not taken back ends the commit, its mode stays set.       *)
ReleaseCommitPath ==
    /\ pc = "release path"
    /\ Uses({v.path}) /\ Releases("path", "acquire path")
    /\ left' = left - 1
    /\ unreleased' = (unreleased \/ status' = "failed")
    /\ UNCHANGED <<argVars, side, doneVars, refused, nextFailed, tidied>>

-----------------------------------------------------------------------------
(* The way out.                                                            *)

(* Deviations: the last path is forgotten; a set goes before its mode.      *)
CleanupOrderShort ==
    IF op = "enum" THEN <<"pinnedSource", "pinnedTarget", "path", "source", "target">>
    ELSE <<"pinnedSource", "source", "path">>
CleanupOrderSwapped ==
    IF op = "enum" THEN <<"source", "target", "pinnedSource", "pinnedTarget", "path", "temp">>
    ELSE <<"source", "pinnedSource", "path">>

CleanupOrder ==
    IF op = "enum" THEN <<"pinnedSource", "pinnedTarget", "path", "temp", "source", "target">>
    ELSE <<"pinnedSource", "source", "path">>

(* The set a mode info is released from.                                   *)
WithSet(f) == CASE f = "pinnedSource" -> {v.source, v.pinnedSource}
                [] f = "pinnedTarget" -> {v.target, v.pinnedTarget}
                [] OTHER -> {v[f]}

(* Each release is tried once; a failure is noted by an assertion only.     *)
CleanUp ==
    /\ pc = "cleanup"
    /\ \E k \in DOMAIN CleanupOrder :
          LET f == CleanupOrder[k]
          IN  /\ v[f] # Null
              /\ \A j \in 1 .. k - 1 : v[CleanupOrder[j]] = Null
              /\ Uses(WithSet(f))
              /\ v' = [v EXCEPT ![f] = Null]
              /\ \/ held' = held \ {v[f]} /\ UNCHANGED refused
                 \/ refused' = refused \cup {v[f]} /\ UNCHANGED held
    /\ tidied' = TRUE
    /\ UNCHANGED <<argVars, pc, loopVars, status, doneVars, nextFailed, unreleased>>

Returns ==
    /\ pc = "cleanup"
    /\ \A k \in DOMAIN CleanupOrder : v[CleanupOrder[k]] = Null
    /\ pc' = "returned"
    /\ status' = IF status = "no more" THEN "ok" ELSE status
    /\ UNCHANGED <<argVars, v, loopVars, doneVars, held, misused, pastVars>>

Next ==
    \/ StartEnum \/ AcquireSourceSet \/ AcquirePinnedSource
    \/ ReleaseOldSource \/ CreateSourceSet \/ AssignSourceSet
    \/ AcquireTargetSet \/ AcquirePinnedTarget
    \/ ReleaseOldTarget \/ CreateTargetSet \/ AssignTargetSet
    \/ DropPinnedTarget \/ DropTargetSet \/ DropPinnedSource \/ DropSourceSet
    \/ UpdatePathSupport \/ AcquireNextPath \/ ReleaseLastPath
    \/ StartMonitor \/ CreateMode \/ AddMode \/ ReleaseMode
    \/ StartCommit \/ AcquireCommitSet \/ AcquireCommitMode \/ CheckMode
    \/ AcquireCommitPath \/ SetModeOfPath \/ ReleaseCommitPath
    \/ CleanUp \/ Returns

Spec == Init /\ [][Next]_vars

-----------------------------------------------------------------------------
(* Handles are only released while they are held, once, a mode info before  *)
(* the mode set it came from, and no call is made with one that was given   *)
(* back, whichever calls fail.  Excepted is the path after a failed         *)
(* pfnAcquireNextPathInfo, which two variables may then hold.               *)
UsesHeld == \A h \in misused : nextFailed /\ h[1] = "path"

(* A call returns everything it acquired, except where dxgkrnl refused to   *)
(* take it back.                                                           *)
NothingHeld == pc = "returned" => held \ {MonitorSet} \subseteq refused

(* A successful EnumVidPnCofuncModality has offered modes for every source   *)
(* and target that is neither the pivot nor pinned, and for no other, and    *)
(* the scalings of every path where they are neither.                       *)
ModesOffered ==
    op = "enum" /\ pc = "returned" /\ status = "ok" =>
        /\ offered = {x \in {"source", "target"} \X (1 .. request.paths) :
                        /\ x[1] \notin request.pinned[x[2]]
                        /\ ~ (request.pivot.kind = x[1] /\ request.pivot[x[1]] = x[2])}
        /\ \A p \in 1 .. request.paths :
              <<"scaling", p>> \in supported <=>
                 /\ "scaling" \notin request.pinned[p]
                 /\ ~ (request.pivot.kind = "scaling" /\ request.pivot.source = p)

(* Only a commit with a pinned mode sets one.  When it succeeds it has set   *)
(* the mode on every path.  When it fails it takes nothing back, so the      *)
(* driver is left with the new mode where dxgkrnl keeps the old VidPN: the   *)
(* paths it came past have the mode, the later ones do not, and they all     *)
(* have it - as the one path of the adapter does - only where dxgkrnl        *)
(* refused to take back the last (CommitVidPn, the loop and its way out).    *)
CommitSetsModes ==
    /\ modesSet # {} => op = "commit" /\ "source" \in request.pinned[1]
    /\ op = "commit" /\ pc = "returned" /\ status = "ok" /\ tidied =>
          modesSet = IF "source" \in request.pinned[1] THEN 1 .. request.paths ELSE {}
    /\ op = "commit" /\ pc = "returned" /\ status = "failed" /\ modesSet # {} =>
          \E p \in 1 .. request.paths :
             modesSet = p .. request.paths /\ (p = 1 => unreleased)
=============================================================================
