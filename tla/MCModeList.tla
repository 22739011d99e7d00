----------------------------- MODULE MCModeList -----------------------------
(* Constants for model-checking ModeList.                                  *)
EXTENDS ModeList

(* Sizes that share a width or a height once they are truncated and raised   *)
(* to the minimum, so that a half-written slot may look like another one;    *)
(* one too large for a USHORT that is below the minimum without its upper    *)
(* half; no display.                                                       *)
Sizes == {<<0, 0>>, <<1600, 900>>, <<65536 + 640, 900>>}

(* What a thread has in its locals only counts while it still reads it, and  *)
(* the newest size only until a second change begins.                      *)
Live ==
    <<listVars, hostVars, pc, dxg, offered, disp, frameBuf, spoiled, raced, clash, early, slept,
      fault, [t \in Threads |-> IF pc[t] \in Writing THEN asked[t] ELSE NoSize],
      [t \in Threads |-> IF pc[t] \in Filling THEN slot[t] ELSE 0],
      IF dxg \in {"starting", "idle"} THEN 0 ELSE reading,
      IF dxg \in {"enum_height", "match_height"} THEN width ELSE 0, frameBytes,
      IF writes > 1 THEN NoSize ELSE newest, writes > 1, writes > 0>>
=============================================================================
