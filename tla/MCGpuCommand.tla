---------------------------- MODULE MCGpuCommand ----------------------------
(* Constants and symmetry for model-checking GpuCommand.                   *)
EXTENDS GpuCommand, TLC

CONSTANTS b1, b2, b3, d1, d2

(* QEMU raises a configuration change with both bits; a device may raise    *)
(* the configuration bit alone.                                            *)
BothBits == {{"queue", "config"}}
EitherBits == BothBits \cup {{"config"}}

(* Every command nobody waits for carries data, so that commands of two      *)
(* lengths share the control queue; or none does.                           *)
Attach == {3}
TwoDescriptors == {2}

Unload == {"unload"}
PowerAndUnload == {"power", "unload"}
NoCycles == {}

(* The state without what is dead: the event pointer of a vbuf nobody will  *)
(* dispose of (GetBuf clears it), the event of a thread that is not waiting, *)
(* the DPC's reason outside its loop body.  Every action writes these before *)
(* it reads them.                                                          *)
LiveView ==
    <<freeBufs, lost, [b \in Bufs |-> IF b \in InQueues \cup {dpcBuf}
                                       \/ \E t \in Threads : Holds(t) /\ hand[t] = b
                                     THEN event[b] ELSE NoThread],
      ctrlDev, ctrlUsed, ctrlRoom, ctrlCost, crsrDev, crsrUsed, crsrRoom, crsrCost,
      pc, hand, [t \in Threads |-> pc[t] = "wait" /\ woken[t]],
      owed, isr, eventsRead, changes, isrWork, isrDpc, swallowed, pending,
      dpcQueued, dpcPc, IF dpcPc \in {"ctrl", "cursor", "change"} THEN reason ELSE {},
      dpcBuf, configEvent, stop, hwInit, opened, phase, bugcheck>>

BufSymmetry == Permutations(Bufs)
BufThreadSymmetry == Permutations(Bufs) \cup Permutations(Ddi)
=============================================================================
