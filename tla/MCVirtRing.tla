----------------------------- MODULE MCVirtRing -----------------------------
(* Constants and symmetry for model-checking VirtRing.                     *)
EXTENDS VirtRing, TLC

CONSTANTS t1, t2, t3

(* The descriptor counts viogpu uses: a cursor update is one readable      *)
(* descriptor, a control command is a command and its response, an attach  *)
(* has its entries besides.                                                *)
CursorAttach == {<<1, 0>>, <<2, 1>>}
SmallShapes == {<<1, 0>>, <<1, 1>>}

(* This driver: VIRTIO_RING_F_EVENT_IDX is not negotiated although the      *)
(* queue is constructed with event, and kick_always follows every add.      *)
Viogpu == [vqEvent |-> TRUE, devEvent |-> FALSE, kickEach |-> TRUE,
           callbacks |-> FALSE, polled |-> FALSE, faulty |-> FALSE,
           indirect |-> FALSE]

(* The whole of the library: callers that turn interrupts off and add       *)
(* several buffers before a kick, with flags and with event indices.        *)
ByFlags == [Viogpu EXCEPT !.vqEvent = FALSE, !.kickEach = FALSE, !.callbacks = TRUE]
ByEvents == [ByFlags EXCEPT !.vqEvent = TRUE, !.devEvent = TRUE]

(* This driver where only the descriptors are of interest, with and without *)
(* indirect tables; and with a device that posts ids nobody gave it.        *)
Polled == [Viogpu EXCEPT !.polled = TRUE]
Indirect == [Polled EXCEPT !.indirect = TRUE]
Faulty == [Polled EXCEPT !.faulty = TRUE]

TableSetups == {Polled, Indirect}
SignalSetups == {Viogpu, ByFlags, ByEvents, Faulty}
ViogpuSetup == {Viogpu}

(* The state without what is dead: flags of free descriptors, tables that   *)
(* no indirect descriptor in use points to, and ring entries outside the    *)
(* windows between the indices.  Every action writes these before it reads  *)
(* them and no invariant of the runs that use this view looks at them, so   *)
(* states that agree on the view behave alike.                             *)
Unread(d, from, to) == \E k \in 0 .. Minus(to, from) - 1 : d = (from + k) % Num

LiveView ==
    LET free == FreeSlots IN
    <<[d \in Slots |-> IF d \in free THEN desc[d].next ELSE desc[d]],
      freeHead, numFree, data, shape,
      [d \in HeadsInUse |-> IF "INDIRECT" \in desc[d].flags THEN table[d] ELSE <<>>],
      [d \in Slots |-> IF (devState # "reset" /\ Unread(d, devLast, availIdx))
                           \/ (adding # NoHead /\ d = availIdx % Num)
                       THEN availRing[d] ELSE 0],
      [d \in Slots |-> IF Unread(d, lastUsed, usedIdx) THEN usedRing[d] ELSE 0],
      availIdx, numAdded, noInterrupt, usedEvent, lastUsed, usedIdx,
      availEvent, noNotify, devLast, inflight, devState, signalled,
      notified, intr, adding, enabling, polling, setup, spurious>>

TokenSymmetry == Permutations(Tokens)
=============================================================================
