--------------------------- MODULE VirtQueueSpec ---------------------------
(***************************************************************************)
(* What a virtqueue promises to the driver that uses it, without rings,    *)
(* descriptors or indices: a bounded store of tokens.  The driver submits a *)
(* token that needs n descriptors when there is room for n, the device      *)
(* completes tokens in any order, and the driver gets them back in the      *)
(* order of completion, each exactly once.                                  *)
(***************************************************************************)
LOCAL INSTANCE Naturals
LOCAL INSTANCE Sequences

CONSTANTS Tokens,    (* the cookies a driver hands to virtqueue_add_buf *)
          Capacity   (* descriptors in the queue                        *)

VARIABLES device,    (* tokens the device has not completed yet          *)
          used,      (* completed tokens, oldest first                   *)
          room,      (* free descriptors                                 *)
          cost       (* descriptors a token holds, 0 when it is idle     *)

qvars == <<device, used, room, cost>>

InUsed(t) == \E i \in 1 .. Len(used) : used[i] = t

(* The sequence s without the elements that are t.                         *)
Without(s, t) ==
    LET kept[i \in 0 .. Len(s)] ==
          IF i = 0 THEN <<>>
          ELSE IF s[i] = t THEN kept[i - 1] ELSE Append(kept[i - 1], s[i])
    IN  kept[Len(s)]

QInit ==
    /\ device = {}
    /\ used = <<>>
    /\ room = Capacity
    /\ cost = [t \in Tokens |-> 0]

Submit(t, n) ==
    /\ t \notin device
    /\ ~ InUsed(t)
    /\ n \in 1 .. room
    /\ device' = device \cup {t}
    /\ room' = room - n
    /\ cost' = [cost EXCEPT ![t] = n]
    /\ UNCHANGED used

Complete(t) ==
    /\ t \in device
    /\ device' = device \ {t}
    /\ used' = Append(used, t)
    /\ UNCHANGED <<room, cost>>

Return ==
    /\ used # <<>>
    /\ used' = Tail(used)
    /\ room' = room + cost[Head(used)]
    /\ cost' = [cost EXCEPT ![Head(used)] = 0]
    /\ UNCHANGED device

(* A token is given back unprocessed.  VirtRing and GpuCommand do this and    *)
(* Forget to a device that was reset only; the store does not know of resets. *)
Withdraw(t) ==
    /\ t \in device \/ InUsed(t)
    /\ device' = device \ {t}
    /\ used' = Without(used, t)
    /\ room' = room + cost[t]
    /\ cost' = [cost EXCEPT ![t] = 0]

(* A queue that is shut down forgets every token at once.                  *)
Forget ==
    /\ device' = {}
    /\ used' = <<>>
    /\ room' = Capacity
    /\ cost' = [t \in Tokens |-> 0]

QNext ==
    \/ \E t \in Tokens : \/ \E n \in 1 .. Capacity : Submit(t, n)
                         \/ Complete(t)
                         \/ Withdraw(t)
    \/ Return
    \/ Forget

QSpec == QInit /\ [][QNext]_qvars

=============================================================================
