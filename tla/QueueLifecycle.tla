--------------------------- MODULE QueueLifecycle ---------------------------
(***************************************************************************)
(* What the per-session message queue promises about one item, whatever    *)
(* the operation, the crash or the failed write: an item is admitted once, *)
(* moves only forward along the lifecycle that queue.go documents, and     *)
(* once it has left the queue it never comes back.                         *)
(*                                                                         *)
(* One concrete step may move several items (a List recovers and compacts  *)
(* in one critical section), so the abstract step relates every item's old *)
(* state to its new one.                                                   *)
(***************************************************************************)
CONSTANTS ItemIds

VARIABLE st             \* st[i] is the lifecycle state of item i

ItemStates == {"none", "pending", "dispatching", "sent", "failed", "unknown",
               "gone"}

Terminal == {"sent", "failed", "unknown"}

\* isTerminalState and the matrix of Resolve: the states an item may be found
\* in after one more durable step.  "unknown" may still be healed to "sent" or
\* be certified for redelivery; "sent" and "failed" are final.
Successors(s) ==
    {s} \cup
    CASE s = "none"        -> {"pending"}
      [] s = "pending"     -> {"dispatching", "gone"}
      [] s = "dispatching" -> Terminal \cup {"gone"}
      [] s = "unknown"     -> {"sent", "dispatching", "gone"}
      [] s = "sent"        -> {"gone"}
      [] s = "failed"      -> {"gone"}
      [] s = "gone"        -> {}

LifecycleTypeOK == st \in [ItemIds -> ItemStates]

Init == st = [i \in ItemIds |-> "none"]

Next == /\ st' \in [ItemIds -> ItemStates]
        /\ \A i \in ItemIds : st'[i] \in Successors(st[i])

Spec == Init /\ [][Next]_st
=============================================================================
