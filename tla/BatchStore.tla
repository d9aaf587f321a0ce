----------------------------- MODULE BatchStore -----------------------------
(***************************************************************************)
(* What insert_snapshot_batch (src/storage/db.py) promises when it has its *)
(* connection to itself: a batch is stored whole and the call returns, or  *)
(* the call raises and nothing of the batch is stored; what is stored      *)
(* stays stored.                                                           *)
(***************************************************************************)
CONSTANTS Batches, RowsOf(_)

VARIABLES rows,     \* rows every reader can see
          acked,    \* batches whose insert returned
          failed    \* batches whose insert raised, or whose process died

vars == <<rows, acked, failed>>

Settled == acked \union failed

Init == rows = {} /\ acked = {} /\ failed = {}

Store(b) == /\ b \notin Settled
            /\ rows' = rows \union RowsOf(b)
            /\ acked' = acked \union {b}
            /\ UNCHANGED failed

Reject(B) == /\ B \intersect Settled = {}
             /\ failed' = failed \union B
             /\ UNCHANGED <<rows, acked>>

Next == \/ \E b \in Batches : Store(b)
        \/ \E B \in SUBSET Batches : Reject(B)

Spec == Init /\ [][Next]_vars
=============================================================================
