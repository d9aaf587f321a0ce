----------------------------- MODULE FlowSource -----------------------------
(***************************************************************************)
(* What AbstractBPFLoader (src/core/ebpf_loader.py) promises to the loop   *)
(* that polls it: after load(), socket events accumulate in the kernel and *)
(* every poll_flow_stats() atomically drains what it returns; an event is  *)
(* refused when it is raised (ring full, no ring yet) or it stays pending  *)
(* until a poll hands it out, and cleanup() is the only other way to lose  *)
(* it.  Nothing is said of rings, queues, callbacks or locks.              *)
(***************************************************************************)
CONSTANT Events

VARIABLES stage,     \* "new", "open" (load has run) or "closed" (cleanup has)
          pending,   \* events raised and neither drained nor lost
          drained,   \* events some poll has returned
          dropped    \* events no poll will ever return

vars == <<stage, pending, drained, dropped>>

Raised == pending \union drained \union dropped

Init == /\ stage = "new"
        /\ pending = {} /\ drained = {} /\ dropped = {}

Load == /\ stage = "new"
        /\ stage' = "open"
        /\ UNCHANGED <<pending, drained, dropped>>

Close == /\ stage = "open"
         /\ stage' = "closed"
         /\ \E S \in SUBSET pending :
              /\ pending' = pending \ S
              /\ dropped' = dropped \union S
         /\ UNCHANGED drained

Accept(e) == /\ stage = "open"
             /\ e \notin Raised
             /\ pending' = pending \union {e}
             /\ UNCHANGED <<stage, drained, dropped>>

Refuse(e) == /\ stage # "closed"
             /\ e \notin Raised
             /\ dropped' = dropped \union {e}
             /\ UNCHANGED <<stage, pending, drained>>

Drain == /\ \E S \in SUBSET pending :
              /\ pending' = pending \ S
              /\ drained' = drained \union S
         /\ UNCHANGED <<stage, dropped>>

Abandon == /\ stage = "closed"
           /\ \E S \in SUBSET pending :
                /\ pending' = pending \ S
                /\ dropped' = dropped \union S
           /\ UNCHANGED <<stage, drained>>

Next == \/ Load \/ Close \/ Drain \/ Abandon
        \/ \E e \in Events : Accept(e) \/ Refuse(e)

Spec == Init /\ [][Next]_vars

-----------------------------------------------------------------------------
(* While the loader stays open, an accepted event is eventually returned by  *)
(* a poll: the promise the collector's byte totals rest on.                  *)
Delivery == \A e \in Events :
              (e \in pending) ~> (e \in drained \/ stage = "closed")
=============================================================================
