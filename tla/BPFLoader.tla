------------------------------ MODULE BPFLoader ------------------------------
(***************************************************************************)
(* BCCBPFLoader (src/core/ebpf_loader.py) above the kprobes of             *)
(* src/bpf/tracker.bpf.c.  One bounded perf ring per CPU; a poll reads the *)
(* rings that are ready, each sample runs _event_cb, which appends to      *)
(* _queue under _lock, and the poll then swaps _queue for an empty list.   *)
(* cleanup() runs in another thread (BackgroundCollector.stop) and may     *)
(* fall anywhere inside a poll.  Two pollers are two collector threads on  *)
(* one loader, which start() after stop() can produce.                     *)
(*                                                                         *)
(* An event is <<cpu, n>>, the n-th accepted call on that CPU.  libbcc is  *)
(* external: it is assumed to hand each sample of a ring to one callback.  *)
(***************************************************************************)
EXTENDS Naturals, Sequences, Functions

CONSTANTS CPUs,        \* one perf ring each
          Pollers,     \* threads that call poll_flow_stats
          Capacity,    \* samples a ring holds (page_cnt=64 pages in the code)
          MaxEvents    \* bound: accepted calls per CPU

ASSUME CapacityAssumption == Capacity \in Nat /\ MaxEvents \in Nat

VARIABLES phase,       \* the BPF object; self.bpf is None in "new" and "closed"
          emitted,     \* [CPUs -> Nat] calls submit_flow has accepted
          ring,        \* [CPUs -> Seq(Events)] the perf buffer
          lost,        \* events no poll will return
          queue,       \* self._queue
          delivered,   \* history: every list poll_flow_stats returned, in order
          pc,          \* where each poller is in poll_flow_stats
          ready,       \* rings the poller's perf_buffer_poll has still to read
          inflight     \* <<>> or <<e>>: the sample whose _event_cb is running

vars == <<phase, emitted, ring, lost, queue, delivered, pc, ready, inflight>>

Phases == {"new", "attached", "open", "closing", "closed"}
PCs    == {"idle", "waiting", "reading", "draining"}
Events == CPUs \X (1 .. MaxEvents)

NoBpf == phase \in {"new", "closed"}

Ringed   == UNION {Range(ring[c]) : c \in CPUs}
Inflight == UNION {Range(inflight[p]) : p \in Pollers}
Emitted  == {e \in Events : e[2] <= emitted[e[1]]}

Init == /\ phase = "new"
        /\ emitted = [c \in CPUs |-> 0]
        /\ ring = [c \in CPUs |-> <<>>]
        /\ lost = {}
        /\ queue = <<>>
        /\ delivered = <<>>
        /\ pc = [p \in Pollers |-> "idle"]
        /\ ready = [p \in Pollers |-> {}]
        /\ inflight = [p \in Pollers |-> <<>>]

-----------------------------------------------------------------------------
(* The kernel side. *)

(* load() up to the attached kprobes: events are raised, no buffer is open.  *)
Attach == /\ phase = "new"
          /\ phase' = "attached"
          /\ UNCHANGED <<emitted, ring, lost, queue, delivered, pc, ready, inflight>>

(* open_perf_buffer, the last call of load(). *)
OpenBuffer == /\ phase = "attached"
              /\ phase' = "open"
              /\ UNCHANGED <<emitted, ring, lost, queue, delivered, pc, ready, inflight>>

(* Fault: numbers the event before counting it. *)
SubmitStale(c) == /\ phase = "open" /\ emitted[c] < MaxEvents
                  /\ emitted' = [emitted EXCEPT ![c] = @ + 1]
                  /\ ring' = [ring EXCEPT ![c] = Append(@, <<c, emitted[c]>>)]
                  /\ UNCHANGED <<phase, lost, queue, delivered, pc, ready, inflight>>

(* A call of submit_flow that passes its early returns (no socket, nothing   *)
(* copied, pid 0: those calls are stuttering steps).  perf_submit fails      *)
(* silently without a buffer or without room: there is no lost callback.     *)
Submit(c) ==
  LET e == <<c, emitted[c] + 1>> IN
  /\ phase \in {"attached", "open"}
  /\ emitted[c] < MaxEvents
  /\ emitted' = [emitted EXCEPT ![c] = @ + 1]
  /\ \/ /\ phase = "open" /\ Len(ring[c]) < Capacity
        /\ ring' = [ring EXCEPT ![c] = Append(@, e)]
        /\ UNCHANGED lost
     \/ /\ ~(phase = "open" /\ Len(ring[c]) < Capacity)
        /\ lost' = lost \union {e}
        /\ UNCHANGED ring
  /\ UNCHANGED <<phase, queue, delivered, pc, ready, inflight>>

(* cleanup(): bpf.cleanup() detaches the probes and frees the rings ...      *)
CleanupBegin == /\ phase = "open"
                /\ phase' = "closing"
                /\ lost' = lost \union Ringed
                /\ ring' = [c \in CPUs |-> <<>>]
                /\ UNCHANGED <<emitted, queue, delivered, pc, ready, inflight>>

(* ... and only then self.bpf = None. *)
CleanupEnd == /\ phase = "closing"
              /\ phase' = "closed"
              /\ UNCHANGED <<emitted, ring, lost, queue, delivered, pc, ready, inflight>>

-----------------------------------------------------------------------------
(* poll_flow_stats, called over and over by the collector's loop. *)

(* if not self.bpf: return [] -- whatever _queue still holds. *)
PollClosed(p) == /\ pc[p] = "idle" /\ NoBpf
                 /\ UNCHANGED vars

PollBegin(p) == /\ pc[p] = "idle" /\ ~NoBpf
                /\ pc' = [pc EXCEPT ![p] = "waiting"]
                /\ UNCHANGED <<phase, emitted, ring, lost, queue, delivered, ready, inflight>>

(* Fault: a perf buffer opened on one CPU only. *)
WakeOneCpu(p) == /\ pc[p] = "waiting" /\ Ringed # {}
                 /\ pc' = [pc EXCEPT ![p] = "reading"]
                 /\ ready' = [ready EXCEPT ![p] = {CHOOSE c \in CPUs : TRUE}]
                 /\ UNCHANGED <<phase, emitted, ring, lost, queue, delivered, inflight>>

(* perf_buffer_poll finds rings to read. *)
Wake(p) == /\ pc[p] = "waiting"
           /\ Ringed # {}
           /\ pc' = [pc EXCEPT ![p] = "reading"]
           /\ ready' = [ready EXCEPT ![p] = {c \in CPUs : ring[c] # <<>>}]
           /\ UNCHANGED <<phase, emitted, ring, lost, queue, delivered, inflight>>

(* perf_buffer_poll times out; or self.bpf became None after the check and   *)
(* the exception is swallowed.  Both go on to the drain.                     *)
Timeout(p) == /\ pc[p] = "waiting"
              /\ Ringed = {}
              /\ pc' = [pc EXCEPT ![p] = "draining"]
              /\ UNCHANGED <<phase, emitted, ring, lost, queue, delivered, ready, inflight>>

(* libbcc takes the oldest sample of a ready ring and calls _event_cb. *)
TakeSample(p, c) == /\ pc[p] = "reading" /\ c \in ready[p]
                    /\ inflight[p] = <<>>
                    /\ ring[c] # <<>>
                    /\ inflight' = [inflight EXCEPT ![p] = <<Head(ring[c])>>]
                    /\ ring' = [ring EXCEPT ![c] = Tail(@)]
                    /\ UNCHANGED <<phase, emitted, lost, queue, delivered, pc, ready>>

RingRead(p, c) == /\ pc[p] = "reading" /\ c \in ready[p]
                  /\ inflight[p] = <<>>
                  /\ ring[c] = <<>>
                  /\ ready' = [ready EXCEPT ![p] = @ \ {c}]
                  /\ UNCHANGED <<phase, emitted, ring, lost, queue, delivered, pc, inflight>>

PollReturns(p) == /\ pc[p] = "reading" /\ ready[p] = {}
                  /\ inflight[p] = <<>>
                  /\ pc' = [pc EXCEPT ![p] = "draining"]
                  /\ UNCHANGED <<phase, emitted, ring, lost, queue, delivered, ready, inflight>>

(* Fault: the callback puts the record at the front of the queue. *)
EventCbFront(p) == /\ inflight[p] # <<>>
                   /\ queue' = inflight[p] \o queue
                   /\ inflight' = [inflight EXCEPT ![p] = <<>>]
                   /\ UNCHANGED <<phase, emitted, ring, lost, delivered, pc, ready>>

(* _event_cb: the record is built, then appended under _lock. *)
EventCb(p) == /\ inflight[p] # <<>>
              /\ phase # "closed"
              /\ queue' = Append(queue, Head(inflight[p]))
              /\ inflight' = [inflight EXCEPT ![p] = <<>>]
              /\ UNCHANGED <<phase, emitted, ring, lost, delivered, pc, ready>>

(* Fault: the callback raises after it has appended the record. *)
EventCbRaisesLate(p) == /\ inflight[p] # <<>> /\ phase = "closing"
                        /\ queue' = Append(queue, Head(inflight[p]))
                        /\ lost' = lost \union Range(inflight[p])
                        /\ inflight' = [inflight EXCEPT ![p] = <<>>]
                        /\ UNCHANGED <<phase, emitted, ring, delivered, pc, ready>>

(* self.bpf["flow_events"] raises inside the callback once cleanup() has     *)
(* begun: ctypes reports the exception and the sample is gone.               *)
EventCbRaises(p) == /\ inflight[p] # <<>>
                    /\ phase \in {"closing", "closed"}
                    /\ lost' = lost \union Range(inflight[p])
                    /\ inflight' = [inflight EXCEPT ![p] = <<>>]
                    /\ UNCHANGED <<phase, emitted, ring, queue, delivered, pc, ready>>

(* Faults: the queue is returned and not replaced; replaced, then returned.  *)
DrainCopies(p) == /\ pc[p] = "draining"
                  /\ delivered' = delivered \o queue
                  /\ Len(delivered') < 5
                  /\ pc' = [pc EXCEPT ![p] = "idle"]
                  /\ UNCHANGED <<phase, emitted, ring, lost, queue, ready, inflight>>

DrainSwapped(p) == /\ pc[p] = "draining"
                   /\ queue' = <<>>
                   /\ pc' = [pc EXCEPT ![p] = "idle"]
                   /\ UNCHANGED <<phase, emitted, ring, lost, delivered, ready, inflight>>

(* with self._lock: metrics = self._queue; self._queue = []; return metrics *)
Drain(p) == /\ pc[p] = "draining"
            /\ delivered' = delivered \o queue
            /\ queue' = <<>>
            /\ pc' = [pc EXCEPT ![p] = "idle"]
            /\ UNCHANGED <<phase, emitted, ring, lost, ready, inflight>>

PollStep(p) == \/ PollClosed(p) \/ PollBegin(p) \/ Wake(p) \/ Timeout(p)
               \/ \E c \in CPUs : TakeSample(p, c) \/ RingRead(p, c)
               \/ PollReturns(p) \/ EventCb(p) \/ EventCbRaises(p) \/ Drain(p)

Next == \/ Attach \/ OpenBuffer \/ CleanupBegin \/ CleanupEnd
        \/ \E c \in CPUs : Submit(c)
        \/ \E p \in Pollers : PollStep(p)

Spec == Init /\ [][Next]_vars

(* The collector's while loop calls poll again and again and libbcc returns  *)
(* within its timeout.  Nothing is asked of the kernel, load or cleanup.     *)
FairSpec == Spec /\ \A p \in Pollers : WF_vars(PollStep(p))

-----------------------------------------------------------------------------
TypeOK == /\ phase \in Phases
          /\ emitted \in [CPUs -> 0 .. MaxEvents]
          /\ ring \in [CPUs -> Seq(Events)]
          /\ lost \subseteq Events
          /\ queue \in Seq(Events)
          /\ delivered \in Seq(Events)
          /\ pc \in [Pollers -> PCs]
          /\ ready \in [Pollers -> SUBSET CPUs]
          /\ inflight \in [Pollers -> {<<>>} \union {<<e>> : e \in Events}]

(* No byte is counted twice: an event appears at most once in everything the *)
(* polls returned and the queue still holds, whichever threads poll and      *)
(* wherever a callback falls between another thread's read and its swap.     *)
AtMostOnce == /\ IsInjective(queue)
              /\ IsInjective(delivered)
              /\ Range(queue) \intersect Range(delivered) = {}

(* No byte disappears unseen: every accepted call is in a ring, in a         *)
(* callback, queued, returned by a poll, or among the losses the code makes  *)
(* (no buffer, ring full, cleanup).                                          *)
Accounted == Emitted = Ringed \union Inflight \union Range(queue)
                         \union Range(delivered) \union lost

(* An event counted as lost is really lost: no poll returns it later and no  *)
(* buffer still holds it.                                                    *)
LostForGood == lost \intersect (Ringed \union Inflight \union Range(queue)
                                  \union Range(delivered)) = {}

(* With one polling thread the records of a CPU reach the aggregator in the  *)
(* order of the calls: the aggregator lets the last comm of a batch win.     *)
PerCpuOrder == \A i, j \in DOMAIN delivered :
                 i < j /\ delivered[i][1] = delivered[j][1]
                   => delivered[i][2] < delivered[j][2]

(* The loader implements the abstract source: what is in rings, callbacks    *)
(* and queue is pending, and a poll's swap is the atomic drain.              *)
Source == INSTANCE FlowSource WITH
            stage   <- IF phase \in {"new", "attached"} THEN "new"
                         ELSE IF phase = "open" THEN "open" ELSE "closed",
            pending <- Ringed \union Inflight \union Range(queue),
            drained <- Range(delivered),
            dropped <- lost

ImplementsSource == Source!Spec
EventuallyReturned == Source!Delivery
=============================================================================
