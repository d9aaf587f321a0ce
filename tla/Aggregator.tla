----------------------------- MODULE Aggregator -----------------------------
(***************************************************************************)
(* The data of FlowAggregator (src/core/aggregator.py): what one metric    *)
(* does to the protocol filter and to its process's entry of _session_map. *)
(* Every metric stands for one unit of bytes, so a byte total is a count   *)
(* of metrics and a rate is a count of the metrics of one interval.        *)
(***************************************************************************)
EXTENDS Naturals, FiniteSets

CONSTANTS Metrics,   \* raw metrics, each polled at most once
          PidOf,     \* [Metrics -> pids]
          DirOf,     \* [Metrics -> {"EGRESS", "INGRESS"}]
          ProtoOf    \* [Metrics -> {"TCP", "UDP"}]: what the probes submit

ASSUME MetricsAssumption ==
  /\ IsFiniteSet(Metrics)
  /\ DirOf \in [Metrics -> {"EGRESS", "INGRESS"}]
  /\ ProtoOf \in [Metrics -> {"TCP", "UDP"}]
  /\ DOMAIN PidOf = Metrics

Pids    == {PidOf[m] : m \in Metrics}
Filters == {"ALL", "TCP", "UDP"}

(* config.protocol_filter f lets metric m through. *)
Passes(f, m) == f = "ALL" \/ f = ProtoOf[m]

-----------------------------------------------------------------------------
(* One entry of _session_map. *)
Entry == [sent : Nat, recv : Nat, sendRate : Nat, recvRate : Nat,
          tcp : Nat, udp : Nat]

NewEntry == [sent |-> 0, recv |-> 0, sendRate |-> 0, recvRate |-> 0,
             tcp |-> 0, udp |-> 0]

(* Faults: the download rate survives the reset; the totals do not. *)
QuietUpload(entry) == [entry EXCEPT !.sendRate = 0]
QuietAll(entry)    == NewEntry

(* The reset of the instantaneous rates at the start of a summary. *)
Quiet(entry) == [entry EXCEPT !.sendRate = 0, !.recvRate = 0]

(* Fault: an upload is taken off the downloads. *)
AddSigned(entry, m) == [entry EXCEPT !.recv = IF DirOf[m] = "EGRESS" THEN @ - 1 ELSE @ + 1]

(* The body of summarize_by_process's loop over the records. *)
Add(entry, m) ==
  LET out == IF DirOf[m] = "EGRESS" THEN 1 ELSE 0
      tcp == IF ProtoOf[m] = "TCP" THEN 1 ELSE 0
  IN  [sent     |-> entry.sent + out,
       recv     |-> entry.recv + (1 - out),
       sendRate |-> entry.sendRate + out,
       recvRate |-> entry.recvRate + (1 - out),
       tcp      |-> entry.tcp + tcp,
       udp      |-> entry.udp + (1 - tcp)]

-----------------------------------------------------------------------------
(* The totals a set of metrics should give process p. *)
SentBy(p, S)     == Cardinality({m \in S : PidOf[m] = p /\ DirOf[m] = "EGRESS"})
ReceivedBy(p, S) == Cardinality({m \in S : PidOf[m] = p /\ DirOf[m] = "INGRESS"})
=============================================================================
