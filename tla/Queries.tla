------------------------------ MODULE Queries ------------------------------
(***************************************************************************)
(* What is computed from flows once they are collected: the three queries  *)
(* of DatabaseManager (src/storage/db.py) with the sums the CLI makes of   *)
(* their answers (src/ui/cli.py), and the "Remote IP" column of the live   *)
(* tables (src/core/aggregator.py, src/storage/models.py).                 *)
(*                                                                         *)
(* A row has an id, the metric it was made of, the tracker it was made by, *)
(* and its dst_ip.  It stands for one unit of bytes.                       *)
(***************************************************************************)
EXTENDS Aggregator, FiniteSetsExt

CONSTANTS CommOf,       \* [Metrics -> the name a metric is stored under]
          PeerOf,       \* [Metrics -> the address at the other end]
          Host,         \* this machine's own address
          Loopback, AnyAddress,   \* 127.0.0.1, 0.0.0.0
          Public        \* the addresses that are not is_private

ASSUME FlowsAssumption == /\ DOMAIN CommOf = Metrics /\ DOMAIN PeerOf = Metrics
                          /\ Loopback # AnyAddress /\ Host \notin {Loopback, AnyAddress}
                          /\ {Host, Loopback, AnyAddress} \intersect Public = {}

-----------------------------------------------------------------------------
(* Addresses.  The probes submit the local end as source of either           *)
(* direction; a socket without a peer, or with an IPv6 one, has no address   *)
(* at either end.  The simulation (mock) swaps the ends of what it receives. *)
LocalOf(m) == IF PeerOf[m] \in {Loopback, AnyAddress} THEN PeerOf[m] ELSE Host
Swapped(mock, m) == mock /\ DirOf[m] = "INGRESS"
SrcIp(mock, m) == IF Swapped(mock, m) THEN PeerOf[m] ELSE LocalOf(m)
DstIp(mock, m) == IF Swapped(mock, m) THEN LocalOf(m) ELSE PeerOf[m]

(* Fault: the source of a download is taken for its peer. *)
RemoteIpSource(mock, m) ==
  (IF DirOf[m] = "INGRESS" THEN {SrcIp(mock, m)} ELSE {DstIp(mock, m)}) \ {AnyAddress}

(* The address summarize_by_process adds to remote_ips, if any. *)
RemoteIp(mock, m) ==
  LET d == DstIp(mock, m)
      s == SrcIp(mock, m)
      local == {Loopback, AnyAddress}
  IN  IF DirOf[m] = "EGRESS" \/ d \notin local THEN {d} \ {AnyAddress}
      ELSE IF s \notin local \/ d = AnyAddress THEN {s} \ {AnyAddress}
      ELSE {d}

(* remote_ips_str: of these it writes two and counts the others; {} is "-".  *)
RemoteColumn(ips) ==
  LET valid == ips \ {AnyAddress, Loopback}
  IN  IF valid = {} THEN ips \intersect {Loopback}
      ELSE IF valid \intersect Public # {} THEN valid \intersect Public
      ELSE valid

-----------------------------------------------------------------------------
(* The queries, over the rows of the window that WHERE has left.             *)

(* Fault: SUM(bytes_delta) without its CASE. *)
EgressAll(rows) == Cardinality(rows)

(* SUM(CASE WHEN direction = ... THEN bytes_delta ELSE 0 END) *)
Egress(rows)  == Cardinality({r \in rows : DirOf[r.flow] = "EGRESS"})
Ingress(rows) == Cardinality({r \in rows : DirOf[r.flow] = "INGRESS"})

(* Fault: GROUP BY comm *)
GroupOfName(rows, r) == {q \in rows : CommOf[q.flow] = CommOf[r.flow]}

(* GROUP BY pid, comm *)
GroupOf(rows, r) == {q \in rows : /\ PidOf[q.flow] = PidOf[r.flow]
                                  /\ CommOf[q.flow] = CommOf[r.flow]}

TopProcesses(rows) ==
  {LET g == GroupOf(rows, r)
   IN  [pid |-> PidOf[r.flow], comm |-> CommOf[r.flow], sent |-> Egress(g),
        recv |-> Ingress(g), total |-> Cardinality(g)] : r \in rows}

(* ORDER BY total_bytes DESC LIMIT n: which of equals come out is up to      *)
(* SQLite, so there may be several answers.                                  *)
GetTopProcesses(rows, n) ==
  LET all == TopProcesses(rows)
  IN  {T \in SUBSET all : /\ Cardinality(T) = (IF Cardinality(all) < n
                                               THEN Cardinality(all) ELSE n)
                          /\ \A g \in T, h \in all \ T : g.total >= h.total}

(* GROUP BY dst_ip, proto *)
GetRemoteIpBreakdown(rows) ==
  {LET g == {q \in rows : /\ q.dst = r.dst
                          /\ ProtoOf[q.flow] = ProtoOf[r.flow]}
   IN  [ip |-> r.dst, proto |-> ProtoOf[r.flow], total |-> Cardinality(g)]
     : r \in rows}

(* GROUP BY proto: a protocol with no row has no entry. *)
GetProtocolDistribution(rows) ==
  [p \in {ProtoOf[r.flow] : r \in rows} |-> Cardinality({r \in rows : ProtoOf[r.flow] = p})]

(* The TOTAL row of the history report. *)
HistoryTotal(T) == [sent |-> SumFunction([g \in T |-> g.sent]),
                    recv |-> SumFunction([g \in T |-> g.recv])]
=============================================================================
