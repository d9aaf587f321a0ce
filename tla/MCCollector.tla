---------------------------- MODULE MCCollector ----------------------------
(* Instances of Collector: three metrics of two processes, both directions   *)
(* and both protocols; model values keep metrics and pids apart.             *)
EXTENDS Collector, TLC

CONSTANTS m1, m2, m3, curl, dig

PidsOf3   == (m1 :> curl) @@ (m2 :> curl) @@ (m3 :> dig)
DirsOf3   == (m1 :> "EGRESS") @@ (m2 :> "INGRESS") @@ (m3 :> "EGRESS")
ProtosOf3 == (m1 :> "TCP") @@ (m2 :> "TCP") @@ (m3 :> "UDP")

PidsOf2   == (m1 :> curl) @@ (m2 :> curl)
DirsOf2   == (m1 :> "EGRESS") @@ (m2 :> "EGRESS")
ProtosOf2 == (m1 :> "TCP") @@ (m2 :> "UDP")
=============================================================================
