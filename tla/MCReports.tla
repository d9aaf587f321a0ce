----------------------------- MODULE MCReports -----------------------------
(* Instances of Reports: one PID that sends to a public peer under one      *)
(* name and receives from a private one under another, and a process of     *)
(* that second name that sends over UDP to nobody knows whom.               *)
EXTENDS Reports, TLC

CONSTANTS m1, m2, m3, curl, dig, daemon, web, host, lo, any, lan, net

Pids3   == (m1 :> curl) @@ (m2 :> curl) @@ (m3 :> dig)
Dirs3   == (m1 :> "EGRESS") @@ (m2 :> "INGRESS") @@ (m3 :> "EGRESS")
Protos3 == (m1 :> "TCP") @@ (m2 :> "TCP") @@ (m3 :> "UDP")
Comms3  == (m1 :> "a") @@ (m2 :> "b") @@ (m3 :> "b")
Peers3  == (m1 :> net) @@ (m2 :> lan) @@ (m3 :> any)

All == [t \in Trackers |-> "ALL"]
=============================================================================
