-------------------------- MODULE MCSnapshotStore --------------------------
(* Instances of SnapshotStore: a dashboard whose API threads share the       *)
(* collector's connection beside a daemon, and two daemons beside a CLI.     *)
EXTENDS SnapshotStore, TLC

CONSTANTS web, daemon, cli, w1, w2, r1, r2

SharedConns  == (w1 :> web) @@ (r1 :> web) @@ (r2 :> web) @@ (w2 :> daemon)
SeparateConns == (w1 :> web) @@ (w2 :> daemon) @@ (r1 :> cli)

BatchSymmetry == Permutations(Batches)
=============================================================================
