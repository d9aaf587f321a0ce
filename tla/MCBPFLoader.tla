---------------------------- MODULE MCBPFLoader ----------------------------
(* BPFLoader for TLC: the .cfg gives the sets and bounds.  Liveness is       *)
(* checked with the rest, so no symmetry is used.                            *)
EXTENDS BPFLoader, TLC
=============================================================================
