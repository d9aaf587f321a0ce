---------------------------- MODULE MCAttribution ----------------------------
(* Instances of Attribution: names, but for the empty one, and PIDs are interchangeable. *)
EXTENDS Attribution, TLC

Symmetry == Permutations(Comms \ {Empty}) \union Permutations(Pids)
=============================================================================
