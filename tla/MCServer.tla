------------------------------ MODULE MCServer ------------------------------
(* The server for TLC: a few workers, connections and signals.             *)
EXTENDS Server, TLC

ServerSymmetry == Permutations(Workers) \cup Permutations(Fd) \cup Permutations(Sigs)
=============================================================================
