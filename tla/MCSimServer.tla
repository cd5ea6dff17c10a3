----------------------------- MODULE MCSimServer -----------------------------
(* SimServer for TLC: connections and stops are interchangeable.           *)
EXTENDS SimServer, TLC

Symmetry == Permutations(Conns) \cup Permutations(Stops)
=============================================================================
