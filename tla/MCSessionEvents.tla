-------------------------- MODULE MCSessionEvents --------------------------
(* SessionEvents with small constants for TLC.                             *)
EXTENDS SessionEvents, TLC

CONSTANTS s1, c1, c2, c3, e1, e2

OneShard == [s \in SessionId |-> "shard"]

Symmetry == Permutations(Conn) \cup Permutations(Emitter)
=============================================================================
