------------------------- MODULE MCSessionPlayers -------------------------
(* SessionPlayers with small constants for TLC.                            *)
EXTENDS SessionPlayers

CONSTANTS s1, c1, c2, r1, r2, d1, g1

OneShard == [s \in SessionId |-> "shard"]
=============================================================================
