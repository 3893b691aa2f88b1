------------------------- MODULE MCSessionRegistry -------------------------
(* SessionRegistry with small constants for TLC.                           *)
EXTENDS SessionRegistry

CONSTANTS s1, s2, c1, c2, c3, r1

(* Both sessions hash to the same shard, so a request on one of them holds *)
(* up the connection of the other.                                         *)
OneShard == [s \in SessionId |-> "shard"]
=============================================================================
