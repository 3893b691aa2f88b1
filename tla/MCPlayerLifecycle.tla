-------------------------- MODULE MCPlayerLifecycle --------------------------
(* Instances of PlayerLifecycle for TLC.                                    *)
EXTENDS PlayerLifecycle

CONSTANTS p1, w1, d1

One == {p1}
Connection == {w1}
OneDelete == {d1}
Neither == {}
AllDecodable == Track
=============================================================================
