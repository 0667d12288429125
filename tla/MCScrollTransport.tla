-------------------------- MODULE MCScrollTransport --------------------------
(* An instance of ScrollTransport for TLC: two machines, or one that is listed twice. *)
EXTENDS ScrollTransport, TLC

CONSTANTS p1, p2, k1, k2

TwoPeers == {p1, p2}
SomeConfigs == {p1 :> k1 @@ p2 :> k2, p1 :> k1 @@ p2 :> k1}
=============================================================================
