-------------------------- MODULE MCActiveTransport --------------------------
(* Instances of ActiveTransport for TLC. *)
EXTENDS ActiveTransport

CONSTANTS d1, d2

TwoDests == {d1, d2}
=============================================================================
