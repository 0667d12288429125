---------------------- MODULE MCActiveTransportHistory ----------------------
(* Instance of ActiveTransportHistory for TLC. *)
EXTENDS ActiveTransportHistory, TLC

CONSTANTS d1, d2, d3

TwoDests == {d1, d2}
ThreeDests == {d1, d2, d3}

\* d3 is the machine the source does not list: only d1 and d2 are alike.
Symmetry == Permutations({d1, d2})
=============================================================================
