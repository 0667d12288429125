---------------------------- MODULE MCScrollFocus ----------------------------
(* Instances of ScrollFocus for TLC. *)
EXTENDS ScrollFocus, TLC

CONSTANTS d1, d2

TwoDests == {d1, d2}
=============================================================================
