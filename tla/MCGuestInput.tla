----------------------------- MODULE MCGuestInput -----------------------------
(* An instance of GuestInput and of the frames its sender writes, for TLC. *)
EXTENDS GuestInput

CONSTANT b

\* Fractions of a unit, single units, around one click and two, a turn of the wheel.
SomeDeltas == {-3841, -480, -241, -240, -239, -16, -1, 0, 1, 2, 3, 16, 239, 240, 241, 480, 900}
=============================================================================
