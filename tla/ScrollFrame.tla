----------------------------- MODULE ScrollFrame ------------------------------
(***************************************************************************)
(* What ScrollSender::send makes of one scroll event                       *)
(* (src/scroll/sender.rs:44-128): libinput's degrees become v120 units and *)
(* whole clicks, written to uinput as one frame.  Deltas are counted in    *)
(* sixteenths of a degree, so that fractions of a unit occur.              *)
(***************************************************************************)
EXTENDS Integers, Sequences

CONSTANTS
    Deltas,  \* the deltas TLC tries
    MaxValue \* the largest i32

ASSUME FrameAssumption == Deltas \subseteq Int /\ MaxValue \in Nat \ {0}

Abs(n) == IF n < 0 THEN -n ELSE n

\* Faulty: division that rounds down.
Floored(n, d) == n \div d

\* Division that truncates toward zero, as Rust's / and its float-to-integer cast do.
Truncated(n, d) == IF n < 0 THEN -((-n) \div d) ELSE n \div d

\* (delta * SCALE) as i32: 8 units per degree, saturating.
HiRes(delta) ==
    LET units == Truncated(8 * delta, 16)
    IN IF units > MaxValue THEN MaxValue
       ELSE IF units < -MaxValue - 1 THEN -MaxValue - 1
       ELSE units

\* hi_res / 120
Clicks(hiRes) == Truncated(hiRes, 120)

Event(code, value) == [code |-> code, value |-> value]

\* The deltas whose units an i32 holds.
InRange(delta) == 8 * Abs(delta) <= 16 * MaxValue

\* What is zero is left out.
Pushed(code, value) == IF value = 0 THEN << >> ELSE << Event(code, value) >>

\* The buffer that is written: SYN_REPORT ends the frame.
Frame(dx, dy) ==
    LET hx == HiRes(dx)
        hy == HiRes(dy)
    IN Pushed("REL_WHEEL_HI_RES", hy) \o Pushed("REL_HWHEEL_HI_RES", hx)
         \o Pushed("REL_WHEEL", Clicks(hy)) \o Pushed("REL_HWHEEL", Clicks(hx))
         \o << Event("SYN_REPORT", 0) >>

-----------------------------------------------------------------------------
\* What a frame says with code, 0 if the code is not in it.
Says(frame, code) ==
    IF \E i \in DOMAIN frame : frame[i].code = code
    THEN frame[CHOOSE i \in DOMAIN frame : frame[i].code = code].value
    ELSE 0

Agree(hiRes, clicks) ==
    /\ Abs(120 * clicks) <= Abs(hiRes)
    /\ Abs(hiRes) < Abs(120 * clicks) + 120
    /\ hiRes * clicks >= 0

Consistent(dx, dy) ==
    LET f == Frame(dx, dy)
    IN /\ Agree(Says(f, "REL_WHEEL_HI_RES"), Says(f, "REL_WHEEL"))
       /\ Agree(Says(f, "REL_HWHEEL_HI_RES"), Says(f, "REL_HWHEEL"))
       /\ InRange(dy) => Abs(16 * Says(f, "REL_WHEEL_HI_RES") - 8 * dy) < 16
       /\ InRange(dx) => Abs(16 * Says(f, "REL_HWHEEL_HI_RES") - 8 * dx) < 16

AllConsistent == \A dx, dy \in Deltas : Consistent(dx, dy)
=============================================================================
