--------------------------- MODULE MCClipboardSync ---------------------------
(* Instances of ClipboardSync for TLC. *)
EXTENDS ClipboardSync

CONSTANTS m1, m2, m3

TwoMachines == {m1, m2}
ThreeMachines == {m1, m2, m3}
BothWays == (TwoMachines \X TwoMachines) \ {<<m1, m1>>, <<m2, m2>>}
AllWays == {l \in ThreeMachines \X ThreeMachines : l[1] # l[2]}
=============================================================================
