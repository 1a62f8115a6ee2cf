----------------------------- MODULE MC_HidServer -----------------------------
(* Small instances of HidServer: two keystrokes, one button, and targets    *)
(* two steps away on one axis and one on the other.                         *)
EXTENDS HidServerInv, TLC

CONSTANTS c1, c2, lower, enter, left

MCChar == {"a", "nl", "cr", "emoji"}
(* The table has the same stroke for newline and carriage return.           *)
MCStrokeOf ==
  [ch \in MCChar |-> CASE ch = "a" -> lower [] ch \in {"nl", "cr"} -> enter
                       [] OTHER -> Nothing]
Point(px, py) == [a \in Axis |-> IF a = "x" THEN px ELSE py]

(* A DOS line end, an unsupported character and a repeated key.             *)
MCTexts == {<<"a", "cr", "nl", "a">>, <<"emoji", "a", "a">>}
MCTargets == {Point(3, -1), Point(0, 2)}

OneText == {<<"a">>}
OneTarget == {Point(3, -1)}
(* Apart by more than an int of -5 .. 4 represents.                         *)
FarTargets == {Point(3, -1), Point(-5, -1)}
CallerSymmetry == Permutations(Callers)
=============================================================================
