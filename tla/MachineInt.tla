------------------------------ MODULE MachineInt ------------------------------
(***************************************************************************)
(* The integers movePointerInternal computes with: int goes to IntMax and  *)
(* wraps, a displacement of a mouse report goes to ReportMax.  HidServer,  *)
(* PointerMotion and HidGatt share them.                                   *)
(***************************************************************************)
EXTENDS Integers

CONSTANTS
  IntMax,        \* largest int
  ReportMax      \* largest displacement in a mouse report (int8_t)

ASSUME WidthAssumption ==
  /\ ReportMax \in Nat \ {0}
  /\ IntMax \in Nat /\ IntMax > ReportMax

(* n as a signed number whose largest value is max.                        *)
Signed(n, max) ==
  LET size == 2 * max + 2
      m == n % size
  IN  IF m <= max THEN m ELSE m - size
Int32(n) == Signed(n, IntMax)
Int8(n)  == Signed(n, ReportMax)
IntRange == -IntMax - 1 .. IntMax
UIntRange == 0 .. 2 * IntMax + 1
ReportRange == -ReportMax - 1 .. ReportMax

\* Mutant of Clamped: only the ends are chosen.
ClampedToBounds(v, lo, hi) == {IF v < 0 THEN lo ELSE hi}
(* std::clamp requires lo <= hi; without it both forms the library has     *)
(* (two comparisons, or a maximum then a minimum) are possible.            *)
Clamped(v, lo, hi) ==
  LET raised == IF v < lo THEN lo ELSE v
  IN  {IF v < lo THEN lo ELSE IF hi < v THEN hi ELSE v,
       IF hi < raised THEN hi ELSE raised}

(* std::min<int> of an unsigned limit, which is converted to int first.    *)
StepCap(limit) == IF Int32(limit) < ReportMax THEN Int32(limit) ELSE ReportMax

(* Positions and distances, axis by axis.                                  *)
Axis == {"x", "y"}
Vector == [Axis -> IntRange]
Zero == [a \in Axis |-> 0]
Plus(v, w) == [a \in Axis |-> Int32(v[a] + w[a])]
\* Mutant of Minus: saturation instead of wrap-around.
MinusSaturated(v, w) ==
  LET saturated(n) == IF n < -IntMax - 1 THEN -IntMax - 1 ELSE IF IntMax < n THEN IntMax ELSE n
  IN  [a \in Axis |-> saturated(v[a] - w[a])]
Minus(v, w) == [a \in Axis |-> Int32(v[a] - w[a])]
(* What a report carries of a step.                                        *)
Carried(v) == [a \in Axis |-> Int8(v[a])]

Abs(n) == IF n < 0 THEN -n ELSE n
=============================================================================
