----------------------------- MODULE PointerMotion -----------------------------
(***************************************************************************)
(* movePointerInternal with the integers of the build, for a caller alone: *)
(* targets at the edges of int and limits of any size.  HidServer has the  *)
(* same loop with the notifications of each step, and other threads.       *)
(***************************************************************************)
EXTENDS MachineInt, FiniteSetsExt

CONSTANTS
  Limits,        \* values of safety.mouseStepLimit after loadHIDConfig
  Points         \* coordinates a caller asks for

(* loadHIDConfig turns a limit of 0 into 1.                                *)
ASSUME MotionAssumption ==
  /\ Limits \subseteq UIntRange \ {0}
  /\ Points \subseteq IntRange

VARIABLES
  limit,         \* config_.safety.mouseStepLimit
  lastPointer,   \* lastPointerX_, lastPointerY_
  moving,        \* a call is inside movePointerInternal
  target,        \* targetX, targetY of the call
  delta,         \* dx, dy
  report         \* displacement of the last report
vars == <<limit, lastPointer, moving, target, delta, report>>

Position == [Axis -> Points]

Init ==
  /\ limit \in Limits
  /\ lastPointer = Zero
  /\ moving = FALSE
  /\ target = Zero /\ delta = Zero /\ report = Zero

\* Mutants of MaxStep: a strict bound; no bound for the report's byte.
MaxStepStrict == IF Int32(limit) < ReportMax THEN Int32(limit) - 1 ELSE ReportMax
MaxStepUncapped == Int32(limit)
MaxStep == StepCap(limit)

Begin ==
  /\ ~moving
  /\ target' \in Position
  /\ delta' = Minus(target', lastPointer)
  /\ moving' = TRUE
  /\ UNCHANGED <<limit, lastPointer, report>>

Iterate ==
  /\ moving /\ delta # Zero
  /\ \E stepX \in Clamped(delta["x"], Int32(-MaxStep), MaxStep),
        stepY \in Clamped(delta["y"], Int32(-MaxStep), MaxStep) :
       LET step == [a \in Axis |-> IF a = "x" THEN stepX ELSE stepY]
       IN  /\ report' = Carried(step)
           /\ lastPointer' = Plus(lastPointer, step)
           /\ delta' = Minus(delta, step)
  /\ UNCHANGED <<limit, moving, target>>

End ==
  /\ moving /\ delta = Zero
  /\ moving' = FALSE
  /\ UNCHANGED <<limit, lastPointer, target, delta, report>>

Next == Begin \/ Iterate \/ End
Spec == Init /\ [][Next]_vars
(* The thread inside a call keeps running.                                 *)
FairSpec == Spec /\ WF_vars(Iterate \/ End)

-----------------------------------------------------------------------------
(* The type of every variable.                                             *)
MotionTypeOK ==
  /\ limit \in Limits
  /\ moving \in BOOLEAN
  /\ {lastPointer, delta} \subseteq Vector
  /\ target \in Position \cup {Zero}
  /\ report \in [Axis -> ReportRange]

(* Wherever a move is, the way left leads from the tracker to the target,  *)
(* in the arithmetic of int; between moves no way is left and the tracker  *)
(* is at the last target, even when the subtraction of the two positions   *)
(* wrapped.  This is the inductive invariant of the proofs.                *)
MotionInv ==
  /\ MotionTypeOK
  /\ moving => \A a \in Axis : Int32(lastPointer[a] + delta[a]) = target[a]
  /\ ~moving => delta = Zero /\ lastPointer = target

(* Limits that int represents.                                             *)
LimitsAreInts == Limits \subseteq 1 .. IntMax

(* Every move ends: the loop runs a number of times the distance bounds.   *)
MoveEnds == moving ~> ~moving

Farthest(v) == Max({Abs(v[a]) : a \in Axis})

(* Each report brings the axis with the longest way MaxStep closer, or all *)
(* the way: a move takes no more reports than the limit asks for.  On      *)
(* either axis the way left shrinks and keeps its direction: a diagonal    *)
(* move whose axes differ in length never passes the target and returns.   *)
StepsAreFull ==
  [][moving /\ moving' =>
       /\ Farthest(delta') = Max({0, Farthest(delta) - MaxStep})
       /\ \A a \in Axis : delta'[a] * delta[a] >= 0 /\ Abs(delta'[a]) <= Abs(delta[a])]_vars

(* The position advances by what the report carries, so the cast to int8_t *)
(* loses nothing and tracker and host agree.                               *)
ReportCarriesStep ==
  [][moving /\ moving' =>
       lastPointer' = Plus(lastPointer, report')]_vars
=============================================================================
