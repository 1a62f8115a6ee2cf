------------------------- MODULE PointerMotionProofs -------------------------
(***************************************************************************)
(* The integers of MachineInt, and over them the loop of a move: MotionInv *)
(* is inductive for every size of int and of a report, whatever the points *)
(* and the limits, and every report does what it should as long as int     *)
(* represents the limits (with others the loop may never end).             *)
(***************************************************************************)
EXTENDS PointerMotion, TLAPS

Size == 2 * IntMax + 2

LEMMA Sizes ==
  /\ IntMax \in Nat /\ ReportMax \in Nat /\ 1 <= ReportMax /\ ReportMax < IntMax
  /\ Size \in Nat \ {0} /\ Size = 2 * IntMax + 2
BY WidthAssumption DEF Size

(* % adds a multiple of its size.                                          *)
LEMMA Remainder ==
  ASSUME NEW size \in Nat \ {0}, NEW n \in Int
  PROVE  n % size \in 0 .. size - 1 /\ \E k \in Int : n % size = n + k * size
<1> DEFINE k == -(n \div size)
<1>1. n % size \in 0 .. size - 1 /\ k \in Int
  OBVIOUS
<1>2. n % size = n + k * size
  OBVIOUS
<1> HIDE DEF k
<1> QED BY <1>1, <1>2

(* A number becomes a signed one the same way.                             *)
LEMMA SignedFacts ==
  ASSUME NEW max \in Nat, NEW n \in Int
  PROVE  /\ Signed(n, max) \in -max - 1 .. max
         /\ \E k \in Int : Signed(n, max) = n + k * (2 * max + 2)
<1> DEFINE size == 2 * max + 2
           m == n % size
<1>1. size \in Nat \ {0}
  OBVIOUS
<1>2. Signed(n, max) = IF m <= max THEN m ELSE m - size
  BY DEF Signed
<1>3. m \in 0 .. size - 1 /\ \E k \in Int : m = n + k * size
  BY <1>1, Remainder
<1>4. PICK k \in Int : m = n + k * size
  BY <1>3
<1> HIDE DEF m
<1>5. Signed(n, max) \in -max - 1 .. max
  BY <1>2, <1>3
<1>6. k \in Int /\ k - 1 \in Int /\ (k - 1) * size = (k * size) - size
  BY <1>1
<1>7. Signed(n, max) = n + k * size \/ Signed(n, max) = n + (k - 1) * size
  BY <1>1, <1>2, <1>3, <1>4, <1>6
<1> QED BY <1>5, <1>6, <1>7

LEMMA Wraps ==
  ASSUME NEW n \in Int
  PROVE  Int32(n) \in IntRange /\ Int32(n) \in Int
         /\ \E k \in Int : Int32(n) = n + k * Size
<1>1. /\ Signed(n, IntMax) \in -IntMax - 1 .. IntMax
      /\ \E k \in Int : Signed(n, IntMax) = n + k * (2 * IntMax + 2)
  BY Sizes, SignedFacts
<1>2. Int32(n) \in IntRange /\ Int32(n) \in Int
  BY <1>1, Sizes DEF Int32, IntRange
<1>3. \E k \in Int : Int32(n) = n + k * Size
  BY <1>1 DEF Int32, Size
<1> QED BY <1>2, <1>3

(* Two ints apart by a multiple of the size are the same.                  *)
LEMMA Unique ==
  ASSUME NEW i \in IntRange, NEW j \in IntRange, NEW k \in Int, i = j + k * Size
  PROVE  i = j
<1>1. i - j < Size /\ j - i < Size /\ i \in Int /\ j \in Int /\ Size \in Int /\ Size > 0
  BY Sizes DEF IntRange
<1>2. k >= 1 => k * Size >= Size
  BY <1>1
<1>3. k <= -1 => k * Size <= -Size
  BY <1>1
<1> QED BY <1>1, <1>2, <1>3

(* Numbers apart by a multiple of the size are the same int.               *)
LEMMA Congruent ==
  ASSUME NEW m \in Int, NEW n \in Int, NEW k \in Int, m = n + k * Size
  PROVE  Int32(m) = Int32(n)
<1>1. /\ Int32(m) \in IntRange /\ Int32(n) \in IntRange
      /\ Int32(m) \in Int /\ Int32(n) \in Int /\ Size \in Int
  BY Wraps, Sizes
<1>2. PICK i \in Int : Int32(m) = m + i * Size
  BY Wraps
<1>3. PICK j \in Int : Int32(n) = n + j * Size
  BY Wraps
<1> DEFINE l == k + i - j
<1>4. l \in Int /\ l * Size = (k * Size) + (i * Size) - (j * Size)
  BY <1>1
<1>5. Int32(m) = Int32(n) + l * Size
  BY <1>1, <1>2, <1>3, <1>4
<1> HIDE DEF l
<1> QED BY <1>1, <1>4, <1>5, Unique

LEMMA Exact == ASSUME NEW n \in IntRange PROVE Int32(n) = n /\ n \in Int
<1>1. n \in Int
  BY Sizes DEF IntRange
<1>2. PICK k \in Int : Int32(n) = n + k * Size
  BY <1>1, Wraps
<1> QED BY <1>1, <1>2, Wraps, Unique

(* A sum may wrap as it goes or once at its end.                           *)
LEMMA WrapOnce ==
  ASSUME NEW m \in Int, NEW n \in Int
  PROVE  /\ Int32(Int32(m) + n) = Int32(m + n)
         /\ Int32(m + Int32(n)) = Int32(m + n)
<1>1. PICK i \in Int : Int32(m) = m + i * Size
  BY Wraps
<1>2. PICK j \in Int : Int32(n) = n + j * Size
  BY Wraps
<1>3. /\ Int32(m) \in Int /\ Int32(n) \in Int /\ Size \in Int
      /\ i * Size \in Int /\ j * Size \in Int
  BY Wraps, Sizes
<1>4. /\ Int32(m) + n = (m + n) + i * Size
      /\ m + Int32(n) = (m + n) + j * Size
  BY <1>1, <1>2, <1>3
<1>5. Int32(m) + n \in Int /\ m + Int32(n) \in Int /\ m + n \in Int
  BY <1>3
<1> QED BY <1>4, <1>5, Congruent

(* A step s is taken off the way d and added to the position p: the        *)
(* target they lead to stays, whatever wraps.                              *)
LEMMA Advances ==
  ASSUME NEW p \in Int, NEW d \in Int, NEW s \in Int
  PROVE  Int32(Int32(p + s) + Int32(d - s)) = Int32(p + d)
<1>1. p + s \in Int /\ d - s \in Int /\ Int32(d - s) \in Int
  BY Wraps
<1>2. Int32(Int32(p + s) + Int32(d - s)) = Int32((p + s) + Int32(d - s))
  BY <1>1, WrapOnce
<1>3. Int32((p + s) + Int32(d - s)) = Int32((p + s) + (d - s))
  BY <1>1, WrapOnce
<1>4. (p + s) + (d - s) = p + d
  OBVIOUS
<1> QED BY <1>2, <1>3, <1>4

(* The way from a position leads to the target it was computed for.        *)
LEMMA LeadsTo ==
  ASSUME NEW p \in IntRange, NEW t \in IntRange
  PROVE  Int32(p + Int32(t - p)) = t
<1>1. p \in Int /\ t \in Int /\ t - p \in Int /\ p + (t - p) = t
  BY Exact
<1>2. Int32(p + Int32(t - p)) = Int32(p + (t - p))
  BY <1>1, WrapOnce
<1> QED BY <1>1, <1>2, Exact

(* The cast to int8_t gives a displacement, and keeps those the cap lets   *)
(* through.                                                                *)
LEMMA Cast ==
  ASSUME NEW n \in Int
  PROVE  /\ Int8(n) \in ReportRange /\ Int8(n) \in Int
         /\ n \in -ReportMax .. ReportMax => Int8(n) = n
<1> DEFINE size == 2 * ReportMax + 2
<1>1. size \in Nat \ {0} /\ ReportMax \in Nat
  BY Sizes
<1>2. Int8(n) \in ReportRange /\ Int8(n) \in Int
  BY <1>1, SignedFacts DEF Int8, ReportRange
<1>3. PICK k \in Int : Int8(n) = n + k * size
  BY <1>1, SignedFacts DEF Int8
<1>4. ASSUME n \in -ReportMax .. ReportMax PROVE Int8(n) = n
  <2>1. Int8(n) - n < size /\ n - Int8(n) < size
    BY <1>1, <1>2, <1>4 DEF ReportRange
  <2>2. (k >= 1 => k * size >= size) /\ (k <= -1 => k * size <= -size)
    BY <1>1
  <2> HIDE DEF size
  <2> QED BY <1>1, <1>2, <1>3, <2>1, <2>2
<1> QED BY <1>2, <1>4

-----------------------------------------------------------------------------
(* The clamped step.                                                       *)

(* A limit that int represents is a positive bound on both axes.           *)
LEMMA Bound ==
  ASSUME NEW l \in 1 .. IntMax
  PROVE  StepCap(l) \in 1 .. ReportMax /\ Int32(-StepCap(l)) = -StepCap(l)
<1>1. l \in IntRange
  BY Sizes DEF IntRange
<1>2. Int32(l) = l
  BY <1>1, Exact
<1>3. StepCap(l) \in 1 .. ReportMax
  BY <1>2, Sizes DEF StepCap
<1>4. -StepCap(l) \in IntRange
  BY <1>3, Sizes DEF IntRange
<1> QED BY <1>3, <1>4, Exact

(* With such a bound m, a step goes towards the end of the way d and not   *)
(* beyond, and neither the report nor the way left loses anything of it.   *)
LEMMA ClampedStep ==
  ASSUME NEW d \in IntRange, NEW m \in 1 .. ReportMax, NEW s \in Clamped(d, -m, m)
  PROVE  /\ s = IF d < -m THEN -m ELSE IF m < d THEN m ELSE d
         /\ s \in Int /\ Int8(s) = s
         /\ Int32(d - s) = d - s /\ d - s \in IntRange
<1>1. d \in Int /\ m \in Int
  BY Sizes, Exact
<1>2. s = IF d < -m THEN -m ELSE IF m < d THEN m ELSE d
  BY <1>1, Sizes DEF Clamped
<1>3. s \in -ReportMax .. ReportMax /\ s \in Int
  BY <1>1, <1>2, Sizes
<1>4. d - s \in IntRange
  BY <1>1, <1>2, Sizes DEF IntRange
<1> QED BY <1>2, <1>3, <1>4, Cast, Exact

(* Whatever the limit a step is an int, and none is empty while there is a *)
(* way to go.                                                              *)
LEMMA StepMoves ==
  ASSUME NEW l \in UIntRange \ {0}, NEW d \in IntRange,
         NEW s \in Clamped(d, Int32(-StepCap(l)), StepCap(l))
  PROVE  s \in IntRange /\ (s = 0 => d = 0)
<1> DEFINE c == StepCap(l)
           lo == Int32(-c)
<1>1. d \in Int /\ l \in Int
  BY Exact, Sizes DEF UIntRange
<1>2. Int32(l) \in IntRange /\ Int32(l) \in Int /\ Int32(l) # 0
  <2>1. PICK k \in Int : Int32(l) = l + k * Size
    BY <1>1, Wraps
  <2>2. ASSUME Int32(l) = 0 PROVE FALSE
    <3>1. 0 < l /\ l < Size /\ Size \in Int /\ Size > 0
      BY Sizes DEF UIntRange
    <3>2. k >= 0 => k * Size >= 0
      BY <3>1
    <3>3. k <= -1 => k * Size <= -Size
      BY <3>1
    <3> QED BY <1>1, <2>1, <2>2, <3>1, <3>2, <3>3
  <2> QED BY <1>1, <2>2, Wraps
<1>3. c \in -IntMax - 1 .. ReportMax /\ c # 0 /\ c \in Int
  BY <1>2, Sizes DEF StepCap, IntRange
<1>4. lo = IF c = -IntMax - 1 THEN c ELSE -c
  <2>1. CASE c = -IntMax - 1
    <3>1. -c = c + 1 * Size
      BY <2>1, <1>3, Sizes
    <3>2. c \in IntRange /\ -c \in Int
      BY <1>3, Sizes DEF IntRange
    <3>3. Int32(-c) = Int32(c)
      BY <1>3, <3>1, <3>2, Congruent
    <3> QED BY <2>1, <3>2, <3>3, Exact
  <2>2. CASE c # -IntMax - 1
    <3>1. -c \in IntRange
      BY <2>2, <1>3, Sizes DEF IntRange
    <3> QED BY <2>2, <3>1, Exact
  <2> QED BY <2>1, <2>2
<1>5. s \in {IF d < lo THEN lo ELSE IF c < d THEN c ELSE d,
             IF c < (IF d < lo THEN lo ELSE d) THEN c ELSE IF d < lo THEN lo ELSE d}
  BY DEF Clamped
<1> HIDE DEF c, lo
<1> QED BY <1>1, <1>3, <1>4, <1>5, Sizes DEF IntRange

LEMMA Greater == ASSUME NEW i \in Int, NEW j \in Int PROVE Max({i, j}) = IF i >= j THEN i ELSE j
BY DEF Max

-----------------------------------------------------------------------------
(* The loop.                                                               *)

(* One step of the loop on an axis.                                        *)
LEMMA OneStep ==
  ASSUME Iterate, NEW a \in Axis
  PROVE  \E s \in Clamped(delta[a], Int32(-MaxStep), MaxStep) :
           /\ report'[a] = Int8(s)
           /\ lastPointer'[a] = Int32(lastPointer[a] + s)
           /\ delta'[a] = Int32(delta[a] - s)
<1>1. PICK stepX \in Clamped(delta["x"], Int32(-MaxStep), MaxStep),
           stepY \in Clamped(delta["y"], Int32(-MaxStep), MaxStep) :
        LET step == [b \in Axis |-> IF b = "x" THEN stepX ELSE stepY]
        IN  /\ report' = [b \in Axis |-> Int8(step[b])]
            /\ lastPointer' = [b \in Axis |-> Int32(lastPointer[b] + step[b])]
            /\ delta' = [b \in Axis |-> Int32(delta[b] - step[b])]
  BY DEF Iterate, Plus, Minus, Carried
<1>2. CASE a = "x"
  BY <1>1, <1>2
<1>3. CASE a = "y"
  BY <1>1, <1>3
<1> QED BY <1>2, <1>3 DEF Axis

LEMMA IterateWraps ==
  ASSUME MotionInv, Iterate, NEW a \in Axis
  PROVE  /\ delta'[a] \in IntRange /\ lastPointer'[a] \in IntRange
         /\ report'[a] \in ReportRange
         /\ Int32(lastPointer'[a] + delta'[a]) = Int32(lastPointer[a] + delta[a])
<1>1. limit \in UIntRange \ {0} /\ delta[a] \in IntRange /\ lastPointer[a] \in IntRange
  BY MotionAssumption DEF MotionInv, MotionTypeOK, Vector
<1>2. PICK s \in Clamped(delta[a], Int32(-MaxStep), MaxStep) :
        /\ report'[a] = Int8(s)
        /\ lastPointer'[a] = Int32(lastPointer[a] + s)
        /\ delta'[a] = Int32(delta[a] - s)
  BY OneStep
<1>3. s \in Int /\ delta[a] \in Int /\ lastPointer[a] \in Int
  BY <1>1, <1>2, StepMoves, Exact DEF MaxStep
<1>4. lastPointer[a] + s \in Int /\ delta[a] - s \in Int
  BY <1>3
<1> QED BY <1>2, <1>3, <1>4, Wraps, Cast, Advances

(* The step of an axis with d left.                                        *)
StepFor(d) == IF d < -MaxStep THEN -MaxStep ELSE IF MaxStep < d THEN MaxStep ELSE d

LEMMA IterateSteps ==
  ASSUME LimitsAreInts, MotionInv, Iterate, NEW a \in Axis
  PROVE  LET s == StepFor(delta[a])
         IN  /\ MaxStep \in 1 .. ReportMax /\ delta[a] \in Int /\ s \in Int
             /\ report'[a] = s
             /\ delta'[a] = delta[a] - s
             /\ lastPointer'[a] = Int32(lastPointer[a] + s)
<1>1. MaxStep \in 1 .. ReportMax /\ Int32(-MaxStep) = -MaxStep
  BY Bound DEF LimitsAreInts, MotionInv, MotionTypeOK, MaxStep
<1>2. delta[a] \in IntRange /\ delta[a] \in Int
  BY Exact DEF MotionInv, MotionTypeOK, Vector
<1>3. PICK s \in Clamped(delta[a], -MaxStep, MaxStep) :
        /\ report'[a] = Int8(s)
        /\ lastPointer'[a] = Int32(lastPointer[a] + s)
        /\ delta'[a] = Int32(delta[a] - s)
  BY <1>1, OneStep
<1>4. s = StepFor(delta[a]) /\ s \in Int /\ Int8(s) = s /\ Int32(delta[a] - s) = delta[a] - s
  BY <1>1, <1>2, <1>3, ClampedStep DEF StepFor
<1> QED BY <1>1, <1>2, <1>3, <1>4

LEMMA InitInv == Init => MotionInv
<1> SUFFICES ASSUME Init PROVE MotionInv
  OBVIOUS
<1>1. 0 \in IntRange /\ 0 \in ReportRange
  BY Sizes DEF IntRange, ReportRange
<1> QED BY <1>1 DEF Init, MotionInv, MotionTypeOK, Zero, Vector

LEMMA NextInv == MotionInv /\ [Next]_vars => MotionInv'
<1> SUFFICES ASSUME MotionInv, [Next]_vars PROVE MotionInv'
  OBVIOUS
<1>1. CASE Begin
  <2>1. target' \in Position /\ moving' = TRUE /\ UNCHANGED <<limit, lastPointer, report>>
    BY <1>1 DEF Begin
  <2>2. ASSUME NEW a \in Axis
        PROVE  /\ delta'[a] \in IntRange
               /\ Int32(lastPointer'[a] + delta'[a]) = target'[a]
    <3>1. target'[a] \in IntRange /\ lastPointer[a] \in IntRange
      BY <2>1, MotionAssumption DEF MotionInv, MotionTypeOK, Position, Vector
    <3>2. delta'[a] = Int32(target'[a] - lastPointer[a])
      BY <1>1 DEF Begin, Minus
    <3>3. target'[a] - lastPointer[a] \in Int
      BY <3>1, Exact
    <3> QED BY <2>1, <3>1, <3>2, <3>3, LeadsTo, Wraps
  <2>3. delta' \in Vector
    <3>1. delta' = [a \in Axis |-> delta'[a]]
      BY <1>1 DEF Begin, Minus
    <3> QED BY <2>2, <3>1 DEF Vector
  <2> QED BY <2>1, <2>2, <2>3 DEF MotionInv, MotionTypeOK
<1>2. CASE Iterate
  <2>1. moving /\ moving' /\ UNCHANGED <<limit, moving, target>>
    BY <1>2 DEF Iterate
  <2>2. ASSUME NEW a \in Axis
        PROVE  /\ delta'[a] \in IntRange /\ lastPointer'[a] \in IntRange
               /\ report'[a] \in ReportRange
               /\ Int32(lastPointer'[a] + delta'[a]) = target[a]
    BY <1>2, <2>1, IterateWraps DEF MotionInv
  <2>3. /\ delta' = [a \in Axis |-> delta'[a]]
        /\ lastPointer' = [a \in Axis |-> lastPointer'[a]]
        /\ report' = [a \in Axis |-> report'[a]]
    BY <1>2 DEF Iterate, Plus, Minus, Carried
  <2>4. {lastPointer', delta'} \subseteq Vector /\ report' \in [Axis -> ReportRange]
    BY <2>2, <2>3 DEF Vector
  <2> QED BY <2>1, <2>2, <2>4 DEF MotionInv, MotionTypeOK
<1>3. CASE End
  <2>1. moving' = FALSE /\ delta = Zero /\ UNCHANGED <<limit, lastPointer, target, delta, report>>
    BY <1>3 DEF End
  <2>2. ASSUME NEW a \in Axis PROVE lastPointer[a] = target[a]
    <3>1. Int32(lastPointer[a] + delta[a]) = target[a] /\ delta[a] = 0
      BY <1>3 DEF End, MotionInv, Zero
    <3>2. lastPointer[a] \in IntRange /\ lastPointer[a] \in Int
      BY Exact DEF MotionInv, MotionTypeOK, Vector
    <3> QED BY <3>1, <3>2, Exact
  <2>3. lastPointer = target
    <3>1. /\ lastPointer = [a \in Axis |-> lastPointer[a]]
          /\ target = [a \in Axis |-> target[a]]
      BY DEF MotionInv, MotionTypeOK, Position, Zero, Vector
    <3> QED BY <2>2, <3>1
  <2>4. MotionTypeOK'
    BY <2>1 DEF MotionInv, MotionTypeOK
  <2>5. ~moving' /\ delta' = Zero /\ lastPointer' = target'
    BY <2>1, <2>3
  <2> QED BY <2>4, <2>5 DEF MotionInv
<1>4. CASE UNCHANGED vars
  <2>1. UNCHANGED <<limit, lastPointer, moving, target, delta, report>>
    BY <1>4 DEF vars
  <2>2. MotionTypeOK'
    BY <2>1 DEF MotionInv, MotionTypeOK
  <2>3. \A a \in Axis : Int32(lastPointer'[a] + delta'[a]) = Int32(lastPointer[a] + delta[a])
    BY <2>1
  <2> QED BY <2>1, <2>2, <2>3 DEF MotionInv
<1> QED BY <1>1, <1>2, <1>3, <1>4 DEF Next

(* Wherever a move is, tracker and way left lead to the target, whatever   *)
(* the limits.                                                             *)
THEOREM MotionInductive == Spec => []MotionInv
BY InitInv, NextInv, PTL DEF Spec

(* Every variable keeps its type: nothing leaves the range of int, no      *)
(* report the range of a byte.                                             *)
THEOREM MotionTyped == Spec => []MotionTypeOK
<1>1. MotionInv => MotionTypeOK
  BY DEF MotionInv
<1>2. Spec => []MotionInv
  BY MotionInductive
<1> QED BY <1>1, <1>2, PTL

(* With limits int represents, the tracker advances by what the report     *)
(* carries.                                                                *)
THEOREM Carries ==
  ASSUME LimitsAreInts PROVE Spec => ReportCarriesStep
<1>1. MotionInv /\ [Next]_vars =>
        [moving /\ moving' =>
           lastPointer' = Plus(lastPointer, report')]_vars
  <2> SUFFICES ASSUME MotionInv, [Next]_vars, moving, moving', ~UNCHANGED vars
               PROVE  lastPointer' = Plus(lastPointer, report')
    BY Zenon
  <2>1. Iterate
    BY DEF Next, Begin, End
  <2>2. \A a \in Axis : lastPointer'[a] = Int32(lastPointer[a] + report'[a])
    BY <2>1, IterateSteps
  <2>3. lastPointer' = [a \in Axis |-> lastPointer'[a]]
    BY <2>1 DEF Iterate, Plus
  <2> QED BY <2>2, <2>3 DEF Plus
<1>2. Spec => []MotionInv
  BY MotionInductive
<1> QED BY <1>1, <1>2, PTL DEF Spec, ReportCarriesStep

(* The way left shrinks on each axis and never changes its direction.      *)
LEMMA StepsKeepDirection ==
  ASSUME LimitsAreInts, MotionInv, [Next]_vars, ~UNCHANGED vars,
         moving, moving', NEW a \in Axis
  PROVE  delta'[a] * delta[a] >= 0 /\ Abs(delta'[a]) <= Abs(delta[a])
<1>1. Iterate
  BY DEF Next, Begin, End
<1>2. /\ MaxStep \in 1 .. ReportMax /\ delta[a] \in Int
      /\ delta'[a] = delta[a] - StepFor(delta[a])
  BY <1>1, IterateSteps
<1>3. \/ delta[a] >= 0 /\ delta'[a] \in 0 .. delta[a]
      \/ delta[a] <= 0 /\ delta'[a] \in delta[a] .. 0
  BY <1>2, Sizes DEF StepFor
<1>4. delta'[a] * delta[a] >= 0
  BY <1>2, <1>3
<1>5. Abs(delta'[a]) <= Abs(delta[a])
  BY <1>2, <1>3 DEF Abs
<1> QED BY <1>4, <1>5

LEMMA FarthestOf ==
  ASSUME NEW v, v["x"] \in Int, v["y"] \in Int
  PROVE  Farthest(v) = IF Abs(v["x"]) >= Abs(v["y"]) THEN Abs(v["x"]) ELSE Abs(v["y"])
<1>1. {Abs(v[a]) : a \in Axis} = {Abs(v["x"]), Abs(v["y"])}
  BY DEF Axis
<1>2. Abs(v["x"]) \in Int /\ Abs(v["y"]) \in Int
  BY DEF Abs
<1> QED BY <1>1, <1>2, Greater DEF Farthest

(* With limits int represents, each report takes a full step off the       *)
(* longest way, or all of it, and passes the target on neither axis.       *)
THEOREM FullSteps ==
  ASSUME LimitsAreInts PROVE Spec => StepsAreFull
<1>1. MotionInv /\ [Next]_vars =>
        [moving /\ moving' =>
           /\ Farthest(delta') = Max({0, Farthest(delta) - MaxStep})
           /\ \A a \in Axis :
                delta'[a] * delta[a] >= 0 /\ Abs(delta'[a]) <= Abs(delta[a])]_vars
  <2> SUFFICES ASSUME MotionInv, [Next]_vars, moving, moving', ~UNCHANGED vars
               PROVE  /\ Farthest(delta') = Max({0, Farthest(delta) - MaxStep})
                      /\ \A a \in Axis :
                           delta'[a] * delta[a] >= 0 /\ Abs(delta'[a]) <= Abs(delta[a])
    BY Zenon
  <2>1. Iterate
    BY DEF Next, Begin, End
  <2> DEFINE before(a) == Abs(delta[a])
             after(a) == Abs(delta'[a])
  <2>2. ASSUME NEW a \in Axis
        PROVE  /\ MaxStep \in Int /\ delta[a] \in Int /\ delta'[a] \in Int
               /\ before(a) \in Nat /\ MaxStep >= 1
               /\ after(a) = IF before(a) >= MaxStep THEN before(a) - MaxStep ELSE 0
    <3>1. /\ MaxStep \in 1 .. ReportMax /\ delta[a] \in Int
          /\ delta'[a] = delta[a] - StepFor(delta[a])
      BY <2>1, IterateSteps
    <3>2. MaxStep \in Int /\ MaxStep >= 1
      BY <3>1, Sizes
    <3> QED BY <3>1, <3>2 DEF StepFor, Abs
  <2>3. "x" \in Axis /\ "y" \in Axis
    BY DEF Axis
  <2>4. Farthest(delta) = IF before("x") >= before("y") THEN before("x") ELSE before("y")
    BY <2>2, <2>3, FarthestOf
  <2>5. Farthest(delta') = IF after("x") >= after("y") THEN after("x") ELSE after("y")
    BY <2>2, <2>3, FarthestOf
  <2> HIDE DEF before, after
  <2>6. Farthest(delta) \in Nat /\ MaxStep \in Int
    BY <2>2, <2>3, <2>4
  <2>7. Max({0, Farthest(delta) - MaxStep}) =
          IF 0 >= Farthest(delta) - MaxStep THEN 0 ELSE Farthest(delta) - MaxStep
    BY <2>6, Greater
  <2>8. Farthest(delta') = Max({0, Farthest(delta) - MaxStep})
    BY <2>2, <2>3, <2>4, <2>5, <2>6, <2>7
  <2>9. \A a \in Axis : delta'[a] * delta[a] >= 0 /\ Abs(delta'[a]) <= Abs(delta[a])
    BY StepsKeepDirection
  <2> QED BY <2>8, <2>9
<1>2. Spec => []MotionInv
  BY MotionInductive
<1> QED BY <1>1, <1>2, PTL DEF Spec, StepsAreFull
=============================================================================
