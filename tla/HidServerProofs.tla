---------------------------- MODULE HidServerProofs ----------------------------
(***************************************************************************)
(* IInv is an inductive invariant of HidServer, and the safety properties  *)
(* follow from it, for any callers, texts and targets and any step limit.  *)
(* What depends on the steps of a move, that the tracker is exact and that *)
(* a call gets on, takes a limit that int represents (LimitFits): a larger *)
(* one, which loadHIDConfig accepts, makes steps that lead nowhere.        *)
(***************************************************************************)
EXTENDS HidServerInv, FiniteSetTheorems, SequenceTheorems, TLAPS

(* movePointerInternal at the limit of this server, seen by itself: the    *)
(* facts about its arithmetic are proved there.                            *)
Motion == INSTANCE PointerMotionProofs WITH
  Limits <- {MouseStepLimit}, Points <- IntRange, limit <- MouseStepLimit,
  moving <- executionMutex # NoCaller, target <- lastPointer, report <- Carried(step)

LEMMA MotionAssumed ==
  {MouseStepLimit} \subseteq Motion!UIntRange \ {0} /\ IntRange \subseteq Motion!IntRange
BY ConstantsAssumption DEF Motion!UIntRange, UIntRange, Motion!IntRange, IntRange

LEMMA SameIntegers ==
  /\ Motion!IntRange = IntRange /\ Motion!UIntRange = UIntRange
  /\ Motion!ReportRange = ReportRange
  /\ \A n \in Int : Motion!Int32(n) = Int32(n) /\ Motion!Int8(n) = Int8(n)
  /\ \A l \in Int : Motion!StepCap(l) = StepCap(l)
  /\ \A d, lo, hi \in Int : Motion!Clamped(d, lo, hi) = Clamped(d, lo, hi)
BY DEF Motion!IntRange, IntRange, Motion!UIntRange, UIntRange, Motion!ReportRange,
       ReportRange, Motion!Int32, Int32, Motion!Int8, Int8, Motion!Signed, Signed,
       Motion!StepCap, StepCap, Motion!Clamped, Clamped

(* The arithmetic of int, of PointerMotionProofs.                          *)
LEMMA Wraps == ASSUME NEW n \in Int PROVE Int32(n) \in IntRange /\ Int32(n) \in Int
BY Motion!Wraps, WidthAssumption, MotionAssumed, SameIntegers

LEMMA Exact == ASSUME NEW n \in IntRange PROVE Int32(n) = n /\ n \in Int
<1>1. n \in Int
  BY WidthAssumption DEF IntRange
<1> QED BY <1>1, Motion!Exact, WidthAssumption, MotionAssumed, SameIntegers

LEMMA WrapOnce ==
  ASSUME NEW m \in Int, NEW n \in Int PROVE Int32(Int32(m) + n) = Int32(m + n)
<1>1. Motion!Int32(Motion!Int32(m) + n) = Motion!Int32(m + n)
  BY Motion!WrapOnce, WidthAssumption, MotionAssumed
<1> QED BY <1>1, Wraps, SameIntegers

LEMMA Advances ==
  ASSUME NEW p \in Int, NEW d \in Int, NEW s \in Int
  PROVE  Int32(Int32(p + s) + Int32(d - s)) = Int32(p + d)
<1>1. Motion!Int32(Motion!Int32(p + s) + Motion!Int32(d - s)) = Motion!Int32(p + d)
  BY Motion!Advances, WidthAssumption, MotionAssumed
<1> QED BY <1>1, Wraps, SameIntegers

LEMMA LeadsTo ==
  ASSUME NEW p \in IntRange, NEW t \in IntRange PROVE Int32(p + Int32(t - p)) = t
<1>1. p \in Int /\ t \in Int
  BY Exact
<1>2. Motion!Int32(p + Motion!Int32(t - p)) = t
  BY Motion!LeadsTo, WidthAssumption, MotionAssumed, SameIntegers
<1> QED BY <1>1, <1>2, Wraps, SameIntegers

LEMMA Cast ==
  ASSUME NEW n \in Int
  PROVE  /\ Int8(n) \in ReportRange /\ Int8(n) \in Int
         /\ n \in -ReportMax .. ReportMax => Int8(n) = n
BY Motion!Cast, WidthAssumption, MotionAssumed, SameIntegers

(* The largest displacement of a report.                                   *)
LEMMA MaxStepInt == MaxStep \in Int /\ Int32(-MaxStep) \in Int
<1>1. MaxStep \in Int
  BY ConstantsAssumption, WidthAssumption, Wraps DEF MaxStep, StepCap, UIntRange
<1> QED BY <1>1, Wraps

LEMMA MaxStepFits ==
  ASSUME LimitFits
  PROVE  MaxStep \in 1 .. ReportMax /\ MaxStep \in Nat /\ Int32(-MaxStep) = -MaxStep
<1>1. MouseStepLimit \in 1 .. IntMax /\ MouseStepLimit \in Int /\ ReportMax \in Nat
  BY ConstantsAssumption, WidthAssumption DEF LimitFits, UIntRange
<1>2. /\ Motion!StepCap(MouseStepLimit) \in 1 .. ReportMax
      /\ Motion!Int32(-Motion!StepCap(MouseStepLimit)) = -Motion!StepCap(MouseStepLimit)
  BY <1>1, Motion!Bound, WidthAssumption, MotionAssumed
<1>3. Motion!StepCap(MouseStepLimit) = MaxStep
  BY <1>1, SameIntegers DEF MaxStep
<1> QED BY <1>1, <1>2, <1>3, MaxStepInt, SameIntegers

(* A clamped displacement keeps the axes that still have a way to go,      *)
LEMMA ClampFacts ==
  ASSUME NEW d \in IntRange, NEW s \in Clamped(d, Int32(-MaxStep), MaxStep)
  PROVE  s \in IntRange /\ s \in Int /\ (s = 0 => d = 0)
<1>1. /\ MouseStepLimit \in Motion!UIntRange \ {0} /\ MouseStepLimit \in Int
      /\ d \in Int /\ Motion!StepCap(MouseStepLimit) = MaxStep
  BY ConstantsAssumption, WidthAssumption, Exact, SameIntegers DEF UIntRange, MaxStep
<1>2. /\ Motion!Int32(-MaxStep) = Int32(-MaxStep)
      /\ Motion!Clamped(d, Int32(-MaxStep), MaxStep) = Clamped(d, Int32(-MaxStep), MaxStep)
  BY <1>1, MaxStepInt, SameIntegers
<1>3. s \in Motion!Clamped(d, Motion!Int32(-Motion!StepCap(MouseStepLimit)),
                           Motion!StepCap(MouseStepLimit))
  BY <1>1, <1>2
<1>4. s \in Motion!IntRange /\ (s = 0 => d = 0)
  BY <1>1, <1>3, Motion!StepMoves, WidthAssumption, MotionAssumed, SameIntegers
<1> QED BY <1>4, SameIntegers, Exact

(* and stays within the limit.                                             *)
LEMMA ClampFits ==
  ASSUME LimitFits, NEW d \in IntRange, NEW s \in Clamped(d, Int32(-MaxStep), MaxStep)
  PROVE  /\ -MaxStep <= s /\ s <= MaxStep
         /\ Int32(d - s) = d - s
         /\ Abs(d - s) \in Nat /\ Abs(d) \in Nat
         /\ Abs(d - s) <= Abs(d) /\ (d # 0 => Abs(d - s) < Abs(d))
<1>1. MaxStep \in 1 .. ReportMax /\ MaxStep \in Nat /\ Int32(-MaxStep) = -MaxStep /\ d \in Int
  BY MaxStepFits, Exact
<1>2. s \in Motion!Clamped(d, -MaxStep, MaxStep)
  BY <1>1, SameIntegers
<1>3. /\ s = IF d < -MaxStep THEN -MaxStep ELSE IF MaxStep < d THEN MaxStep ELSE d
      /\ s \in Int /\ Motion!Int32(d - s) = d - s
  BY <1>1, <1>2, Motion!ClampedStep, WidthAssumption, MotionAssumed, SameIntegers
<1>4. Int32(d - s) = d - s
  BY <1>1, <1>3, SameIntegers
<1> QED BY <1>1, <1>3, <1>4 DEF Abs

(* Vectors are equal when their coordinates are.                           *)
LEMMA VectorFacts ==
  /\ Zero \in Vector
  /\ \A a \in Axis : Zero[a] = 0
  /\ \A v, w \in Vector :
       /\ Plus(v, w) \in Vector
       /\ Minus(v, w) \in Vector
       /\ \A a \in Axis : /\ Plus(v, w)[a] = Int32(v[a] + w[a])
                          /\ Minus(v, w)[a] = Int32(v[a] - w[a])
                          /\ v[a] \in IntRange /\ v[a] \in Int
       /\ (\A a \in Axis : v[a] = w[a]) => v = w
<1>1. 0 \in IntRange /\ Zero \in Vector
  BY WidthAssumption DEF IntRange, Zero, Vector
<1>2. ASSUME NEW v \in Vector, NEW a \in Axis PROVE v[a] \in IntRange /\ v[a] \in Int
  BY Exact DEF Vector
<1>3. ASSUME NEW v \in Vector, NEW w \in Vector, NEW a \in Axis
      PROVE  Int32(v[a] + w[a]) \in IntRange /\ Int32(v[a] - w[a]) \in IntRange
  BY <1>2, Wraps
<1> QED BY <1>1, <1>2, <1>3 DEF Zero, Vector, Plus, Minus

(* What a report carries of a step.                                        *)
LEMMA CarriedFacts ==
  /\ Zero \in [Axis -> ReportRange] /\ Zero \in Sums
  /\ \A v \in Vector :
       /\ Carried(v) \in [Axis -> ReportRange]
       /\ Carried(v) \in Sums
       /\ v = Zero => Carried(v) = Zero
       /\ \A a \in Axis : v[a] \in -ReportMax .. ReportMax => Carried(v)[a] = v[a]
<1>1. 0 \in ReportRange /\ 0 \in -ReportMax .. ReportMax
  BY WidthAssumption DEF ReportRange
<1>2. ASSUME NEW v \in Vector
      PROVE  /\ Carried(v) \in [Axis -> ReportRange] /\ Carried(v) \in Sums
             /\ v = Zero => Carried(v) = Zero
             /\ \A a \in Axis : v[a] \in -ReportMax .. ReportMax => Carried(v)[a] = v[a]
  BY <1>1, <1>2, VectorFacts, Cast DEF Carried, Sums, Zero
<1> QED BY <1>1, <1>2 DEF Zero, Sums

(* The arguments of a call, by the operation it asks for.                  *)
LEMMA RequestFacts ==
  ASSUME NEW r \in Request
  PROVE  /\ r.op \in {"text", "move", "click"}
         /\ r.op = "text" => r.text \in Seq(Char)
         /\ r.op # "text" => r.target \in Vector
         /\ r.op = "click" => r.button \in Buttons
         /\ DeviceUsed(r) = "keyboard" <=> r.op = "text"
         /\ DeviceUsed(r) = "mouse" <=> r.op # "text"
BY ConstantsAssumption
   DEF Request, TextRequest, MoveRequest, ClickRequest, DeviceUsed

(* A notification is addressed to a characteristic of the owner's device.  *)
LEMMA AddressedFacts ==
  /\ UsedDevice \in Device
  /\ Addressed \in Characteristic
  /\ DeviceOf(Addressed) = UsedDevice
  /\ \A ch \in Characteristic :
       /\ DeviceOf(ch) \in Device
       /\ ch \in {Input(DeviceOf(ch)), BootInput(DeviceOf(ch))}
BY DEF UsedDevice, DeviceUsed, Addressed, Characteristic, DeviceOf, Device, Input, BootInput

(* The numbers the pointer bookkeeping computes with.                      *)
LEMMA PointerTypes ==
  ASSUME TypeOK
  PROVE  /\ \A a \in Axis : /\ lastPointer[a] \in IntRange /\ lastPointer[a] \in Int
                            /\ step[a] \in IntRange /\ step[a] \in Int
                            /\ delta[a] \in IntRange /\ delta[a] \in Int
         /\ \A ch \in Characteristic : moved[ch] \in Sums /\ lost[ch] \in Sums
         /\ \A ch \in Characteristic, a \in Axis : moved[ch][a] \in Int /\ lost[ch][a] \in Int
         /\ \A ch \in Characteristic, a \in Axis : Sent(ch, a) \in Int
         /\ {"mouseInput", "bootMouseInput"} \subseteq Characteristic
         /\ faults["mouse"] \in Nat
<1>1. \A a \in Axis : lastPointer[a] \in IntRange /\ step[a] \in IntRange /\ delta[a] \in IntRange
  BY DEF TypeOK, Vector
<1>2. \A ch \in Characteristic, a \in Axis : moved[ch][a] \in Int /\ lost[ch][a] \in Int
  BY DEF TypeOK, Sums
<1>3. faults["mouse"] \in Nat
  BY ConstantsAssumption DEF TypeOK, Device
<1> QED BY <1>1, <1>2, <1>3, Exact DEF TypeOK, Characteristic, Sent

LEMMA SlackFits == ASSUME TypeOK, LimitFits PROVE Slack \in Nat
BY PointerTypes, MaxStepFits DEF Slack

(* Initially nobody is in a call, and every characteristic is at rest.     *)
LEMMA InitEstablishes == Init => IInv
<1> SUFFICES ASSUME Init PROVE IInv
  OBVIOUS
<1>1. TypeOK
  <2>1. Release \in Report
    BY CarriedFacts DEF Release, Report
  <2> QED
    BY <2>1, ConstantsAssumption, VectorFacts, CarriedFacts DEF Init, TypeOK, Device
<1>2. LocalsOwned /\ LocalsOfText /\ LocalsOfPointer
  BY DEF Init, LocalsOwned, LocalsOfText, LocalsOfPointer
<1>3. ASSUME LimitFits PROVE StepBounded
  BY <1>3, MaxStepFits, VectorFacts DEF Init, StepBounded
<1>4. HeldOnlyWhenPressed /\ StoredIsPayload /\ HeardIsValue
  BY DEF Init, HeldOnlyWhenPressed, StoredIsPayload, HeardIsValue, Release
<1>5. ASSUME LimitFits PROVE PointerInv
  <2> SUFFICES ASSUME NEW a \in Axis
               PROVE  /\ Int32(Settled("bootMouseInput", a)) = lastPointer[a]
                      /\ Abs(Settled("mouseInput", a) - Settled("bootMouseInput", a)) <= Slack
    BY DEF PointerInv
  <2>1. /\ Settled("mouseInput", a) = 0 /\ Settled("bootMouseInput", a) = 0
        /\ lastPointer[a] = 0
    BY VectorFacts DEF Init, Settled, Ahead, Sent, Characteristic
  <2>2. Int32(0) = 0
    BY VectorFacts, Exact
  <2>3. Slack \in Nat
    BY <1>1, <1>5, SlackFits
  <2> QED
    BY <2>1, <2>2, <2>3 DEF Abs
<1>6. WithinLimit
  BY <1>3, <1>5 DEF WithinLimit
<1> QED
  BY <1>1, <1>2, <1>4, <1>6 DEF IInv

-----------------------------------------------------------------------------
(* One lemma per action: it keeps IInv.                                    *)

(* A thread that enters or refuses a call is not the owner of the mutex.   *)
LEMMA CallKeeps ==
  ASSUME IInv, NEW c \in Callers, Call(c) \/ Refuse(c)
  PROVE  IInv'
<1> USE DEF IInv
<1>1. /\ request' \in [Callers -> Request \cup {NoRequest}]
      /\ executionMutex # NoCaller => request'[executionMutex] = request[executionMutex]
      /\ calls' \in 0 .. MaxCalls
  <2>1. calls \in 0 .. MaxCalls /\ calls < MaxCalls /\ calls' = calls + 1 /\ MaxCalls \in Nat
    BY ConstantsAssumption DEF Call, Refuse, TypeOK
  <2>2. /\ request \in [Callers -> Request \cup {NoRequest}] /\ request[c] = NoRequest
        /\ \/ request' = request
           \/ \E r \in Request : request' = [request EXCEPT ![c] = r]
    BY DEF Call, Refuse, TypeOK
  <2>3. executionMutex # NoCaller => executionMutex # c
    BY <2>2 DEF LocalsOwned
  <2>4. calls' \in 0 .. MaxCalls
    BY <2>1
  <2>5. executionMutex \in Callers \cup {NoCaller}
    BY DEF TypeOK
  <2>6. CASE request' = request
    BY <2>2, <2>4, <2>6
  <2>7. CASE request' # request
    <3>1. PICK r \in Request : request' = [request EXCEPT ![c] = r]
      BY <2>2, <2>7
    <3>2. request' \in [Callers -> Request \cup {NoRequest}]
      BY <2>2, <3>1
    <3>3. executionMutex # NoCaller => request'[executionMutex] = request[executionMutex]
      BY <2>2, <2>3, <2>5, <3>1
    <3> QED
      BY <2>4, <3>2, <3>3
  <2> QED
    BY <2>6, <2>7
<1>2. TypeOK'
  BY <1>1 DEF Call, Refuse, TypeOK, localVars, serverVars, hostVars
<1>3. LocalsOwned'
  BY <1>1 DEF Call, Refuse, LocalsOwned, localVars
<1>4. executionMutex # NoCaller => UsedDevice' = UsedDevice
  BY <1>1 DEF Call, Refuse, UsedDevice
<1>5. LocalsOfText' /\ LocalsOfPointer'
  BY <1>1, <1>4 DEF Call, Refuse, LocalsOfText, LocalsOfPointer, localVars, serverVars
<1>6. WithinLimit'
  BY DEF Call, Refuse, WithinLimit, StepBounded, PointerInv, Settled, Ahead, Sent, Slack,
         localVars, serverVars, hostVars
<1>7. HeldOnlyWhenPressed'
  BY <1>4 DEF Call, Refuse, HeldOnlyWhenPressed, PressedNow, localVars, serverVars
<1>8. StoredIsPayload' /\ HeardIsValue'
  <2>1. stage # "store" => executionMutex # NoCaller
    BY DEF LocalsOwned
  <2>2. stage # "store" => Addressed' = Addressed
    BY <2>1, <1>4 DEF Addressed, Call, Refuse, localVars
  <2> QED
    BY <2>2 DEF Call, Refuse, StoredIsPayload, Payload, HeardIsValue, localVars, serverVars, hostVars
<1> QED
  BY <1>2, <1>3, <1>5, <1>6, <1>7, <1>8

(* The locals of the new owner describe the call it made.                  *)
LEMMA LockKeeps ==
  ASSUME IInv, NEW c \in Callers, Lock(c)
  PROVE  IInv'
<1> USE DEF IInv
<1> DEFINE r == request[c]
<1>1. /\ c # NoCaller /\ executionMutex = NoCaller /\ executionMutex' = c
      /\ r \in Request /\ request' = request
      /\ r.op \in {"text", "move", "click"}
      /\ r.op = "text" => r.text \in Seq(Char)
      /\ r.op # "text" => r.target \in Vector
      /\ r.op = "click" => r.button \in Buttons
      /\ UsedDevice' = DeviceUsed(r)
      /\ DeviceUsed(r) = "keyboard" <=> r.op = "text"
  BY ConstantsAssumption, RequestFacts DEF Lock, TypeOK, UsedDevice
<1>2. /\ at = 0 /\ stage = "store" /\ step = Zero
      /\ at' = 0 /\ stage' = "store" /\ step' = Zero /\ report' = report
  BY <1>1 DEF Lock, LocalsOwned
<1>3. TypeOK'
  <2>1. text' \in Seq(Char) /\ delta' \in Vector /\ armed' \in Buttons \cup {Nothing}
    BY <1>1, VectorFacts DEF Lock, TypeOK
  <2> QED
    BY <1>1, <2>1 DEF Lock, TypeOK, serverVars, hostVars, countVars
<1>4. LocalsOwned'
  BY <1>1, <1>2 DEF TypeOK, LocalsOwned, Lock
<1>5. LocalsOfText' /\ LocalsOfPointer'
  <2>1. ASSUME r.op # "text", NEW a \in Axis PROVE Int32(lastPointer'[a] + delta'[a]) = r.target[a]
    <3>1. r.target[a] \in IntRange /\ lastPointer[a] \in IntRange
      BY <1>1, <2>1, VectorFacts DEF TypeOK
    <3>2. lastPointer' = lastPointer /\ delta'[a] = Int32(r.target[a] - lastPointer[a])
      BY <1>1, <2>1, VectorFacts DEF Lock, serverVars, TypeOK
    <3> QED
      BY <3>1, <3>2, LeadsTo
  <2>2. r.op # "text" => text' = <<>> /\ (armed' # Nothing => r.op = "click")
    BY <1>1 DEF Lock
  <2>3. r.op = "text" => delta' = Zero /\ armed' = Nothing
    BY <1>1 DEF Lock
  <2> QED
    BY <1>1, <1>2, <2>1, <2>2, <2>3 DEF LocalsOfText, LocalsOfPointer, DeviceUsed
<1>6. WithinLimit'
  BY <1>2 DEF Lock, WithinLimit, StepBounded, PointerInv, Settled, Ahead, Sent, Slack,
              serverVars, hostVars, countVars
<1>7. HeldOnlyWhenPressed'
  BY <1>1 DEF Lock, HeldOnlyWhenPressed, PressedNow, serverVars, countVars
<1>8. StoredIsPayload' /\ HeardIsValue'
  BY <1>2 DEF Lock, StoredIsPayload, HeardIsValue, serverVars, hostVars
<1> QED
  BY <1>3, <1>4, <1>5, <1>6, <1>7, <1>8

(* Leaving a call keeps everything but the press or the step of pointer    *)
(* bookkeeping it interrupts.                                              *)
LEMMA LeaveKeeps ==
  ASSUME IInv, executionMutex # NoCaller, Leave,
         UNCHANGED <<serverVars, heard, moved, lost, typed, calls>>,
         stale \subseteq stale', stale' \in SUBSET Characteristic,
         faults' \in [Device -> 0 .. MaxFaults],
         \A ch \in stale' \ stale : stage # "store" /\ ch = Addressed,
         stage # "store" => Addressed \in stale',
         \A d \in Device : faults'[d] = 0 => faults[d] = 0
  PROVE  /\ TypeOK' /\ LocalsOwned' /\ LocalsOfText' /\ LocalsOfPointer'
         /\ LimitFits => StepBounded'
         /\ StoredIsPayload' /\ HeardIsValue'
<1> USE DEF IInv
<1>1. executionMutex \in Callers
  BY DEF TypeOK
<1>2. TypeOK'
  <2>1. /\ request' \in [Callers -> Request \cup {NoRequest}]
        /\ text' \in Seq(Char) /\ delta' \in Vector /\ step' \in Vector
        /\ report' \in Report
    BY <1>1, VectorFacts, CarriedFacts DEF Leave, TypeOK, Report, Release
  <2> QED
    BY <2>1 DEF Leave, TypeOK, serverVars
<1>3. LocalsOwned' /\ LocalsOfText' /\ LocalsOfPointer'
  BY DEF Leave, LocalsOwned, LocalsOfText, LocalsOfPointer
<1>4. ASSUME LimitFits PROVE StepBounded'
  BY <1>4, MaxStepFits, VectorFacts DEF Leave, StepBounded
<1>5. StoredIsPayload' /\ HeardIsValue'
  BY DEF Leave, StoredIsPayload, HeardIsValue, serverVars
<1> QED
  BY <1>2, <1>3, <1>4, <1>5

(* A call leaves its loop with nothing held down and no step unfinished.   *)
LEMMA ReturnKeeps ==
  ASSUME IInv, Return
  PROVE  IInv'
<1> USE DEF IInv
<1>1. /\ executionMutex \in Callers /\ executionMutex # NoCaller
      /\ at = 0 /\ stage = "store" /\ request[executionMutex] \in Request
      /\ UNCHANGED <<serverVars, heard, moved, stale, lost, typed, calls, faults>>
  BY DEF Return, AtLoopHead, TypeOK, LocalsOwned, hostVars, countVars
<1>2. step = Zero
  BY <1>1, RequestFacts DEF Return, LocalsOfText, LocalsOfPointer, UsedDevice
<1>3. /\ TypeOK' /\ LocalsOwned' /\ LocalsOfText' /\ LocalsOfPointer'
      /\ LimitFits => StepBounded'
      /\ StoredIsPayload' /\ HeardIsValue'
  <2>1. stale' \in SUBSET Characteristic /\ faults' \in [Device -> 0 .. MaxFaults]
    BY <1>1 DEF TypeOK
  <2> QED
    BY <1>1, <2>1, LeaveKeeps DEF Return
<1>4. HeldOnlyWhenPressed'
  BY <1>1 DEF Return, Leave, HeldOnlyWhenPressed, PressedNow, serverVars
<1>5. WithinLimit'
  <2>1. ASSUME PointerInv PROVE PointerInv'
    BY <1>1, <1>2, <2>1 DEF Return, Leave, PointerInv, Settled, Ahead, Sent, Slack, serverVars
  <2> QED
    BY <1>3, <2>1 DEF WithinLimit
<1> QED
  BY <1>3, <1>4, <1>5

(* A throw is counted on the device of the owner's call only.              *)
LEMMA FaultsAfter ==
  ASSUME IInv, EmitThrows
  PROVE  /\ faults' \in [Device -> 0 .. MaxFaults]
         /\ faults'[UsedDevice] = faults[UsedDevice] + 1
         /\ faults'[UsedDevice] # 0
         /\ \A d \in Device : d # UsedDevice => faults'[d] = faults[d]
BY ConstantsAssumption, AddressedFacts DEF IInv, TypeOK, EmitThrows

(* A throw interrupts the call anywhere: it costs the device its promise   *)
(* and the report characteristic at most one step of the pointer.          *)
LEMMA EmitThrowsKeeps ==
  ASSUME IInv, EmitThrows
  PROVE  IInv'
<1> USE DEF IInv
<1>1. /\ executionMutex \in Callers /\ executionMutex # NoCaller
      /\ at # 0 /\ stage = "emit" /\ at \in 1 .. 4
      /\ request[executionMutex] \in Request
      /\ stale' = stale \cup {Addressed}
      /\ UNCHANGED <<serverVars, heard, moved, lost, typed, calls>>
  BY DEF EmitThrows, TypeOK, LocalsOwned
<1>2. /\ TypeOK' /\ LocalsOwned' /\ LocalsOfText' /\ LocalsOfPointer'
      /\ LimitFits => StepBounded'
      /\ StoredIsPayload' /\ HeardIsValue'
  <2>1. stale' \in SUBSET Characteristic
    BY <1>1, AddressedFacts DEF TypeOK
  <2>2. \A d \in Device : faults'[d] = 0 => faults[d] = 0
    BY FaultsAfter
  <2> QED
    BY <1>1, <2>1, <2>2, FaultsAfter, LeaveKeeps DEF EmitThrows
<1>3. HeldOnlyWhenPressed'
  <2> SUFFICES ASSUME NEW ch \in Characteristic,
                      faults'[DeviceOf(ch)] = 0, value'[ch].held # Nothing
               PROVE  FALSE
    BY DEF HeldOnlyWhenPressed
  <2>1. DeviceOf(ch) # UsedDevice /\ faults[DeviceOf(ch)] = 0
    BY FaultsAfter, AddressedFacts
  <2> QED
    BY <1>1, <2>1 DEF HeldOnlyWhenPressed, PressedNow, serverVars
<1>4. ASSUME LimitFits PROVE PointerInv'
  <2> SUFFICES ASSUME NEW a \in Axis
               PROVE  /\ Int32(Settled("bootMouseInput", a)') = lastPointer'[a]
                      /\ Abs(Settled("mouseInput", a)' - Settled("bootMouseInput", a)') <= Slack'
    BY DEF PointerInv
  <2> DEFINE S == Sent("mouseInput", a)
             B == Sent("bootMouseInput", a)
  <2>1. /\ S \in Int /\ B \in Int /\ step[a] \in Int
        /\ MaxStep \in Nat /\ Slack \in Nat /\ faults["mouse"] \in Nat
    BY <1>4, PointerTypes, MaxStepFits, SlackFits
  <2>2. UNCHANGED <<lastPointer, moved, lost>> /\ S' = S /\ B' = B
    BY <1>1 DEF serverVars, Sent
  <2>3. Settled("mouseInput", a)' = S /\ Settled("bootMouseInput", a)' = B
    <3>1. Ahead("bootMouseInput", a)' = 0 /\ Ahead("mouseInput", a)' = 0
      BY VectorFacts DEF EmitThrows, Leave, Ahead
    <3> QED
      BY <2>1, <2>2, <3>1 DEF Settled
  <2>4. PointerInv /\ -MaxStep <= step[a] /\ step[a] <= MaxStep
    BY <1>4 DEF WithinLimit, StepBounded
  <2>5. Settled("bootMouseInput", a) = B
    BY <1>1, <2>1 DEF Settled, Ahead
  <2>6. Settled("mouseInput", a) = S - step[a] \/ Settled("mouseInput", a) = S
    BY <2>1 DEF Settled, Ahead
  <2> HIDE DEF S, B
  <2>7. CASE UsedDevice = "mouse"
    <3>1. Slack' = Slack + MaxStep
      <4>1. faults'["mouse"] = faults["mouse"] + 1
        BY <2>7, FaultsAfter
      <4> QED
        BY <2>1, <4>1 DEF Slack
    <3>2. Abs(S - B) <= Slack + MaxStep
      BY <2>1, <2>4, <2>5, <2>6 DEF PointerInv, Abs
    <3> QED
      BY <2>2, <2>3, <2>4, <2>5, <3>1, <3>2 DEF PointerInv
  <2>8. CASE UsedDevice = "keyboard"
    <3>1. Slack' = Slack
      BY <2>8, FaultsAfter DEF Device, Slack
    <3>2. step[a] = 0
      BY <1>1, <2>8, VectorFacts DEF LocalsOfText
    <3> QED
      BY <2>1, <2>2, <2>3, <2>4, <2>5, <2>6, <3>1, <3>2 DEF PointerInv
  <2> QED
    BY <2>7, <2>8, AddressedFacts DEF Device
<1>5. WithinLimit'
  BY <1>2, <1>4 DEF WithinLimit
<1> QED
  BY <1>2, <1>3, <1>5

(* The loop of sendText consumes a character.                              *)
LEMMA TextKeeps ==
  ASSUME IInv, SkipChar \/ TypeChar
  PROVE  IInv'
<1> USE DEF IInv
<1>1. /\ executionMutex \in Callers /\ executionMutex # NoCaller
      /\ at = 0 /\ stage = "store" /\ request[executionMutex] \in Request
      /\ text # <<>> /\ text \in Seq(Char)
      /\ UsedDevice = "keyboard" /\ request[executionMutex].op = "text"
      /\ delta = Zero /\ step = Zero /\ armed = Nothing
      /\ at' \in {0, 1} /\ text' = Tail(text)
      /\ UNCHANGED <<request, executionMutex, delta, step, armed, stage,
                     serverVars, hostVars, typed, countVars>>
  BY RequestFacts
     DEF SkipChar, TypeChar, AtLoopHead, TypeOK, LocalsOwned, LocalsOfText,
         LocalsOfPointer, UsedDevice
<1>2. UsedDevice' = UsedDevice
  BY <1>1 DEF UsedDevice
<1>3. report' \in Report /\ (at' # 0 => report'.held \in Strokes /\ report'.move = Zero)
  <2>1. CASE SkipChar
    BY <2>1, <1>1 DEF SkipChar, TypeOK
  <2>2. CASE TypeChar
    <3>1. Head(text) \in Char
      BY <1>1
    <3>2. StrokeOf[Head(text)] \in Strokes
      BY <2>2, <3>1, ConstantsAssumption DEF TypeChar, Typeable
    <3> QED
      BY <2>2, <3>2, CarriedFacts DEF TypeChar, Report
  <2> QED
    BY <2>1, <2>2
<1>4. TypeOK'
  <2>1. text' \in Seq(Char)
    BY <1>1
  <2> QED
    BY <1>1, <1>3, <2>1 DEF TypeOK, serverVars, hostVars, countVars
<1>5. LocalsOwned' /\ LocalsOfText' /\ LocalsOfPointer'
  BY <1>1, <1>2, <1>3 DEF LocalsOwned, LocalsOfText, LocalsOfPointer
<1>6. ASSUME StepBounded PROVE StepBounded'
  BY <1>1, <1>6 DEF StepBounded
<1>7. HeldOnlyWhenPressed' /\ StoredIsPayload' /\ HeardIsValue'
  BY <1>1 DEF HeldOnlyWhenPressed, PressedNow, StoredIsPayload, HeardIsValue,
         serverVars, hostVars, countVars
<1>8. ASSUME PointerInv PROVE PointerInv'
  BY <1>1, <1>8, VectorFacts
     DEF PointerInv, Settled, Ahead, Sent, Slack, serverVars, hostVars, countVars
<1>9. WithinLimit'
  BY <1>6, <1>8 DEF WithinLimit
<1> QED
  BY <1>4, <1>5, <1>7, <1>9

(* Pointer steps and clicks begin only when something is left to do.       *)
LEMMA PointerOwner ==
  ASSUME IInv, AtLoopHead, delta # Zero \/ step # Zero \/ armed # Nothing
  PROVE  /\ executionMutex \in Callers /\ executionMutex # NoCaller
         /\ at = 0 /\ stage = "store"
         /\ request[executionMutex] \in Request
         /\ UsedDevice = "mouse" /\ request[executionMutex].op # "text"
         /\ text = <<>>
BY RequestFacts
   DEF IInv, AtLoopHead, TypeOK, LocalsOwned, LocalsOfText, LocalsOfPointer, UsedDevice

(* A step is a clamped part of the way, and not the empty one.             *)
LEMMA StepPointerKeeps ==
  ASSUME IInv, StepPointer
  PROVE  IInv'
<1> USE DEF IInv
<1>1. /\ executionMutex \in Callers /\ executionMutex # NoCaller
      /\ at = 0 /\ stage = "store" /\ UsedDevice = "mouse" /\ text = <<>>
      /\ step = Zero /\ delta # Zero /\ at' = 1
      /\ UNCHANGED <<request, executionMutex, text, delta, armed, stage,
                     serverVars, hostVars, typed, countVars>>
  BY PointerOwner DEF StepPointer
<1>2. /\ \A a \in Axis : /\ step'[a] \in Clamped(delta[a], Int32(-MaxStep), MaxStep)
                         /\ delta[a] \in IntRange
                         /\ step'[a] = 0 => delta[a] = 0
      /\ step' \in Vector
      /\ report' = [held |-> Nothing, move |-> Carried(step')]
  <2>1. PICK stepX \in Clamped(delta["x"], Int32(-MaxStep), MaxStep),
             stepY \in Clamped(delta["y"], Int32(-MaxStep), MaxStep) :
          step' = [a \in Axis |-> IF a = "x" THEN stepX ELSE stepY]
    BY DEF StepPointer
  <2>2. \A a \in Axis : step'[a] \in Clamped(delta[a], Int32(-MaxStep), MaxStep)
    BY <2>1 DEF Axis
  <2>3. \A a \in Axis : /\ step'[a] \in IntRange /\ delta[a] \in IntRange
                        /\ step'[a] = 0 => delta[a] = 0
    BY <2>2, PointerTypes, ClampFacts
  <2>4. step' \in Vector
    <3>1. step' = [a \in Axis |-> step'[a]]
      BY <2>1
    <3> QED
      BY <2>3, <3>1 DEF Vector
  <2>5. report' = [held |-> Nothing, move |-> Carried(step')]
    BY DEF StepPointer
  <2> QED
    BY <2>2, <2>3, <2>4, <2>5
<1>3. step' # Zero
  <2> SUFFICES ASSUME step' = Zero PROVE FALSE
    OBVIOUS
  <2>1. \A a \in Axis : delta[a] = Zero[a]
    BY <1>2, VectorFacts
  <2>2. delta \in Vector
    BY DEF TypeOK
  <2> QED
    BY <1>1, <2>1, <2>2, VectorFacts
<1>4. TypeOK'
  <2>1. report' \in Report
    BY <1>2, CarriedFacts DEF Report
  <2> QED
    BY <1>1, <1>2, <2>1 DEF TypeOK, serverVars, hostVars, countVars
<1>5. UsedDevice' = "mouse"
  BY <1>1 DEF UsedDevice
<1>6. LocalsOwned' /\ LocalsOfText'
  BY <1>1, <1>5 DEF LocalsOwned, LocalsOfText
<1>7. LocalsOfPointer'
  BY <1>1, <1>2, <1>3, <1>5 DEF LocalsOfPointer, serverVars
<1>8. ASSUME LimitFits PROVE StepBounded'
  BY <1>2, <1>8, ClampFits DEF StepBounded
<1>9. HeldOnlyWhenPressed' /\ StoredIsPayload' /\ HeardIsValue'
  BY <1>1 DEF HeldOnlyWhenPressed, PressedNow, StoredIsPayload, HeardIsValue,
         serverVars, hostVars, countVars
<1>10. ASSUME PointerInv PROVE PointerInv'
  BY <1>1, <1>10, VectorFacts
     DEF PointerInv, Settled, Ahead, Sent, Slack, serverVars, hostVars, countVars
<1>11. WithinLimit'
  BY <1>8, <1>10 DEF WithinLimit
<1> QED
  BY <1>4, <1>6, <1>7, <1>9, <1>11

(* lastPointer catches up with what the iteration has sent.                *)
LEMMA AdvancePointerKeeps ==
  ASSUME IInv, AdvancePointer
  PROVE  IInv'
<1> USE DEF IInv
<1>1. /\ executionMutex \in Callers /\ executionMutex # NoCaller
      /\ at = 0 /\ stage = "store" /\ UsedDevice = "mouse" /\ text = <<>>
      /\ request[executionMutex] \in Request
      /\ request[executionMutex].op # "text"
      /\ step # Zero /\ step' = Zero
      /\ lastPointer' = Plus(lastPointer, step)
      /\ delta' = Minus(delta, step)
      /\ UNCHANGED <<request, executionMutex, text, armed, at, stage, report,
                     value, notifying, hostVars, typed, countVars>>
  BY PointerOwner DEF AdvancePointer
<1>2. /\ lastPointer' \in Vector /\ delta' \in Vector
      /\ \A a \in Axis : /\ lastPointer'[a] = Int32(lastPointer[a] + step[a])
                         /\ delta'[a] = Int32(delta[a] - step[a])
  BY <1>1, VectorFacts DEF TypeOK
<1>3. TypeOK'
  BY <1>1, <1>2, VectorFacts DEF TypeOK, hostVars, countVars
<1>4. UsedDevice' = "mouse"
  BY <1>1 DEF UsedDevice
<1>5. LocalsOwned' /\ LocalsOfText'
  BY <1>1, <1>4 DEF LocalsOwned, LocalsOfText
<1>6. LocalsOfPointer'
  <2>1. ASSUME NEW a \in Axis
        PROVE  Int32(lastPointer'[a] + delta'[a]) = Int32(lastPointer[a] + delta[a])
    <3>1. lastPointer[a] \in Int /\ delta[a] \in Int /\ step[a] \in Int
      BY PointerTypes
    <3>2. Int32(Int32(lastPointer[a] + step[a]) + Int32(delta[a] - step[a]))
            = Int32(lastPointer[a] + delta[a])
      BY <3>1, Advances
    <3> QED
      BY <1>2, <3>2
  <2> QED
    BY <1>1, <1>2, <1>4, <2>1, PointerTypes DEF LocalsOfPointer
<1>7. ASSUME LimitFits PROVE StepBounded'
  BY <1>1, <1>7, MaxStepFits, VectorFacts DEF StepBounded
<1>8. HeldOnlyWhenPressed' /\ StoredIsPayload' /\ HeardIsValue'
  BY <1>1 DEF HeldOnlyWhenPressed, PressedNow, StoredIsPayload, HeardIsValue,
         hostVars, countVars
<1>9. ASSUME PointerInv PROVE PointerInv'
  <2> SUFFICES ASSUME NEW a \in Axis
               PROVE  /\ Int32(Settled("bootMouseInput", a)') = lastPointer'[a]
                      /\ Abs(Settled("mouseInput", a)' - Settled("bootMouseInput", a)') <= Slack'
    BY DEF PointerInv
  <2>1. /\ Ahead("bootMouseInput", a)' = 0 /\ Ahead("mouseInput", a)' = 0
        /\ Ahead("bootMouseInput", a) = step[a]
        /\ Ahead("mouseInput", a) = step[a]
    BY <1>1, VectorFacts DEF Ahead
  <2>2. UNCHANGED <<moved, lost, faults>> /\ Slack' = Slack
    BY <1>1 DEF hostVars, countVars, Slack
  <2>3. /\ step[a] \in Int /\ lastPointer[a] \in Int
        /\ Settled("mouseInput", a) \in Int /\ Settled("bootMouseInput", a) \in Int
    BY <2>1, PointerTypes DEF Settled
  <2>4. /\ Settled("mouseInput", a)' = Settled("mouseInput", a) + step[a]
        /\ Settled("bootMouseInput", a)' = Settled("bootMouseInput", a) + step[a]
    BY <2>1, <2>2, <2>3, PointerTypes DEF Settled, Sent
  <2>5. Int32(Settled("bootMouseInput", a)') = Int32(lastPointer[a] + step[a])
    BY <1>9, <2>3, <2>4, WrapOnce DEF PointerInv
  <2>6. Settled("mouseInput", a)' - Settled("bootMouseInput", a)'
          = Settled("mouseInput", a) - Settled("bootMouseInput", a)
    BY <2>3, <2>4
  <2> QED
    BY <1>2, <1>9, <2>2, <2>5, <2>6 DEF PointerInv
<1>10. WithinLimit'
  BY <1>7, <1>9 DEF WithinLimit
<1> QED
  BY <1>3, <1>5, <1>6, <1>8, <1>10

(* The button of a click goes down only at the target.                     *)
LEMMA PressButtonKeeps ==
  ASSUME IInv, PressButton
  PROVE  IInv'
<1> USE DEF IInv
<1>1. /\ executionMutex \in Callers /\ executionMutex # NoCaller
      /\ at = 0 /\ stage = "store" /\ UsedDevice = "mouse" /\ text = <<>>
      /\ delta = Zero /\ armed \in Buttons /\ armed' = Nothing /\ at' = 1
      /\ request[executionMutex].op = "click"
      /\ report' = [held |-> armed, move |-> Zero]
      /\ UNCHANGED <<request, executionMutex, text, delta, step, stage,
                     serverVars, hostVars, typed, countVars>>
  BY PointerOwner DEF PressButton, TypeOK, LocalsOfPointer
<1>2. step = Zero
  BY <1>1 DEF LocalsOfPointer
<1>3. TypeOK'
  <2>1. report' \in Report
    BY <1>1, CarriedFacts DEF Report
  <2> QED
    BY <1>1, <2>1 DEF TypeOK, serverVars, hostVars, countVars
<1>4. UsedDevice' = "mouse"
  BY <1>1 DEF UsedDevice
<1>5. LocalsOwned' /\ LocalsOfText'
  BY <1>1, <1>4 DEF LocalsOwned, LocalsOfText
<1>6. LocalsOfPointer'
  BY <1>1, <1>2, <1>4 DEF LocalsOfPointer, serverVars
<1>7. HeldOnlyWhenPressed' /\ StoredIsPayload' /\ HeardIsValue'
  BY <1>1 DEF HeldOnlyWhenPressed, PressedNow, StoredIsPayload, HeardIsValue,
              serverVars, hostVars, countVars
<1>8. WithinLimit'
  BY <1>1, <1>2, VectorFacts
     DEF WithinLimit, StepBounded, PointerInv, Settled, Ahead, Sent, Slack,
         serverVars, hostVars, countVars
<1> QED
  BY <1>3, <1>5, <1>6, <1>7, <1>8

(* StartNotify and StopNotify touch nothing IInv speaks of.                *)
LEMMA SetNotifyingKeeps ==
  ASSUME IInv, NEW ch \in Characteristic, StartNotify(ch) \/ StopNotify(ch)
  PROVE  IInv'
<1> USE DEF IInv
<1>1. /\ notifying' \in [Characteristic -> BOOLEAN]
      /\ UNCHANGED <<request, executionMutex, localVars, lastPointer, value,
                     hostVars, typed, countVars>>
  BY DEF StartNotify, StopNotify, SetNotifying, TypeOK
<1>2. UsedDevice' = UsedDevice /\ Addressed' = Addressed
  BY <1>1 DEF UsedDevice, Addressed, localVars
<1>3. TypeOK'
  BY <1>1 DEF TypeOK, localVars, hostVars, countVars
<1>4. LocalsOwned' /\ LocalsOfText' /\ LocalsOfPointer'
  BY <1>1, <1>2 DEF LocalsOwned, LocalsOfText, LocalsOfPointer, localVars
<1>5. HeldOnlyWhenPressed'
  BY <1>1, <1>2 DEF HeldOnlyWhenPressed, PressedNow, localVars, countVars
<1>6. StoredIsPayload' /\ HeardIsValue'
  BY <1>1, <1>2 DEF StoredIsPayload, Payload, HeardIsValue, localVars, hostVars
<1>7. WithinLimit'
  BY <1>1 DEF WithinLimit, StepBounded, PointerInv, Settled, Ahead, Sent, Slack,
              localVars, hostVars, countVars
<1> QED
  BY <1>3, <1>4, <1>5, <1>6, <1>7

(* The owner of the mutex is inside a notification.                        *)
LEMMA NotifyOwner ==
  ASSUME IInv, at # 0
  PROVE  /\ executionMutex \in Callers /\ executionMutex # NoCaller
         /\ request[executionMutex] \in Request
         /\ at \in 1 .. 4
         /\ UsedDevice \in {"keyboard", "mouse"}
BY AddressedFacts DEF IInv, TypeOK, LocalsOwned, Device

(* What a notification carries: the step of the iteration, or something    *)
(* held down in the first half of it.                                      *)
LEMMA PayloadFacts ==
  ASSUME IInv, at # 0
  PROVE  /\ Payload \in Report
         /\ Payload.move = Carried(step)
         /\ Payload.held # Nothing => at \in {1, 2} /\ step = Zero
         /\ step # Zero => at <= 2 /\ UsedDevice = "mouse"
         /\ UsedDevice = "keyboard" => report.held \in Strokes
<1> USE DEF IInv
<1>1. Release \in Report /\ Release.held = Nothing /\ Release.move = Zero
  BY CarriedFacts DEF Release, Report
<1>2. step = Zero => Carried(step) = Zero
  BY VectorFacts, CarriedFacts
<1>3. CASE UsedDevice = "keyboard"
  BY <1>1, <1>2, <1>3, NotifyOwner DEF LocalsOfText, Payload, TypeOK
<1>4. CASE UsedDevice = "mouse"
  BY <1>1, <1>2, <1>4, NotifyOwner DEF LocalsOfPointer, Payload, TypeOK
<1> QED
  BY <1>3, <1>4, NotifyOwner

(* value_ is stored: pressed from here on, or released.                    *)
LEMMA StoreKeeps ==
  ASSUME IInv, Store
  PROVE  IInv'
<1> USE DEF IInv
<1>1. /\ at # 0 /\ stage = "store" /\ stage' = "check"
      /\ value' = [value EXCEPT ![Addressed] = Payload]
      /\ UNCHANGED <<request, executionMutex, text, delta, step, armed, at, report,
                     lastPointer, notifying, hostVars, countVars>>
  BY DEF Store
<1>2. UsedDevice' = UsedDevice /\ Addressed' = Addressed /\ Payload' = Payload
  BY <1>1 DEF UsedDevice, Addressed, Payload
<1>3. /\ value' \in [Characteristic -> Report]
      /\ value'[Addressed] = Payload
      /\ \A ch \in Characteristic : ch # Addressed => value'[ch] = value[ch]
  BY <1>1, AddressedFacts, PayloadFacts DEF TypeOK
<1>4. TypeOK'
  <2>1. typed' \in Seq(Strokes)
    BY <1>1, PayloadFacts DEF Store, TypeOK
  <2> QED
    BY <1>1, <1>3, <2>1 DEF TypeOK, hostVars, countVars
<1>5. LocalsOwned' /\ LocalsOfText' /\ LocalsOfPointer'
  BY <1>1, <1>2 DEF LocalsOwned, LocalsOfText, LocalsOfPointer
<1>6. HeldOnlyWhenPressed'
  <2> SUFFICES ASSUME NEW ch \in Characteristic,
                      faults[DeviceOf(ch)] = 0, value'[ch].held # Nothing
               PROVE  PressedNow(ch)'
    BY <1>1 DEF HeldOnlyWhenPressed, countVars
  <2>1. CASE ch = Addressed
    BY <1>1, <1>2, <1>3, <2>1, NotifyOwner, PayloadFacts, AddressedFacts
       DEF PressedNow, Addressed, Input, BootInput
  <2>2. CASE ch # Addressed
    <3>1. PressedNow(ch)
      BY <1>3, <2>2 DEF HeldOnlyWhenPressed
    <3>2. ch = Input(UsedDevice) \/ ch = BootInput(UsedDevice)
      BY <3>1, AddressedFacts DEF PressedNow
    <3> QED
      BY <1>1, <1>2, <2>2, <3>1, <3>2, NotifyOwner DEF PressedNow, Addressed
  <2> QED
    BY <2>1, <2>2
<1>7. StoredIsPayload' /\ HeardIsValue'
  BY <1>1, <1>2, <1>3 DEF StoredIsPayload, HeardIsValue, hostVars
<1>8. WithinLimit'
  BY <1>1 DEF WithinLimit, StepBounded, PointerInv, Settled, Ahead, Sent, Slack,
              hostVars, countVars
<1> QED
  BY <1>4, <1>5, <1>6, <1>7, <1>8

(* notifying_ was read: the signal is still to come.                       *)
LEMMA CheckNotifyingKeeps ==
  ASSUME IInv, CheckNotifying
  PROVE  IInv'
<1> USE DEF IInv
<1>1. /\ at # 0 /\ stage = "check" /\ stage' = "emit"
      /\ UNCHANGED <<request, executionMutex, text, delta, step, armed, at, report,
                     serverVars, hostVars, typed, countVars>>
  BY DEF CheckNotifying
<1>2. UsedDevice' = UsedDevice /\ Addressed' = Addressed /\ Payload' = Payload
  BY <1>1 DEF UsedDevice, Addressed, Payload
<1>3. TypeOK'
  BY <1>1 DEF TypeOK, serverVars, hostVars, countVars
<1>4. LocalsOwned' /\ LocalsOfText' /\ LocalsOfPointer'
  BY <1>1, <1>2 DEF LocalsOwned, LocalsOfText, LocalsOfPointer, serverVars
<1>5. HeldOnlyWhenPressed'
  BY <1>1, <1>2 DEF HeldOnlyWhenPressed, PressedNow, serverVars, countVars
<1>6. StoredIsPayload' /\ HeardIsValue'
  BY <1>1, <1>2 DEF StoredIsPayload, HeardIsValue, serverVars, hostVars
<1>7. WithinLimit'
  BY <1>1 DEF WithinLimit, StepBounded, PointerInv, Settled, Ahead, Sent, Slack,
              serverVars, hostVars, countVars
<1> QED
  BY <1>3, <1>4, <1>5, <1>6, <1>7

(* A notification is over, signalled or not: the next one follows, with    *)
(* the displacement of this one accounted for.                             *)
LEMMA NextNotificationKeeps ==
  ASSUME IInv, at # 0, stage # "store", NextNotification,
         UNCHANGED <<request, executionMutex, text, delta, step, armed, report,
                     serverVars, typed, countVars>>,
         \A ch \in Characteristic, a \in Axis :
           Sent(ch, a)' = Sent(ch, a) + (IF ch = Addressed THEN Carried(step)[a] ELSE 0)
  PROVE  /\ LocalsOwned' /\ LocalsOfText' /\ LocalsOfPointer'
         /\ HeldOnlyWhenPressed' /\ StoredIsPayload' /\ WithinLimit'
         /\ at' \in 0 .. 4 /\ stage' = "store"
<1> USE DEF IInv
<1>1. /\ stage' = "store" /\ at' \in 0 .. 4
      /\ step = Zero => at' = IF at = 4 THEN 0 ELSE at + 1
      /\ step # Zero => at' = IF at = 2 THEN 0 ELSE at + 1
      /\ step # Zero => at' <= 2
  BY NotifyOwner, PayloadFacts DEF NextNotification, LastNotification
<1>2. UsedDevice' = UsedDevice
  BY DEF UsedDevice
<1>3. LocalsOwned' /\ StoredIsPayload'
  BY <1>1, NotifyOwner DEF LocalsOwned, StoredIsPayload
<1>4. LocalsOfText' /\ LocalsOfPointer'
  BY <1>1, <1>2 DEF LocalsOfText, LocalsOfPointer, serverVars
<1>5. HeldOnlyWhenPressed'
  <2> SUFFICES ASSUME NEW ch \in Characteristic, PressedNow(ch)
               PROVE  PressedNow(ch)'
    BY DEF HeldOnlyWhenPressed, serverVars, countVars
  <2> QED
    BY <1>1, <1>2 DEF PressedNow
<1>6. ASSUME LimitFits PROVE StepBounded' /\ PointerInv'
  <2>1. StepBounded /\ PointerInv
    BY <1>6 DEF WithinLimit
  <2>2. ASSUME NEW a \in Axis PROVE Carried(step)[a] = step[a] /\ step[a] \in Int
    <3>1. step[a] \in -ReportMax .. ReportMax /\ step \in Vector
      BY <1>6, <2>1, MaxStepFits, PointerTypes, WidthAssumption DEF StepBounded, TypeOK
    <3> QED
      BY <3>1, CarriedFacts, PointerTypes
  <2>3. ASSUME NEW ch \in {"mouseInput", "bootMouseInput"}, NEW a \in Axis
        PROVE  Settled(ch, a)' = Settled(ch, a)
    <3>1. Ahead(ch, a)' = Ahead(ch, a) + (IF ch = Addressed THEN step[a] ELSE 0)
      <4>1. CASE step = Zero
        BY <4>1, VectorFacts DEF Ahead
      <4>2. CASE step # Zero
        <5>1. /\ at \in {1, 2}
              /\ Addressed = IF at = 1 THEN "mouseInput" ELSE "bootMouseInput"
          BY <4>2, NotifyOwner, PayloadFacts DEF Addressed, Input, BootInput
        <5> QED
          BY <1>1, <4>2, <5>1, PointerTypes DEF Ahead
      <4> QED
        BY <4>1, <4>2
    <3>2. ch \in Characteristic /\ Sent(ch, a) \in Int /\ Ahead(ch, a) \in Int
      BY <2>2, PointerTypes DEF Ahead
    <3>3. Sent(ch, a)' = Sent(ch, a) + (IF ch = Addressed THEN step[a] ELSE 0)
      BY <2>2, <3>2
    <3> QED
      BY <2>2, <3>1, <3>2, <3>3 DEF Settled
  <2>4. StepBounded' /\ Slack' = Slack
    BY <2>1 DEF StepBounded, Slack, countVars
  <2>5. PointerInv'
    BY <2>1, <2>3, <2>4 DEF PointerInv, serverVars
  <2> QED
    BY <2>4, <2>5
<1>7. WithinLimit'
  BY <1>6 DEF WithinLimit
<1> QED
  BY <1>1, <1>3, <1>4, <1>5, <1>7

(* Nobody listens: the update stays with the characteristic.               *)
LEMMA SkipSignalKeeps ==
  ASSUME IInv, SkipSignal
  PROVE  IInv'
<1> USE DEF IInv
<1>1. /\ at # 0 /\ stage = "check" /\ NextNotification
      /\ stale' = stale \cup {Addressed}
      /\ lost' = [lost EXCEPT ![Addressed] = Tally(lost[Addressed], Carried(step))]
      /\ UNCHANGED <<request, executionMutex, text, delta, step, armed, report,
                     serverVars, heard, moved, typed, countVars>>
  BY PayloadFacts DEF SkipSignal
<1>2. /\ lost' \in [Characteristic -> Sums]
      /\ \A ch \in Characteristic, a \in Axis :
           lost'[ch][a] = lost[ch][a] + (IF ch = Addressed THEN Carried(step)[a] ELSE 0)
  <2>1. Carried(step) \in Sums /\ lost[Addressed] \in Sums
    BY AddressedFacts, CarriedFacts DEF TypeOK
  <2>2. Tally(lost[Addressed], Carried(step)) \in Sums
    BY <2>1 DEF Tally, Sums
  <2>3. \A a \in Axis :
          Tally(lost[Addressed], Carried(step))[a] = lost[Addressed][a] + Carried(step)[a]
    BY DEF Tally
  <2> QED
    BY <1>1, <2>2, <2>3, AddressedFacts, PointerTypes DEF TypeOK
<1>3. \A ch \in Characteristic, a \in Axis :
        Sent(ch, a)' = Sent(ch, a) + (IF ch = Addressed THEN Carried(step)[a] ELSE 0)
  <2>1. \A a \in Axis : Carried(step)[a] \in Int
    BY CarriedFacts DEF TypeOK, Sums
  <2> QED
    BY <1>1, <1>2, <2>1, PointerTypes DEF Sent
<1>4. /\ LocalsOwned' /\ LocalsOfText' /\ LocalsOfPointer'
      /\ HeldOnlyWhenPressed' /\ StoredIsPayload' /\ WithinLimit'
      /\ at' \in 0 .. 4 /\ stage' = "store"
  BY <1>1, <1>3, NextNotificationKeeps
<1>5. TypeOK'
  BY <1>1, <1>2, <1>4, AddressedFacts DEF TypeOK, serverVars, countVars
<1>6. HeardIsValue'
  BY <1>1 DEF HeardIsValue, serverVars
<1> QED
  BY <1>4, <1>5, <1>6

(* The host is sent what was stored.                                       *)
LEMMA EmitKeeps ==
  ASSUME IInv, Emit
  PROVE  IInv'
<1> USE DEF IInv
<1>1. /\ at # 0 /\ stage = "emit" /\ NextNotification
      /\ heard' = [heard EXCEPT ![Addressed] = Payload]
      /\ moved' = [moved EXCEPT ![Addressed] = Tally(moved[Addressed], Carried(step))]
      /\ stale' = stale \ {Addressed}
      /\ UNCHANGED <<request, executionMutex, text, delta, step, armed, report,
                     serverVars, lost, typed, countVars>>
  BY PayloadFacts DEF Emit
<1>2. /\ moved' \in [Characteristic -> Sums]
      /\ \A ch \in Characteristic, a \in Axis :
           moved'[ch][a] = moved[ch][a] + (IF ch = Addressed THEN Carried(step)[a] ELSE 0)
  <2>1. Carried(step) \in Sums /\ moved[Addressed] \in Sums
    BY AddressedFacts, CarriedFacts DEF TypeOK
  <2>2. Tally(moved[Addressed], Carried(step)) \in Sums
    BY <2>1 DEF Tally, Sums
  <2>3. \A a \in Axis :
          Tally(moved[Addressed], Carried(step))[a] = moved[Addressed][a] + Carried(step)[a]
    BY DEF Tally
  <2> QED
    BY <1>1, <2>2, <2>3, AddressedFacts, PointerTypes DEF TypeOK
<1>3. \A ch \in Characteristic, a \in Axis :
        Sent(ch, a)' = Sent(ch, a) + (IF ch = Addressed THEN Carried(step)[a] ELSE 0)
  <2>1. \A a \in Axis : Carried(step)[a] \in Int
    BY CarriedFacts DEF TypeOK, Sums
  <2> QED
    BY <1>1, <1>2, <2>1, PointerTypes DEF Sent
<1>4. /\ LocalsOwned' /\ LocalsOfText' /\ LocalsOfPointer'
      /\ HeldOnlyWhenPressed' /\ StoredIsPayload' /\ WithinLimit'
      /\ at' \in 0 .. 4 /\ stage' = "store"
  BY <1>1, <1>3, NextNotificationKeeps
<1>5. /\ heard' \in [Characteristic -> Report]
      /\ heard'[Addressed] = Payload
      /\ \A ch \in Characteristic : ch # Addressed => heard'[ch] = heard[ch]
  BY <1>1, AddressedFacts, PayloadFacts DEF TypeOK
<1>6. TypeOK'
  BY <1>1, <1>2, <1>4, <1>5 DEF TypeOK, serverVars, countVars
<1>7. HeardIsValue'
  BY <1>1, <1>5 DEF HeardIsValue, StoredIsPayload, serverVars
<1> QED
  BY <1>4, <1>6, <1>7

(* A step that changes no variable.                                        *)
LEMMA StutterKeeps ==
  ASSUME IInv, UNCHANGED vars
  PROVE  IInv'
BY DEF vars, localVars, serverVars, hostVars, countVars, IInv, TypeOK,
       LocalsOwned, LocalsOfText, LocalsOfPointer, WithinLimit, StepBounded, UsedDevice,
       HeldOnlyWhenPressed, PressedNow, StoredIsPayload, HeardIsValue, Addressed,
       Payload, PointerInv, Settled, Sent, Slack, Ahead

-----------------------------------------------------------------------------
(* The theorems.                                                           *)

(* IInv holds in every reachable state, for every value of the constants;  *)
(* its part on steps and tracker (WithinLimit) for limits int represents.  *)
THEOREM Inductive == Spec => []IInv
<1>1. Init => IInv
  BY InitEstablishes
<1>2. IInv /\ [Next]_vars => IInv'
  <2> SUFFICES ASSUME IInv, [Next]_vars PROVE IInv'
    OBVIOUS
  <2>1. CASE \E c \in Callers : Call(c) \/ Refuse(c)
    BY <2>1, CallKeeps
  <2>2. CASE \E c \in Callers : Lock(c)
    BY <2>2, LockKeeps
  <2>3. CASE SkipChar \/ TypeChar
    BY <2>3, TextKeeps
  <2>4. CASE StepPointer
    BY <2>4, StepPointerKeeps
  <2>5. CASE AdvancePointer
    BY <2>5, AdvancePointerKeeps
  <2>6. CASE PressButton
    BY <2>6, PressButtonKeeps
  <2>7. CASE Store
    BY <2>7, StoreKeeps
  <2>8. CASE CheckNotifying
    BY <2>8, CheckNotifyingKeeps
  <2>9. CASE SkipSignal
    BY <2>9, SkipSignalKeeps
  <2>10. CASE Emit
    BY <2>10, EmitKeeps
  <2>11. CASE EmitThrows
    BY <2>11, EmitThrowsKeeps
  <2>12. CASE Return
    BY <2>12, ReturnKeeps
  <2>13. CASE \E ch \in Characteristic : StartNotify(ch) \/ StopNotify(ch)
    BY <2>13, SetNotifyingKeeps
  <2>14. CASE UNCHANGED vars
    BY <2>14, StutterKeeps
  <2> QED
    BY <2>1, <2>2, <2>3, <2>4, <2>5, <2>6, <2>7, <2>8, <2>9, <2>10, <2>11,
       <2>12, <2>13, <2>14 DEF Next, OwnerStep
<1> QED
  BY <1>1, <1>2, PTL DEF Spec

(* Every variable keeps its type.                                          *)
THEOREM TypeCorrect == Spec => []TypeOK
<1>1. IInv => TypeOK
  BY DEF IInv
<1> QED
  BY <1>1, Inductive, PTL

(* Whatever calls compete, and wherever StopNotify falls, the press and    *)
(* the release of an iteration are both stored before the next one.        *)
THEOREM Released == Spec => []ReleasedBetweenIterations
<1>1. IInv => ReleasedBetweenIterations
  <2> SUFFICES ASSUME IInv, at = 0, NEW ch \in Characteristic,
                      faults[DeviceOf(ch)] = 0
               PROVE  value[ch].held = Nothing
    BY DEF ReleasedBetweenIterations
  <2>1. ~PressedNow(ch)
    BY DEF IInv, LocalsOwned, PressedNow
  <2> QED
    BY <2>1 DEF IInv, HeldOnlyWhenPressed
<1> QED
  BY <1>1, Inductive, PTL

(* Between two calls an up-to-date host sees nothing held down.            *)
THEOREM HostReleased == Spec => []HostSeesReleased
<1>1. IInv => HostSeesReleased
  <2> SUFFICES ASSUME IInv, executionMutex = NoCaller,
                      NEW ch \in Characteristic \ stale,
                      faults[DeviceOf(ch)] = 0
               PROVE  heard[ch].held = Nothing
    BY DEF HostSeesReleased
  <2>1. value[ch].held = Nothing
    BY DEF IInv, HeldOnlyWhenPressed, PressedNow
  <2>2. heard[ch] = value[ch]
    BY DEF IInv, LocalsOwned, HeardIsValue
  <2> QED
    BY <2>1, <2>2
<1> QED
  BY <1>1, Inductive, PTL

(* A button is pressed at the target of its own click and nowhere else.    *)
THEOREM Clicked == Spec => []ClickOnTarget
<1>1. IInv => ClickOnTarget
  <2> SUFFICES ASSUME IInv, NEW ch \in {"mouseInput", "bootMouseInput"},
                      value[ch].held # Nothing, faults["mouse"] = 0
               PROVE  /\ executionMutex # NoCaller
                      /\ request[executionMutex].op = "click"
                      /\ lastPointer = request[executionMutex].target
    BY DEF ClickOnTarget
  <2>1. ch \in Characteristic /\ DeviceOf(ch) = "mouse"
    BY DEF Characteristic, DeviceOf
  <2>2. PressedNow(ch)
    BY <2>1 DEF IInv, HeldOnlyWhenPressed
  <2>3. /\ at # 0 /\ step = Zero /\ UsedDevice = "mouse"
        /\ executionMutex # NoCaller
    BY <2>1, <2>2 DEF PressedNow
  <2>4. request[executionMutex].op = "click" /\ delta = Zero
    BY <2>3 DEF IInv, LocalsOfPointer
  <2>5. request[executionMutex].target \in Vector /\ lastPointer \in Vector
    BY <2>3, <2>4, NotifyOwner, RequestFacts DEF IInv, TypeOK
  <2>6. \A a \in Axis : lastPointer[a] = request[executionMutex].target[a]
    <3>1. \A a \in Axis : Int32(lastPointer[a] + 0) = request[executionMutex].target[a]
      BY <2>3, <2>4, VectorFacts DEF IInv, LocalsOfPointer
    <3> QED
      BY <2>5, <3>1, VectorFacts, Exact
  <2>7. lastPointer = request[executionMutex].target
    BY <2>5, <2>6, VectorFacts
  <2> QED
    BY <2>3, <2>4, <2>7
<1> QED
  BY <1>1, Inductive, PTL

(* With a limit int represents, the tracked pointer position is what the   *)
(* hosts were sent, in the arithmetic of int, up to one step of the report *)
(* characteristic per signal that threw.                                   *)
THEOREM Tracked ==
  ASSUME LimitFits PROVE Spec => []PointerTracked
<1>1. IInv => PointerTracked
  <2> SUFFICES ASSUME IInv, executionMutex = NoCaller, NEW a \in Axis
               PROVE  /\ Int32(Sent("bootMouseInput", a)) = lastPointer[a]
                      /\ Abs(Sent("mouseInput", a) - Sent("bootMouseInput", a))
                           <= faults["mouse"] * MaxStep
    BY DEF PointerTracked
  <2>1. TypeOK /\ PointerInv
    BY DEF IInv, WithinLimit
  <2>2. Ahead("mouseInput", a) = 0 /\ Ahead("bootMouseInput", a) = 0
    BY VectorFacts DEF IInv, LocalsOwned, Ahead
  <2>3. /\ Settled("mouseInput", a) = Sent("mouseInput", a)
        /\ Settled("bootMouseInput", a) = Sent("bootMouseInput", a)
    BY <2>1, <2>2, PointerTypes DEF Settled
  <2> QED
    BY <2>1, <2>3 DEF PointerInv, Slack
<1> QED
  BY <1>1, Inductive, PTL

-----------------------------------------------------------------------------
(* The safety part of HidDevice, on both devices.                          *)

(* What a device can hold down, and what its report characteristic holds.  *)
HoldsOf(d) == IF d = "keyboard" THEN Strokes ELSE Buttons
Down(d) == value[Input(d)].held

(* Only Store writes a characteristic.                                     *)
LEMMA OnlyStoreWrites ==
  ASSUME [Next]_vars, ~Store
  PROVE  value' = value
<1> USE DEF serverVars, localVars
<1>1. CASE \E c \in Callers : Call(c) \/ Refuse(c) \/ Lock(c)
  BY <1>1 DEF Call, Refuse, Lock
<1>2. CASE SkipChar \/ TypeChar \/ StepPointer \/ AdvancePointer \/ PressButton
  BY <1>2 DEF SkipChar, TypeChar, StepPointer, AdvancePointer, PressButton
<1>3. CASE CheckNotifying \/ SkipSignal \/ Emit \/ EmitThrows \/ Return
  BY <1>3 DEF CheckNotifying, SkipSignal, Emit, EmitThrows, Return
<1>4. CASE \E ch \in Characteristic : StartNotify(ch) \/ StopNotify(ch)
  BY <1>4 DEF StartNotify, StopNotify, SetNotifying
<1>5. CASE UNCHANGED vars
  BY <1>5 DEF vars
<1> QED
  BY <1>1, <1>2, <1>3, <1>4, <1>5 DEF Next, OwnerStep

(* Signals that threw are counted up, and by EmitThrows only.              *)
LEMMA FaultsGrow ==
  ASSUME IInv, [Next]_vars, NEW d \in Device
  PROVE  /\ faults[d] \in Nat
         /\ faults'[d] = faults[d] \/ (EmitThrows /\ faults'[d] > 0)
<1> USE DEF countVars
<1>0. faults \in [Device -> Nat]
  BY ConstantsAssumption DEF IInv, TypeOK
<1>1. CASE \E c \in Callers : Call(c) \/ Refuse(c) \/ Lock(c)
  BY <1>0, <1>1 DEF Call, Refuse, Lock
<1>2. CASE SkipChar \/ TypeChar \/ StepPointer \/ AdvancePointer \/ PressButton
  BY <1>0, <1>2 DEF SkipChar, TypeChar, StepPointer, AdvancePointer, PressButton
<1>3. CASE Store \/ CheckNotifying \/ SkipSignal \/ Emit \/ Return
  BY <1>0, <1>3 DEF Store, CheckNotifying, SkipSignal, Emit, Return
<1>4. CASE EmitThrows
  BY <1>0, <1>4, AddressedFacts DEF EmitThrows
<1>5. CASE \E ch \in Characteristic : StartNotify(ch) \/ StopNotify(ch)
  BY <1>0, <1>5 DEF StartNotify, StopNotify, SetNotifying
<1>6. CASE UNCHANGED vars
  BY <1>0, <1>6 DEF vars
<1> QED
  BY <1>1, <1>2, <1>3, <1>4, <1>5, <1>6 DEF Next, OwnerStep

(* A store into a report characteristic is a press, a release, or leaves   *)
(* what is held down as it is; without a throw a press finds nothing held. *)
LEMMA StoreAlternates ==
  ASSUME IInv, Store, NEW d \in Device, Down(d)' # Down(d)
  PROVE  /\ Down(d)' \in HoldsOf(d) \cup {Nothing}
         /\ faults[d] = 0 =>
              \/ Down(d) = Nothing /\ Down(d)' \in HoldsOf(d)
              \/ Down(d) # Nothing /\ Down(d)' = Nothing
<1>1. at # 0 /\ stage = "store" /\ value' = [value EXCEPT ![Addressed] = Payload]
  BY DEF Store
<1>2. /\ Input(d) \in Characteristic /\ DeviceOf(Input(d)) = d
      /\ BootInput(UsedDevice) # Input(d)
      /\ Input(UsedDevice) = Input(d) => UsedDevice = d
  BY AddressedFacts DEF Device, Input, BootInput, Characteristic, DeviceOf
<1>3. value \in [Characteristic -> Report]
  BY DEF IInv, TypeOK
<1>4. Addressed = Input(d) /\ Down(d)' = Payload.held
  BY <1>1, <1>2, <1>3 DEF Down
<1>5. UsedDevice = d /\ at \in {1, 3}
  BY <1>2, <1>4, NotifyOwner, <1>1 DEF Addressed
<1>6. CASE at = 1
  <2>1. Payload.held = report.held
    BY <1>6 DEF Payload
  <2>2. report.held \in HoldsOf(d) \cup {Nothing}
    <3>1. CASE d = "keyboard"
      BY <1>1, <1>5, <3>1, NotifyOwner DEF IInv, LocalsOfText, HoldsOf
    <3>2. CASE d = "mouse"
      BY <1>1, <1>5, <3>2, NotifyOwner DEF IInv, LocalsOfPointer, HoldsOf
    <3> QED
      BY <3>1, <3>2 DEF Device
  <2>3. ~PressedNow(Input(d))
    BY <1>1, <1>5, <1>6 DEF PressedNow
  <2>4. faults[d] = 0 => Down(d) = Nothing
    BY <1>2, <2>3 DEF IInv, HeldOnlyWhenPressed, Down
  <2> QED
    BY <1>4, <2>1, <2>2, <2>4
<1>7. CASE at = 3
  BY <1>4, <1>7 DEF Payload, Release
<1> QED
  BY <1>5, <1>6, <1>7

(* One step of HidServer, seen on the report characteristic of a device.   *)
LEMMA DeviceStep ==
  ASSUME IInv, [Next]_vars, NEW d \in Device
  PROVE  LET faulted == faults[d] > 0
             faultedNext == faults'[d] > 0
         IN  \/ /\ ~faulted /\ Down(d) = Nothing /\ Down(d)' \in HoldsOf(d)
                /\ faultedNext = faulted
             \/ /\ ~faulted /\ Down(d) # Nothing /\ Down(d)' = Nothing
                /\ faultedNext = faulted
             \/ faultedNext /\ Down(d)' = Down(d)
             \/ /\ faulted /\ Down(d)' \in HoldsOf(d) \cup {Nothing}
                /\ faultedNext = faulted
             \/ Down(d)' = Down(d) /\ faultedNext = faulted
<1>1. CASE Store /\ Down(d)' # Down(d)
  <2>1. faults' = faults
    BY <1>1 DEF Store, countVars
  <2> QED
    BY <1>1, <2>1, StoreAlternates, FaultsGrow
<1>2. CASE ~(Store /\ Down(d)' # Down(d))
  <2>1. Down(d)' = Down(d)
    BY <1>2, OnlyStoreWrites DEF Down
  <2>2. faults'[d] = faults[d] \/ faults'[d] > 0
    BY FaultsGrow
  <2> QED
    BY <2>1, <2>2
<1> QED
  BY <1>1, <1>2

(* On the keyboard and on the mouse alike, whatever calls compete, a press *)
(* is followed by its release before the next press, until a signal of the *)
(* device throws: HidServer implements the safety part of HidDevice.       *)
THEOREM Alternate == Spec => PressesAlternate
<1>1. Init => KeyboardPromise!Init /\ MousePromise!Init
  BY DEF Init, KeyboardPromise!Init, MousePromise!Init, Characteristic, Device, Release
<1>2. IInv /\ [Next]_vars => [KeyboardPromise!Next]_(KeyboardPromise!vars)
  <2> SUFFICES ASSUME IInv, [Next]_vars
               PROVE  [KeyboardPromise!Next]_(KeyboardPromise!vars)
    OBVIOUS
  <2>1. "keyboard" \in Device /\ Input("keyboard") = "keyboardInput"
        /\ HoldsOf("keyboard") = Strokes
    BY DEF Device, Input, HoldsOf
  <2> QED
    BY <2>1, DeviceStep
       DEF Down, KeyboardPromise!Next, KeyboardPromise!vars, KeyboardPromise!Press,
           KeyboardPromise!Lift, KeyboardPromise!Fault, KeyboardPromise!AfterFault
<1>3. IInv /\ [Next]_vars => [MousePromise!Next]_(MousePromise!vars)
  <2> SUFFICES ASSUME IInv, [Next]_vars
               PROVE  [MousePromise!Next]_(MousePromise!vars)
    OBVIOUS
  <2>1. "mouse" \in Device /\ Input("mouse") = "mouseInput" /\ HoldsOf("mouse") = Buttons
    BY DEF Device, Input, HoldsOf
  <2> QED
    BY <2>1, DeviceStep
       DEF Down, MousePromise!Next, MousePromise!vars, MousePromise!Press,
           MousePromise!Lift, MousePromise!Fault, MousePromise!AfterFault
<1> QED
  BY <1>1, <1>2, <1>3, Inductive, PTL
     DEF Spec, PressesAlternate, KeyboardPromise!SafeSpec, MousePromise!SafeSpec

(* Every call that is waiting or running passed the check of its device;   *)
(* with what the characteristics hold this makes silence inductive.        *)
DeviceEnabled(d) == IF d = "keyboard" THEN KeyboardEnabled ELSE MouseEnabled
EnabledInv ==
  /\ DisabledIsSilent
  /\ \A c \in Callers : request[c] # NoRequest => Enabled(request[c])

(* The device a notification addresses is enabled.                         *)
LEMMA AddressedEnabled ==
  ASSUME IInv, EnabledInv, at # 0
  PROVE  DeviceEnabled(DeviceOf(Addressed))
<1>1. Enabled(request[executionMutex])
  BY NotifyOwner DEF IInv, LocalsOwned, EnabledInv
<1> QED
  BY <1>1, AddressedFacts, NotifyOwner
     DEF DeviceEnabled, Enabled, UsedDevice, DeviceUsed

LEMMA SilentAlternatively ==
  DisabledIsSilent <=>
    \A ch \in Characteristic :
      ~DeviceEnabled(DeviceOf(ch)) => value[ch] = Release /\ heard[ch] = Release
BY DEF DisabledIsSilent, DeviceEnabled

(* Calls come and go; only Call lets a request in, and it checks.          *)
LEMMA RequestsStayEnabled ==
  ASSUME IInv, EnabledInv, [Next]_vars
  PROVE  \A c \in Callers : request'[c] # NoRequest => Enabled(request'[c])
<1>0. request \in [Callers -> Request \cup {NoRequest}]
  BY DEF IInv, TypeOK
<1>1. CASE \E c \in Callers : Call(c)
  BY <1>0, <1>1 DEF Call, EnabledInv
<1>2. CASE Return \/ EmitThrows
  BY <1>0, <1>2 DEF Return, EmitThrows, Leave, EnabledInv
<1>3. CASE request' = request
  BY <1>3 DEF EnabledInv
<1>4. CASE OwnerStep /\ ~(Return \/ EmitThrows)
  BY <1>3, <1>4 DEF OwnerStep, SkipChar, TypeChar, StepPointer, AdvancePointer,
     PressButton, Store, CheckNotifying, SkipSignal, Emit
<1>5. CASE \E c \in Callers : Refuse(c) \/ Lock(c)
  BY <1>3, <1>5 DEF Refuse, Lock
<1>6. CASE \E ch \in Characteristic : StartNotify(ch) \/ StopNotify(ch)
  BY <1>3, <1>6 DEF StartNotify, StopNotify, SetNotifying
<1>7. CASE UNCHANGED vars
  BY <1>3, <1>7 DEF vars
<1> QED
  BY <1>1, <1>2, <1>4, <1>5, <1>6, <1>7 DEF Next

(* Only Emit tells a host something.                                       *)
LEMMA OnlyEmitIsHeard ==
  ASSUME [Next]_vars, ~Emit
  PROVE  heard' = heard
<1> USE DEF hostVars, localVars
<1>1. CASE \E c \in Callers : Call(c) \/ Refuse(c) \/ Lock(c)
  BY <1>1 DEF Call, Refuse, Lock
<1>2. CASE SkipChar \/ TypeChar \/ StepPointer \/ AdvancePointer \/ PressButton
  BY <1>2 DEF SkipChar, TypeChar, StepPointer, AdvancePointer, PressButton
<1>3. CASE Store \/ CheckNotifying \/ SkipSignal \/ EmitThrows \/ Return
  BY <1>3 DEF Store, CheckNotifying, SkipSignal, EmitThrows, Return
<1>4. CASE \E ch \in Characteristic : StartNotify(ch) \/ StopNotify(ch)
  BY <1>4 DEF StartNotify, StopNotify, SetNotifying
<1>5. CASE UNCHANGED vars
  BY <1>5 DEF vars
<1> QED
  BY <1>1, <1>2, <1>3, <1>4, <1>5 DEF Next, OwnerStep

(* A device that is disabled in the configuration never leaves its initial *)
(* report: the check at the head of each call guards every store and every *)
(* signal that the call makes later.                                       *)
THEOREM Silent == Spec => []DisabledIsSilent
<1>1. Init => EnabledInv
  BY DEF Init, EnabledInv, DisabledIsSilent
<1>2. IInv /\ EnabledInv /\ [Next]_vars => EnabledInv'
  <2> SUFFICES ASSUME IInv, EnabledInv, [Next]_vars PROVE EnabledInv'
    OBVIOUS
  <2>1. SUFFICES ASSUME NEW ch \in Characteristic, ~DeviceEnabled(DeviceOf(ch))
                 PROVE  value'[ch] = Release /\ heard'[ch] = Release
    BY RequestsStayEnabled DEF EnabledInv, DisabledIsSilent, DeviceEnabled
  <2>2. value[ch] = Release /\ heard[ch] = Release
    BY <2>1, SilentAlternatively DEF EnabledInv
  <2>3. at # 0 => ch # Addressed
    BY <2>1, AddressedEnabled
  <2>4. value'[ch] = value[ch]
    BY <2>3, OnlyStoreWrites DEF Store, IInv, TypeOK
  <2>5. heard'[ch] = heard[ch]
    BY <2>3, OnlyEmitIsHeard DEF Emit, IInv, TypeOK
  <2> QED
    BY <2>2, <2>4, <2>5
<1>3. EnabledInv => DisabledIsSilent
  BY DEF EnabledInv
<1> QED
  BY <1>1, <1>2, <1>3, Inductive, PTL DEF Spec

-----------------------------------------------------------------------------
(* What sendText types.                                                    *)

(* One position more is typeable or not.                                   *)
LEMMA TypeableFacts ==
  ASSUME NEW t, NEW n \in Nat
  PROVE  /\ IsFiniteSet(TypeableUpTo(t, n)) /\ Cardinality(TypeableUpTo(t, n)) \in Nat
         /\ n + 1 \notin TypeableUpTo(t, n)
         /\ TypeableUpTo(t, n + 1) = IF Typeable(t[n + 1])
                                     THEN TypeableUpTo(t, n) \cup {n + 1}
                                     ELSE TypeableUpTo(t, n)
         /\ Cardinality(TypeableUpTo(t, n + 1)) = IF Typeable(t[n + 1])
                                                  THEN Cardinality(TypeableUpTo(t, n)) + 1
                                                  ELSE Cardinality(TypeableUpTo(t, n))
<1>1. IsFiniteSet(TypeableUpTo(t, n))
  <2>1. IsFiniteSet(1 .. n)
    BY FS_Interval
  <2>2. TypeableUpTo(t, n) \in SUBSET (1 .. n)
    BY DEF TypeableUpTo
  <2> QED BY <2>1, <2>2, FS_Subset
<1>2. Cardinality(TypeableUpTo(t, n)) \in Nat
  BY <1>1, FS_CardinalityType
<1>3. n + 1 \notin TypeableUpTo(t, n)
  BY DEF TypeableUpTo
<1>4. TypeableUpTo(t, n + 1) = IF Typeable(t[n + 1])
                               THEN TypeableUpTo(t, n) \cup {n + 1} ELSE TypeableUpTo(t, n)
  <2>1. 1 .. n + 1 = (1 .. n) \cup {n + 1}
    OBVIOUS
  <2> QED BY <2>1 DEF TypeableUpTo
<1>5. Cardinality(TypeableUpTo(t, n) \cup {n + 1}) = Cardinality(TypeableUpTo(t, n)) + 1
  BY <1>1, <1>3, FS_AddElement
<1> QED BY <1>1, <1>2, <1>3, <1>4, <1>5

(* The place of a typeable position among the strokes.                     *)
LEMMA PlaceFacts ==
  ASSUME NEW t, NEW n \in Nat, NEW i \in TypeableUpTo(t, n)
  PROVE  Cardinality(TypeableUpTo(t, i)) \in 1 .. Cardinality(TypeableUpTo(t, n))
<1>1. i \in Nat /\ i >= 1 /\ TypeableUpTo(t, i) \in SUBSET TypeableUpTo(t, n)
      /\ i \in TypeableUpTo(t, i)
  BY DEF TypeableUpTo
<1>2. IsFiniteSet(TypeableUpTo(t, n)) /\ IsFiniteSet(TypeableUpTo(t, i))
      /\ Cardinality(TypeableUpTo(t, n)) \in Nat /\ Cardinality(TypeableUpTo(t, i)) \in Nat
  BY <1>1, TypeableFacts
<1>3. Cardinality(TypeableUpTo(t, i)) <= Cardinality(TypeableUpTo(t, n))
  BY <1>1, <1>2, FS_Subset
<1>4. Cardinality(TypeableUpTo(t, i)) # 0
  BY <1>1, <1>2, FS_EmptySet
<1> QED BY <1>2, <1>3, <1>4

LEMMA SpellsNothing == ASSUME NEW t PROVE Spells(<<>>, t, 0)
<1>1. TypeableUpTo(t, 0) = {}
  BY DEF TypeableUpTo
<1> QED BY <1>1, FS_EmptySet DEF Spells

LEMMA SpellsSkipped ==
  ASSUME NEW t, NEW strokes, NEW n \in Nat, Spells(strokes, t, n), ~Typeable(t[n + 1])
  PROVE  Spells(strokes, t, n + 1)
BY TypeableFacts DEF Spells

LEMMA SpellsStroke ==
  ASSUME NEW t, NEW strokes \in Seq(Strokes), NEW n \in Nat, Spells(strokes, t, n),
         Typeable(t[n + 1]), StrokeOf[t[n + 1]] \in Strokes
  PROVE  Spells(Append(strokes, StrokeOf[t[n + 1]]), t, n + 1)
<1> DEFINE longer == Append(strokes, StrokeOf[t[n + 1]])
<1>1. /\ TypeableUpTo(t, n + 1) = TypeableUpTo(t, n) \cup {n + 1}
      /\ Cardinality(TypeableUpTo(t, n + 1)) = Cardinality(TypeableUpTo(t, n)) + 1
      /\ Len(strokes) = Cardinality(TypeableUpTo(t, n)) /\ Len(strokes) \in Nat
  BY TypeableFacts DEF Spells
<1>2. /\ Len(longer) = Len(strokes) + 1 /\ longer[Len(strokes) + 1] = StrokeOf[t[n + 1]]
      /\ \A k \in 1 .. Len(strokes) : longer[k] = strokes[k]
  OBVIOUS
<1> HIDE DEF longer
<1>3. ASSUME NEW i \in TypeableUpTo(t, n)
      PROVE  longer[Cardinality(TypeableUpTo(t, i))] = StrokeOf[t[i]]
  <2>1. Cardinality(TypeableUpTo(t, i)) \in 1 .. Len(strokes)
    BY <1>1, PlaceFacts
  <2> QED BY <1>2, <2>1 DEF Spells
<1>4. Spells(longer, t, n + 1)
  BY <1>1, <1>2, <1>3 DEF Spells
<1> QED BY <1>4 DEF longer

(* The owner of the keyboard and its text.                                 *)
LEMMA TextOwner ==
  ASSUME IInv, executionMutex # NoCaller, UsedDevice = "keyboard"
  PROVE  /\ executionMutex \in Callers
         /\ request[executionMutex].op = "text"
         /\ request[executionMutex].text \in Seq(Char) /\ text \in Seq(Char)
         /\ typed \in Seq(Strokes)
BY RequestFacts DEF IInv, TypeOK, LocalsOwned, UsedDevice

(* Whatever leaves the call and its place in the loop as they are keeps    *)
(* what is typed.                                                          *)
LEMMA TypedUntouched ==
  ASSUME TypedInv, UNCHANGED <<text, typed, executionMutex>>,
         executionMutex # NoCaller => request'[executionMutex] = request[executionMutex],
         \/ UNCHANGED <<at, stage, report>>
         \/ ~(at = 1 /\ stage = "store") /\ ~(at' = 1 /\ stage' = "store")
  PROVE  TypedInv'
<1>1. executionMutex # NoCaller => UsedDevice' = UsedDevice
  BY DEF UsedDevice
<1>2. CASE UNCHANGED <<at, stage, report>>
  BY <1>1, <1>2 DEF TypedInv
<1>3. CASE ~(at = 1 /\ stage = "store") /\ ~(at' = 1 /\ stage' = "store")
  BY <1>1, <1>3 DEF TypedInv
<1> QED BY <1>2, <1>3

(* The next character of the text.                                         *)
LEMMA NextChar ==
  ASSUME IInv, TypedInv, SkipChar \/ TypeChar
  PROVE  LET full    == request[executionMutex].text
             visited == Len(full) - Len(text)
         IN  /\ UsedDevice = "keyboard" /\ UsedDevice' = "keyboard"
             /\ executionMutex # NoCaller
             /\ full \in Seq(Char) /\ visited \in Nat
             /\ Len(full) - Len(text') = visited + 1
             /\ Head(text) = full[visited + 1] /\ Head(text) \in Char
             /\ \A i \in DOMAIN text' : text'[i] = full[visited + 1 + i]
             /\ Spells(typed, full, visited)
<1>1. /\ executionMutex # NoCaller /\ at = 0 /\ text # <<>> /\ text' = Tail(text)
      /\ UNCHANGED <<request, executionMutex>>
  BY DEF SkipChar, TypeChar, AtLoopHead
<1>2. UsedDevice = "keyboard" /\ UsedDevice' = "keyboard"
  <2>1. UsedDevice = "keyboard"
    BY <1>1, AddressedFacts DEF IInv, LocalsOfPointer, Device
  <2> QED BY <1>1, <2>1 DEF UsedDevice
<1> DEFINE full == request[executionMutex].text
           visited == Len(full) - Len(text)
<1>3. full \in Seq(Char) /\ text \in Seq(Char)
  BY <1>1, <1>2, TextOwner
<1>4. /\ visited >= 0 /\ \A i \in DOMAIN text : text[i] = full[visited + i]
      /\ Spells(typed, full, visited)
  BY <1>1, <1>2 DEF TypedInv
<1>5. Len(full) \in Nat /\ Len(text) \in Nat
  BY <1>3
<1>6. visited \in Nat
  BY <1>4, <1>5
<1>7. /\ Len(text') = Len(text) - 1 /\ Head(text) = text[1] /\ Head(text) \in Char
      /\ 1 \in DOMAIN text /\ DOMAIN text = 1 .. Len(text) /\ DOMAIN text' = 1 .. Len(text')
      /\ \A i \in DOMAIN text' : text'[i] = text[i + 1] /\ i + 1 \in DOMAIN text
  BY <1>1, <1>3
<1> HIDE DEF full
<1>8. \A i \in DOMAIN text' : text'[i] = full[visited + 1 + i]
  <2> SUFFICES ASSUME NEW i \in DOMAIN text' PROVE text'[i] = full[visited + 1 + i]
    OBVIOUS
  <2>1. i \in Int /\ text'[i] = full[visited + (i + 1)]
    BY <1>4, <1>7
  <2>2. visited + (i + 1) = visited + 1 + i
    BY <1>6, <2>1
  <2> QED BY <2>1, <2>2
<1>9. Len(full) - Len(text') = visited + 1 /\ Head(text) = full[visited + 1]
  BY <1>4, <1>5, <1>7
<1> QED BY <1>1, <1>2, <1>3, <1>4, <1>6, <1>7, <1>8, <1>9 DEF full

(* The loop moves on by one character; TypeChar leaves its stroke to Store.*)
LEMMA TypedBySkipChar == ASSUME IInv, TypedInv, SkipChar PROVE TypedInv'
<1> DEFINE full == request[executionMutex].text
           visited == Len(full) - Len(text)
<1>1. /\ at = 0 /\ at' = 0 /\ typed' = typed /\ UNCHANGED <<request, executionMutex>>
      /\ ~Typeable(Head(text))
  BY DEF SkipChar, AtLoopHead
<1>2. /\ visited \in Nat /\ Len(full) - Len(text') = visited + 1
      /\ Head(text) = full[visited + 1]
      /\ \A i \in DOMAIN text' : text'[i] = full[visited + 1 + i]
      /\ Spells(typed, full, visited)
  BY NextChar
<1>3. Spells(typed, full, visited + 1)
  BY <1>1, <1>2, SpellsSkipped
<1>4. request'[executionMutex'].text = full
  BY <1>1
<1> DEFINE next == visited + 1
<1>5. /\ Len(full) - Len(text') = next /\ next >= 0
      /\ \A i \in DOMAIN text' : text'[i] = full[next + i]
      /\ Spells(typed', full, next)
  BY <1>1, <1>2, <1>3
<1> HIDE DEF full, next
<1> QED BY <1>1, <1>4, <1>5 DEF TypedInv

LEMMA TypedByTypeChar == ASSUME IInv, TypedInv, TypeChar PROVE TypedInv'
<1> DEFINE full == request[executionMutex].text
           visited == Len(full) - Len(text)
<1>1. /\ at = 0 /\ at' = 1 /\ typed' = typed /\ UNCHANGED <<request, executionMutex>>
      /\ stage' = "store" /\ Typeable(Head(text)) /\ report'.held = StrokeOf[Head(text)]
  BY DEF TypeChar, AtLoopHead, IInv, LocalsOwned
<1>2. /\ visited \in Nat /\ Len(full) - Len(text') = visited + 1
      /\ Head(text) = full[visited + 1]
      /\ \A i \in DOMAIN text' : text'[i] = full[visited + 1 + i]
      /\ Spells(typed, full, visited)
  BY NextChar
<1>3. request'[executionMutex'].text = full
  BY <1>1
<1>4. visited + 1 >= 0 /\ visited + 1 > 0 /\ visited + 1 - 1 = visited
  BY <1>2
<1>5. Typeable(full[visited + 1]) /\ report'.held = StrokeOf[full[visited + 1]]
  BY <1>1, <1>2
<1> DEFINE next == visited + 1
<1>6. /\ Len(full) - Len(text') = next /\ next >= 0 /\ next > 0
      /\ \A i \in DOMAIN text' : text'[i] = full[next + i]
      /\ Typeable(full[next]) /\ report'.held = StrokeOf[full[next]]
      /\ Spells(typed', full, next - 1)
  BY <1>1, <1>2, <1>4, <1>5
<1> HIDE DEF full, next
<1> QED BY <1>1, <1>3, <1>6 DEF TypedInv

(* The first store of an iteration types the stroke.                       *)
LEMMA TypedByStore == ASSUME IInv, TypedInv, Store PROVE TypedInv'
<1>1. /\ at # 0 /\ stage = "store" /\ stage' = "check"
      /\ UNCHANGED <<request, executionMutex, text, at, report>>
      /\ typed' = IF at = 1 /\ UsedDevice = "keyboard" THEN Append(typed, report.held) ELSE typed
      /\ UsedDevice' = UsedDevice /\ executionMutex # NoCaller
  BY NotifyOwner DEF Store, UsedDevice
<1>2. CASE at # 1 \/ UsedDevice # "keyboard"
  BY <1>1, <1>2 DEF TypedInv
<1>3. CASE at = 1 /\ UsedDevice = "keyboard"
  <2> DEFINE full == request[executionMutex].text
             visited == Len(full) - Len(text)
  <2>1. full \in Seq(Char) /\ text \in Seq(Char) /\ typed \in Seq(Strokes)
    BY <1>1, <1>3, TextOwner
  <2>2. /\ visited > 0 /\ Typeable(full[visited]) /\ report.held = StrokeOf[full[visited]]
        /\ Spells(typed, full, visited - 1)
        /\ \A i \in DOMAIN text : text[i] = full[visited + i]
    BY <1>1, <1>3 DEF TypedInv
  <2>3. report.held \in Strokes
    BY <1>1, <1>3 DEF IInv, LocalsOfText
  <2>4. visited \in Nat /\ visited - 1 \in Nat /\ visited - 1 + 1 = visited
    BY <2>1, <2>2
  <2> HIDE DEF visited
  <2>5. Spells(typed', full, visited)
    <3>1. typed' = Append(typed, StrokeOf[full[visited - 1 + 1]])
      BY <1>1, <1>3, <2>2, <2>4
    <3>2. /\ Typeable(full[visited - 1 + 1])
          /\ StrokeOf[full[visited - 1 + 1]] \in Strokes
      BY <2>2, <2>3, <2>4
    <3>3. Spells(typed', full, visited - 1 + 1)
      BY <2>1, <2>2, <2>4, <3>1, <3>2, SpellsStroke
    <3> QED BY <2>4, <3>3
  <2>6. full' = full /\ visited' = visited
    BY <1>1 DEF visited
  <2> QED BY <1>1, <2>2, <2>4, <2>5, <2>6 DEF TypedInv, visited
<1> QED BY <1>2, <1>3

LEMMA TypedByLock == ASSUME IInv, NEW c \in Callers, Lock(c) PROVE TypedInv'
<1> DEFINE full == request[c].text
<1>1. /\ executionMutex' = c /\ request' = request /\ at' = 0 /\ typed' = <<>>
      /\ request[c] \in Request
      /\ request[c].op = "text" => text' = full
  BY DEF Lock, IInv, LocalsOwned, TypeOK
<1>2. CASE request[c].op # "text"
  BY <1>1, <1>2, RequestFacts DEF TypedInv, UsedDevice
<1>3. CASE request[c].op = "text"
  <2>1. full \in Seq(Char)
    BY <1>1, <1>3, RequestFacts
  <2>2. Len(full) - Len(full) = 0 /\ \A i \in DOMAIN full : full[i] = full[0 + i]
    BY <2>1
  <2>3. Spells(typed', full, 0)
    BY <1>1, SpellsNothing
  <2>4. /\ request'[executionMutex'].text = full /\ text' = full
        /\ ~(at' = 1 /\ stage' = "store")
    BY <1>1, <1>3
  <2>5. Len(full) - Len(full) >= 0
    BY <2>2
  <2> HIDE DEF full
  <2> QED BY <2>2, <2>3, <2>4, <2>5 DEF TypedInv
<1> QED BY <1>2, <1>3

LEMMA TypedNext == ASSUME IInv, TypedInv, [Next]_vars PROVE TypedInv'
<1> USE DEF localVars
<1>1. ASSUME NEW c \in Callers, Call(c) \/ Refuse(c) PROVE TypedInv'
  <2>1. executionMutex # NoCaller => request'[executionMutex] = request[executionMutex]
    BY <1>1 DEF Call, Refuse, IInv, TypeOK, LocalsOwned
  <2> QED BY <1>1, <2>1, TypedUntouched DEF Call, Refuse
<1>2. ASSUME NEW c \in Callers, Lock(c) PROVE TypedInv'
  BY <1>2, TypedByLock
<1>3. CASE StepPointer \/ AdvancePointer \/ PressButton
  <2>1. /\ UsedDevice = "mouse" /\ UNCHANGED <<request, executionMutex>>
    BY <1>3, PointerOwner DEF StepPointer, AdvancePointer, PressButton
  <2> QED BY <2>1 DEF TypedInv, UsedDevice
<1>4. CASE CheckNotifying
  BY <1>4, TypedUntouched DEF CheckNotifying
<1>5. CASE SkipSignal \/ Emit
  <2>1. at' # 1
    <3>1. at \in 1 .. 4
      BY <1>5, NotifyOwner DEF SkipSignal, Emit
    <3> QED BY <1>5, <3>1 DEF SkipSignal, Emit, NextNotification
  <2> QED BY <1>5, <2>1, TypedUntouched DEF SkipSignal, Emit
<1>6. CASE EmitThrows \/ Return
  BY <1>6 DEF EmitThrows, Return, Leave, TypedInv
<1>7. ASSUME NEW ch \in Characteristic, StartNotify(ch) \/ StopNotify(ch) PROVE TypedInv'
  BY <1>7, TypedUntouched DEF StartNotify, StopNotify, SetNotifying
<1>8. CASE UNCHANGED vars
  BY <1>8, TypedUntouched DEF vars
<1> QED
  BY <1>1, <1>2, <1>3, <1>4, <1>5, <1>6, <1>7, <1>8, TypedBySkipChar, TypedByTypeChar,
     TypedByStore
     DEF Next, OwnerStep

(* sendText stores the strokes of its text, of every character it can type *)
(* and of no other, in the order of the text, whatever calls compete.      *)
THEOREM Typed == Spec => []TypedInOrder
<1>1. Init => TypedInv
  BY DEF Init, TypedInv
<1>2. IInv /\ TypedInv /\ [Next]_vars => TypedInv'
  BY TypedNext
<1>3. IInv /\ TypedInv => TypedInOrder
  <2> SUFFICES ASSUME IInv, TypedInv, AtLoopHead, UsedDevice = "keyboard"
               PROVE  LET full    == request[executionMutex].text
                          visited == Len(full) - Len(text)
                      IN  /\ text = SubSeq(full, visited + 1, Len(full))
                          /\ Spells(typed, full, visited)
    BY DEF TypedInOrder
  <2> DEFINE full == request[executionMutex].text
             visited == Len(full) - Len(text)
             rest == SubSeq(full, visited + 1, Len(full))
  <2>1. executionMutex # NoCaller /\ at = 0
    BY DEF AtLoopHead
  <2>2. full \in Seq(Char) /\ text \in Seq(Char)
    BY <2>1, TextOwner
  <2>3. /\ visited >= 0 /\ Spells(typed, full, visited)
        /\ \A i \in DOMAIN text : text[i] = full[visited + i]
    BY <2>1 DEF TypedInv
  <2> HIDE DEF full
  <2>4. Len(full) \in Nat /\ Len(text) \in Nat /\ DOMAIN text = 1 .. Len(text)
    BY <2>2
  <2>5. /\ rest \in Seq(Char) /\ Len(rest) = Len(text)
        /\ \A i \in 1 .. Len(text) : rest[i] = full[visited + i]
    BY <2>2, <2>3, <2>4
  <2>6. text = rest
    BY <2>2, <2>3, <2>4, <2>5, SeqEqual
  <2> QED BY <2>3, <2>6 DEF full
<1> QED BY <1>1, <1>2, <1>3, Inductive, PTL DEF Spec

-----------------------------------------------------------------------------
(* What is left to do.                                                     *)

LEMMA DistanceFacts ==
  ASSUME NEW v \in Vector
  PROVE  Distance(v) \in Nat
<1>1. v["x"] \in Int /\ v["y"] \in Int
  BY VectorFacts DEF Axis
<1> QED BY <1>1 DEF Distance, Abs

(* The parts of WorkLeft are natural numbers.                              *)
LEMMA WorkTypes ==
  ASSUME IInv, executionMutex # NoCaller
  PROVE  /\ Len(text) \in Nat /\ Distance(Minus(delta, step)) \in Nat
         /\ (IF armed = Nothing THEN 0 ELSE 1) \in 0 .. 1
         /\ ItemsLeft \in Nat /\ StagesLeft \in 1 .. 3
         /\ at \in 0 .. 4 /\ LastNotification \in {2, 4}
         /\ at # 0 => at <= LastNotification
         /\ IterationLeft \in 0 .. 13
         /\ WorkLeft \in Nat
<1>1. Len(text) \in Nat
  <2>1. text \in Seq(Char)
    BY DEF IInv, TypeOK
  <2> QED BY <2>1
<1>2. Distance(Minus(delta, step)) \in Nat
  <2>1. Minus(delta, step) \in Vector
    BY VectorFacts DEF IInv, TypeOK
  <2> QED BY <2>1, DistanceFacts
<1>3. ItemsLeft \in Nat
  BY <1>1, <1>2 DEF ItemsLeft
<1>4. at \in 0 .. 4 /\ LastNotification \in {2, 4} /\ (at # 0 => at <= LastNotification)
  <2>1. at # 0 /\ step # Zero => at <= 2
    BY AddressedFacts DEF IInv, LocalsOfText, LocalsOfPointer, Device
  <2> QED BY <2>1 DEF IInv, TypeOK, LastNotification
<1>5. StagesLeft \in 1 .. 3
  BY DEF StagesLeft
<1>6. IterationLeft \in 0 .. 13
  BY <1>4, <1>5 DEF IterationLeft
<1> QED BY <1>1, <1>2, <1>3, <1>4, <1>5, <1>6 DEF WorkLeft

WorkMeasured ==
  executionMutex # NoCaller => ItemsLeft \in Nat /\ IterationLeft \in 0 .. 13

LEMMA WorkAlways == Spec => [](IInv /\ WorkMeasured)
<1>1. IInv => WorkMeasured
  BY WorkTypes DEF WorkMeasured
<1> QED BY <1>1, Inductive, PTL

(* An item less, or the same items and less of the iteration.              *)
LEMMA LessWork ==
  ASSUME WorkMeasured, WorkMeasured',
         executionMutex # NoCaller, executionMutex' = executionMutex,
         \/ ItemsLeft' < ItemsLeft
         \/ ItemsLeft' = ItemsLeft /\ IterationLeft' < IterationLeft
  PROVE  WorkLeft' < WorkLeft
<1>1. ItemsLeft \in Nat /\ IterationLeft \in 0 .. 13
  BY DEF WorkMeasured
<1>2. ItemsLeft' \in Nat /\ IterationLeft' \in 0 .. 13
  BY DEF WorkMeasured
<1>3. WorkLeft = 14 * ItemsLeft + IterationLeft /\ WorkLeft' = 14 * ItemsLeft' + IterationLeft'
  BY DEF WorkLeft
<1> HIDE DEF WorkMeasured
<1>4. \A i, j \in Nat : \A k, l \in 0 .. 13 :
        (i < j \/ (i = j /\ k < l)) => 14 * i + k < 14 * j + l
  OBVIOUS
<1> QED BY <1>1, <1>2, <1>3, <1>4

(* Each loop takes an item off what is left.                               *)
LEMMA TextGetsOn ==
  ASSUME IInv, SkipChar \/ TypeChar PROVE ItemsLeft' < ItemsLeft
<1>1. /\ text # <<>> /\ text' = Tail(text) /\ UNCHANGED <<delta, step, armed>>
      /\ executionMutex # NoCaller
  BY DEF SkipChar, TypeChar, AtLoopHead
<1>2. text \in Seq(Char)
  BY DEF IInv, TypeOK
<1>3. Len(text') = Len(text) - 1 /\ Len(text) \in Nat
  BY <1>1, <1>2
<1>4. Distance(Minus(delta, step))' = Distance(Minus(delta, step))
  BY <1>1
<1> QED BY <1>1, <1>3, <1>4, WorkTypes DEF ItemsLeft

LEMMA PointerGetsOn ==
  ASSUME LimitFits, IInv, StepPointer PROVE ItemsLeft' < ItemsLeft
<1>1. /\ delta # Zero /\ step = Zero /\ UNCHANGED <<text, delta, armed>>
      /\ executionMutex # NoCaller
  BY DEF StepPointer, AtLoopHead
<1>2. PICK sx \in Clamped(delta["x"], Int32(-MaxStep), MaxStep),
           sy \in Clamped(delta["y"], Int32(-MaxStep), MaxStep) :
        step' = [a \in Axis |-> IF a = "x" THEN sx ELSE sy]
  BY DEF StepPointer
<1>3. /\ delta \in Vector /\ "x" \in Axis /\ "y" \in Axis
      /\ delta["x"] \in IntRange /\ delta["y"] \in IntRange
      /\ delta["x"] \in Int /\ delta["y"] \in Int
  BY VectorFacts DEF IInv, TypeOK, Axis
<1>4. delta["x"] # 0 \/ delta["y"] # 0
  <2>1. delta["x"] = 0 /\ delta["y"] = 0 => \A a \in Axis : delta[a] = Zero[a]
    BY VectorFacts DEF Axis
  <2> QED BY <1>1, <1>3, <2>1, VectorFacts
<1>5. /\ Minus(delta, step)["x"] = delta["x"] /\ Minus(delta, step)["y"] = delta["y"]
      /\ Minus(delta', step')["x"] = delta["x"] - sx
      /\ Minus(delta', step')["y"] = delta["y"] - sy
  <2>1. /\ Minus(delta, step)["x"] = Int32(delta["x"] - 0)
        /\ Minus(delta, step)["y"] = Int32(delta["y"] - 0)
    BY <1>1, <1>3, VectorFacts DEF Minus
  <2>2. /\ Minus(delta', step')["x"] = Int32(delta["x"] - sx)
        /\ Minus(delta', step')["y"] = Int32(delta["y"] - sy)
    BY <1>1, <1>2, <1>3 DEF Minus
  <2> QED BY <1>2, <1>3, <2>1, <2>2, ClampFits, Exact
<1>6. /\ Abs(delta["x"] - sx) \in Nat /\ Abs(delta["x"]) \in Nat
      /\ Abs(delta["x"] - sx) <= Abs(delta["x"])
      /\ delta["x"] # 0 => Abs(delta["x"] - sx) < Abs(delta["x"])
  BY <1>2, <1>3, ClampFits
<1>7. /\ Abs(delta["y"] - sy) \in Nat /\ Abs(delta["y"]) \in Nat
      /\ Abs(delta["y"] - sy) <= Abs(delta["y"])
      /\ delta["y"] # 0 => Abs(delta["y"] - sy) < Abs(delta["y"])
  BY <1>2, <1>3, ClampFits
<1>8. /\ Distance(Minus(delta, step)) = Abs(delta["x"]) + Abs(delta["y"])
      /\ Distance(Minus(delta', step')) = Abs(delta["x"] - sx) + Abs(delta["y"] - sy)
  BY <1>5 DEF Distance
<1>9. /\ Distance(Minus(delta', step')) < Distance(Minus(delta, step))
      /\ Distance(Minus(delta', step')) \in Nat /\ Distance(Minus(delta, step)) \in Nat
  BY <1>4, <1>6, <1>7, <1>8
<1>10. Len(text) \in Nat /\ (IF armed = Nothing THEN 0 ELSE 1) \in 0 .. 1
  BY <1>1, WorkTypes
<1> QED BY <1>1, <1>9, <1>10 DEF ItemsLeft

LEMMA ButtonGetsOn ==
  ASSUME IInv, PressButton PROVE ItemsLeft' < ItemsLeft
<1>1. /\ armed # Nothing /\ armed' = Nothing /\ UNCHANGED <<text, delta, step>>
      /\ executionMutex # NoCaller
  BY DEF PressButton, AtLoopHead
<1>2. Distance(Minus(delta, step))' = Distance(Minus(delta, step))
  BY <1>1
<1> QED BY <1>1, <1>2, WorkTypes DEF ItemsLeft

(* The end of an iteration of the pointer loop: the step becomes way made. *)
LEMMA AdvanceGetsOn ==
  ASSUME IInv, AdvancePointer
  PROVE  ItemsLeft' = ItemsLeft /\ IterationLeft' < IterationLeft
<1>1. /\ step # Zero /\ step' = Zero /\ delta' = Minus(delta, step)
      /\ UNCHANGED <<text, armed, at>> /\ at = 0
  BY DEF AdvancePointer, AtLoopHead
<1>2. delta \in Vector /\ step \in Vector
  BY DEF IInv, TypeOK
<1>3. Minus(delta', step') = Minus(delta, step)
  <2>1. Minus(delta, step) \in Vector /\ Minus(delta', step') \in Vector
    BY <1>1, <1>2, VectorFacts
  <2>2. \A a \in Axis : Minus(delta', step')[a] = Minus(delta, step)[a]
    <3> SUFFICES ASSUME NEW a \in Axis PROVE Minus(delta', step')[a] = Minus(delta, step)[a]
      OBVIOUS
    <3>1. Minus(delta, step)[a] \in IntRange /\ Minus(delta, step)[a] \in Int
      BY <2>1, VectorFacts
    <3>2. Minus(delta', step')[a] = Int32(Minus(delta, step)[a] - 0)
      BY <1>1, <1>2, <2>1, VectorFacts
    <3> QED BY <3>1, <3>2, Exact
  <2> QED BY <2>1, <2>2, VectorFacts
<1>4. ItemsLeft' = ItemsLeft
  BY <1>1, <1>3 DEF ItemsLeft
<1> QED BY <1>1, <1>4 DEF IterationLeft

(* The stages of a notification, and the notifications of an iteration.    *)
LEMMA NotificationGetsOn ==
  ASSUME IInv, Store \/ CheckNotifying \/ SkipSignal \/ Emit
  PROVE  ItemsLeft' = ItemsLeft /\ IterationLeft' < IterationLeft
<1>1. /\ at # 0 /\ UNCHANGED <<text, delta, step, armed>>
      /\ LastNotification' = LastNotification
  BY DEF Store, CheckNotifying, SkipSignal, Emit, LastNotification
<1>2. ItemsLeft' = ItemsLeft
  BY <1>1 DEF ItemsLeft
<1>3. executionMutex # NoCaller /\ at \in 1 .. 4
  BY <1>1, NotifyOwner
<1>4. LastNotification \in {2, 4} /\ at <= LastNotification
  BY <1>1, <1>3, WorkTypes
<1>5. CASE Store
  BY <1>1, <1>2, <1>3, <1>4, <1>5 DEF Store, IterationLeft, StagesLeft
<1>6. CASE CheckNotifying
  BY <1>1, <1>2, <1>3, <1>4, <1>6 DEF CheckNotifying, IterationLeft, StagesLeft
<1>7. CASE SkipSignal \/ Emit
  <2>1. /\ stage \in {"check", "emit"} /\ stage' = "store"
        /\ at' = IF at = LastNotification THEN 0 ELSE at + 1
    BY <1>7 DEF SkipSignal, Emit, NextNotification
  <2>2. StagesLeft >= 1 /\ StagesLeft \in Nat /\ StagesLeft' = 3
    BY <2>1 DEF StagesLeft
  <2>3. CASE at = LastNotification
    BY <1>1, <1>2, <1>3, <1>4, <2>1, <2>2, <2>3 DEF IterationLeft
  <2>4. CASE at # LastNotification
    BY <1>1, <1>2, <1>3, <1>4, <2>1, <2>2, <2>4 DEF IterationLeft
  <2> QED BY <2>3, <2>4
<1> QED BY <1>5, <1>6, <1>7

LEMMA CallGetsOn ==
  ASSUME LimitFits, IInv, WorkMeasured', [Next]_vars,
         executionMutex # NoCaller, executionMutex' = executionMutex
  PROVE  /\ WorkLeft \in Nat
         /\ IF localVars' = localVars THEN WorkLeft' = WorkLeft ELSE WorkLeft' < WorkLeft
<1> WorkMeasured
  BY WorkTypes DEF WorkMeasured
<1>1. WorkLeft \in Nat
  BY WorkTypes
<1>2. localVars' = localVars => WorkLeft' = WorkLeft
  BY DEF localVars, WorkLeft, ItemsLeft, IterationLeft, LastNotification, StagesLeft
<1>3. ASSUME localVars' # localVars PROVE WorkLeft' < WorkLeft
  <2>1. CASE SkipChar \/ TypeChar \/ StepPointer \/ PressButton
    BY <2>1, TextGetsOn, PointerGetsOn, ButtonGetsOn, LessWork
  <2>2. CASE AdvancePointer \/ Store \/ CheckNotifying \/ SkipSignal \/ Emit
    BY <2>2, AdvanceGetsOn, NotificationGetsOn, LessWork
  <2>3. CASE EmitThrows \/ Return
    BY <2>3 DEF EmitThrows, Return, Leave
  <2>4. CASE \E c \in Callers : Call(c) \/ Refuse(c) \/ Lock(c)
    BY <1>3, <2>4 DEF Call, Refuse, Lock
  <2>5. CASE \E ch \in Characteristic : StartNotify(ch) \/ StopNotify(ch)
    BY <1>3, <2>5 DEF StartNotify, StopNotify, SetNotifying
  <2>6. CASE UNCHANGED vars
    BY <1>3, <2>6 DEF vars
  <2> QED BY <2>1, <2>2, <2>3, <2>4, <2>5, <2>6 DEF Next, OwnerStep
<1> QED BY <1>1, <1>2, <1>3

(* With a limit int represents, a call that owns the mutex comes nearer    *)
(* its end with each of its steps, and no step of anybody else sets it     *)
(* back: the loops of sendText, movePointerInternal and click end if their *)
(* thread keeps running.                                                   *)
THEOREM GetsOn ==
  ASSUME LimitFits PROVE Spec => CallsGetOn
<1>1. IInv /\ WorkMeasured /\ WorkMeasured' /\ [Next]_vars =>
        [executionMutex # NoCaller /\ executionMutex' = executionMutex =>
           /\ WorkLeft \in Nat
           /\ IF localVars' = localVars THEN WorkLeft' = WorkLeft
              ELSE WorkLeft' < WorkLeft]_vars
  BY CallGetsOn
<1> QED BY <1>1, WorkAlways, PTL DEF Spec, CallsGetOn
=============================================================================
