------------------------------ MODULE HidServer ------------------------------
(***************************************************************************)
(* The execution path of BluetoothHIDServer: sendText, movePointer and     *)
(* click, called by any number of threads and serialised by                *)
(* executionMutex_, write input reports into four GATT characteristics;    *)
(* each write stores value_ under valueMutex_, then reads notifying_, then *)
(* emits a D-Bus PropertiesChanged signal, which may throw.  The D-Bus     *)
(* event thread changes notifying_ between any two of these steps.         *)
(*                                                                         *)
(* The local variables of a call are live only while it owns the mutex,    *)
(* so one copy of them (text .. report) stands for the owner's.  Reports   *)
(* keep what the properties tell apart: what is held down (a keystroke or  *)
(* a mouse button) and the displacement.                                   *)
(***************************************************************************)
EXTENDS MachineInt, Sequences, FiniteSets

CONSTANTS
  Callers,          \* threads that may call the server
  NoCaller,         \* nobody owns executionMutex_
  NoRequest,        \* the caller is not inside a call
  Char,             \* characters of a text
  CR,               \* the character '\r'
  Strokes,          \* keystrokes: usage and modifiers
  Buttons,          \* mouse buttons
  Nothing,          \* no keystroke, no button
  StrokeOf,         \* lookupKeyboardStroke: Nothing for an unsupported character
  Texts, Targets,   \* arguments of the calls
  KeyboardEnabled, MouseEnabled,    \* config_.keyboard.enabled, config_.mouse.enabled
  MouseStepLimit,   \* config_.safety.mouseStepLimit
  MaxCalls,         \* bound: calls made in a behaviour
  MaxFaults         \* bound: signals that throw, per device

(* Model values differ from everything else; loadHIDConfig turns a limit   *)
(* of 0 into 1.                                                            *)
ASSUME ConstantsAssumption ==
  /\ NoCaller \notin Callers
  /\ CR \in Char
  /\ Nothing \notin Strokes \cup Buttons
  /\ StrokeOf \in [Char -> Strokes \cup {Nothing}]
  /\ Texts \subseteq Seq(Char)
  /\ Targets \subseteq Vector
  /\ KeyboardEnabled \in BOOLEAN /\ MouseEnabled \in BOOLEAN
  /\ MouseStepLimit \in UIntRange \ {0}
  /\ MaxCalls \in Nat /\ MaxFaults \in Nat

TextRequest  == [op : {"text"}, text : Texts]
MoveRequest  == [op : {"move"}, target : Targets]
ClickRequest == [op : {"click"}, target : Targets, button : Buttons]
Request == TextRequest \cup MoveRequest \cup ClickRequest

ASSUME NoRequestAssumption == NoRequest \notin Request

Device == {"keyboard", "mouse"}
Characteristic ==
  {"keyboardInput", "bootKeyboardInput", "mouseInput", "bootMouseInput"}
DeviceOf(ch) ==
  IF ch \in {"keyboardInput", "bootKeyboardInput"} THEN "keyboard" ELSE "mouse"
Input(d)     == IF d = "keyboard" THEN "keyboardInput" ELSE "mouseInput"
BootInput(d) == IF d = "keyboard" THEN "bootKeyboardInput" ELSE "bootMouseInput"

Report  == [held : Strokes \cup Buttons \cup {Nothing}, move : [Axis -> ReportRange]]
Release == [held |-> Nothing, move |-> Zero]

\* Mutant of MaxStep: the limit is scaled down to zero.
MaxStepScaled == MouseStepLimit \div 4
MaxStep == StepCap(MouseStepLimit)
(* The displacements a host adds up, beyond every int.                     *)
Sums == [Axis -> Int]
Tally(v, w) == [a \in Axis |-> v[a] + w[a]]

VARIABLES
  request,          \* the call each thread is inside, from its argument check on
  executionMutex,   \* owner of executionMutex_
  text,             \* characters the loop of sendText has still to visit
  delta,            \* dx, dy of movePointerInternal
  step,             \* stepX, stepY of the current iteration, Zero between two
  armed,            \* the button click has still to press
  at,               \* notifyValue call of the iteration (1..4), 0 between two
  stage,            \* position inside updateValue
  report,           \* the report of the current iteration
  lastPointer,      \* lastPointerX_, lastPointerY_
  value, notifying, \* value_ and notifying_ of each characteristic
  heard, moved,     \* last report signalled, and sum of the displacements signalled
  stale, lost,      \* last update not signalled; sum of the displacements suppressed
  typed,            \* strokes the current sendText has stored
  calls, faults     \* calls made; signals that threw, per device

serverVars == <<lastPointer, value, notifying>>
localVars  == <<text, delta, step, armed, at, stage, report>>
hostVars   == <<heard, moved, stale, lost>>
countVars  == <<calls, faults>>
vars == <<request, executionMutex, localVars, serverVars, hostVars, typed, countVars>>

Init ==
  /\ request = [c \in Callers |-> NoRequest]
  /\ executionMutex = NoCaller
  /\ text = <<>> /\ delta = Zero /\ step = Zero /\ armed = Nothing
  /\ at = 0 /\ stage = "store" /\ report = Release
  /\ lastPointer = Zero
  /\ value = [ch \in Characteristic |-> Release]
  /\ notifying = [ch \in Characteristic |-> FALSE]
  /\ heard = [ch \in Characteristic |-> Release]
  /\ moved = [ch \in Characteristic |-> Zero]
  /\ stale = {}
  /\ lost = [ch \in Characteristic |-> Zero]
  /\ typed = <<>>
  /\ calls = 0
  /\ faults = [d \in Device |-> 0]

-----------------------------------------------------------------------------
(* Entering and leaving a call.                                            *)

DeviceUsed(r) == IF r.op = "text" THEN "keyboard" ELSE "mouse"
Enabled(r) == IF r.op = "text" THEN KeyboardEnabled ELSE MouseEnabled

(* sendText, movePointer or click is entered with its device enabled.      *)
Call(c) ==
  /\ request[c] = NoRequest
  /\ calls < MaxCalls
  /\ \E r \in Request : Enabled(r) /\ request' = [request EXCEPT ![c] = r]
  /\ calls' = calls + 1
  /\ UNCHANGED <<executionMutex, localVars, serverVars, hostVars, typed, faults>>

(* The device is disabled: the call throws before it takes the mutex.      *)
Refuse(c) ==
  /\ request[c] = NoRequest
  /\ calls < MaxCalls
  /\ \E r \in Request : ~Enabled(r)
  /\ calls' = calls + 1
  /\ UNCHANGED <<request, executionMutex, localVars, serverVars, hostVars, typed, faults>>

\* Mutant of Lock: the mutex is not waited for.
LockAnyway(c) ==
  /\ request[c] # NoRequest
  /\ executionMutex # c
  /\ executionMutex' = c
  /\ LET r == request[c] IN
       /\ text'  = IF r.op = "text" THEN r.text ELSE <<>>
       /\ delta' = IF r.op = "text" THEN Zero ELSE Minus(r.target, lastPointer)
       /\ armed' = IF r.op = "click" THEN r.button ELSE Nothing
  /\ typed' = <<>>
  /\ UNCHANGED <<request, step, at, stage, report, serverVars, hostVars, countVars>>

Lock(c) ==
  /\ request[c] # NoRequest
  /\ executionMutex = NoCaller
  /\ executionMutex' = c
  /\ LET r == request[c] IN
       /\ text'  = IF r.op = "text" THEN r.text ELSE <<>>
       /\ delta' = IF r.op = "text" THEN Zero ELSE Minus(r.target, lastPointer)
       /\ armed' = IF r.op = "click" THEN r.button ELSE Nothing
  /\ typed' = <<>>
  /\ UNCHANGED <<request, step, at, stage, report, serverVars, hostVars, countVars>>

(* lock_guard releases the mutex; the call's locals die with it.           *)
Leave ==
  /\ request' = [request EXCEPT ![executionMutex] = NoRequest]
  /\ executionMutex' = NoCaller
  /\ text' = <<>> /\ delta' = Zero /\ step' = Zero /\ armed' = Nothing
  /\ at' = 0 /\ stage' = "store" /\ report' = Release

(* The owner is between two iterations of its loop.                        *)
AtLoopHead == executionMutex # NoCaller /\ at = 0

Return ==
  /\ AtLoopHead
  /\ text = <<>> /\ delta = Zero /\ armed = Nothing
  /\ Leave
  /\ UNCHANGED <<serverVars, hostVars, typed, countVars>>

-----------------------------------------------------------------------------
(* The loops of sendText, movePointerInternal and click.                   *)

Typeable(ch) == ch # CR /\ StrokeOf[ch] # Nothing

(* A carriage return or an unsupported character is passed over.           *)
SkipChar ==
  /\ AtLoopHead
  /\ text # <<>> /\ ~Typeable(Head(text))
  /\ text' = Tail(text)
  /\ UNCHANGED <<request, executionMutex, delta, step, armed, at, stage, report,
                 serverVars, hostVars, typed, countVars>>

\* Mutant of TypeChar: the test for '\r' is missing.
TypeCharAndCR ==
  /\ AtLoopHead
  /\ text # <<>> /\ StrokeOf[Head(text)] # Nothing
  /\ text' = Tail(text)
  /\ report' = [held |-> StrokeOf[Head(text)], move |-> Zero]
  /\ at' = 1
  /\ UNCHANGED <<request, executionMutex, delta, step, armed, stage,
                 serverVars, hostVars, typed, countVars>>

TypeChar ==
  /\ AtLoopHead
  /\ text # <<>> /\ Typeable(Head(text))
  /\ text' = Tail(text)
  /\ report' = [held |-> StrokeOf[Head(text)], move |-> Zero]
  /\ at' = 1
  /\ UNCHANGED <<request, executionMutex, delta, step, armed, stage,
                 serverVars, hostVars, typed, countVars>>

\* Mutant of StepPointer: the distance is not clamped.
StepWholeWay ==
  /\ AtLoopHead
  /\ delta # Zero /\ step = Zero
  /\ step' = delta
  /\ report' = [held |-> Nothing, move |-> Carried(step')]
  /\ at' = 1
  /\ UNCHANGED <<request, executionMutex, text, delta, armed, stage,
                 serverVars, hostVars, typed, countVars>>

StepPointer ==
  /\ AtLoopHead
  /\ delta # Zero /\ step = Zero
  /\ \E stepX \in Clamped(delta["x"], Int32(-MaxStep), MaxStep),
        stepY \in Clamped(delta["y"], Int32(-MaxStep), MaxStep) :
       step' = [a \in Axis |-> IF a = "x" THEN stepX ELSE stepY]
  /\ report' = [held |-> Nothing, move |-> Carried(step')]
  /\ at' = 1
  /\ UNCHANGED <<request, executionMutex, text, delta, armed, stage,
                 serverVars, hostVars, typed, countVars>>

\* Mutant of AdvancePointer: the tracker jumps to the target at once.
AdvanceToTarget ==
  /\ AtLoopHead
  /\ step # Zero
  /\ lastPointer' = Plus(lastPointer, delta)
  /\ delta' = Minus(delta, step)
  /\ step' = Zero
  /\ UNCHANGED <<request, executionMutex, text, armed, at, stage, report,
                 value, notifying, hostVars, typed, countVars>>

(* The bookkeeping after both notifications and the sleep.                 *)
AdvancePointer ==
  /\ AtLoopHead
  /\ step # Zero
  /\ lastPointer' = Plus(lastPointer, step)
  /\ delta' = Minus(delta, step)
  /\ step' = Zero
  /\ UNCHANGED <<request, executionMutex, text, armed, at, stage, report,
                 value, notifying, hostVars, typed, countVars>>

\* Mutant of PressButton: it does not wait for the end of the move.
PressButtonEarly ==
  /\ AtLoopHead
  /\ step = Zero /\ armed # Nothing
  /\ report' = [held |-> armed, move |-> Zero]
  /\ armed' = Nothing
  /\ at' = 1
  /\ UNCHANGED <<request, executionMutex, text, delta, step, stage,
                 serverVars, hostVars, typed, countVars>>

(* click has moved the pointer: button down, then up.                      *)
PressButton ==
  /\ AtLoopHead
  /\ delta = Zero /\ armed # Nothing
  /\ report' = [held |-> armed, move |-> Zero]
  /\ armed' = Nothing
  /\ at' = 1
  /\ UNCHANGED <<request, executionMutex, text, delta, step, stage,
                 serverVars, hostVars, typed, countVars>>

-----------------------------------------------------------------------------
(* notifyValue: the report characteristic then the boot one, first with    *)
(* the report; for a stroke or a click then both again with the release.   *)

UsedDevice == DeviceUsed(request[executionMutex])
Addressed == IF at \in {1, 3} THEN Input(UsedDevice) ELSE BootInput(UsedDevice)
\* Mutants of Payload: one of the two characteristics is never released.
PayloadKeepsInput == IF at \in {1, 2, 3} THEN report ELSE Release
PayloadKeepsBoot  == IF at \in {1, 2, 4} THEN report ELSE Release
Payload == IF at \in {1, 2} THEN report ELSE Release
LastNotification == IF step # Zero THEN 2 ELSE 4
NextNotification ==
  /\ at' = IF at = LastNotification THEN 0 ELSE at + 1
  /\ stage' = "store"

Store ==
  /\ at # 0 /\ stage = "store"
  /\ value' = [value EXCEPT ![Addressed] = Payload]
  /\ stage' = "check"
  /\ typed' = IF at = 1 /\ UsedDevice = "keyboard"
              THEN Append(typed, report.held) ELSE typed
  /\ UNCHANGED <<request, executionMutex, text, delta, step, armed, at, report,
                 lastPointer, notifying, hostVars, countVars>>

CheckNotifying ==
  /\ at # 0 /\ stage = "check"
  /\ notifying[Addressed]
  /\ stage' = "emit"
  /\ UNCHANGED <<request, executionMutex, text, delta, step, armed, at, report,
                 serverVars, hostVars, typed, countVars>>

\* Mutant of SkipSignal: the call waits for a host to subscribe.
WaitForHost ==
  /\ at # 0 /\ stage = "check"
  /\ ~notifying[Addressed]
  /\ UNCHANGED vars

SkipSignal ==
  /\ at # 0 /\ stage = "check"
  /\ ~notifying[Addressed]
  /\ stale' = stale \cup {Addressed}
  /\ lost' = [lost EXCEPT ![Addressed] = Tally(@, Payload.move)]
  /\ NextNotification
  /\ UNCHANGED <<request, executionMutex, text, delta, step, armed, report,
                 serverVars, heard, moved, typed, countVars>>

\* Mutant of Emit: the signal carries the report of the press.
EmitPress ==
  /\ at # 0 /\ stage = "emit"
  /\ heard' = [heard EXCEPT ![Addressed] = report]
  /\ moved' = [moved EXCEPT ![Addressed] = Tally(@, Payload.move)]
  /\ stale' = stale \ {Addressed}
  /\ NextNotification
  /\ UNCHANGED <<request, executionMutex, text, delta, step, armed, report,
                 serverVars, lost, typed, countVars>>

Emit ==
  /\ at # 0 /\ stage = "emit"
  /\ heard' = [heard EXCEPT ![Addressed] = Payload]
  /\ moved' = [moved EXCEPT ![Addressed] = Tally(@, Payload.move)]
  /\ stale' = stale \ {Addressed}
  /\ NextNotification
  /\ UNCHANGED <<request, executionMutex, text, delta, step, armed, report,
                 serverVars, lost, typed, countVars>>

(* emitSignal throws: the exception leaves the call at this point.         *)
EmitThrows ==
  /\ at # 0 /\ stage = "emit"
  /\ faults[UsedDevice] < MaxFaults
  /\ faults' = [faults EXCEPT ![UsedDevice] = @ + 1]
  /\ stale' = stale \cup {Addressed}
  /\ Leave
  /\ UNCHANGED <<serverVars, heard, moved, lost, typed, calls>>

-----------------------------------------------------------------------------
(* Method calls of BlueZ, run by the event thread.                         *)

SetNotifying(ch, on) ==
  /\ notifying[ch] # on
  /\ notifying' = [notifying EXCEPT ![ch] = on]
  /\ UNCHANGED <<request, executionMutex, localVars, lastPointer, value,
                 hostVars, typed, countVars>>

StartNotify(ch) == SetNotifying(ch, TRUE)
StopNotify(ch)  == SetNotifying(ch, FALSE)

-----------------------------------------------------------------------------
OwnerStep ==
  \/ SkipChar \/ TypeChar \/ StepPointer \/ AdvancePointer \/ PressButton
  \/ Store \/ CheckNotifying \/ SkipSignal \/ Emit \/ EmitThrows
  \/ Return

Next ==
  \/ \E c \in Callers : Call(c) \/ Refuse(c) \/ Lock(c)
  \/ OwnerStep
  \/ \E ch \in Characteristic : StartNotify(ch) \/ StopNotify(ch)

Spec == Init /\ [][Next]_vars

(* The thread inside a call is scheduled, and a free mutex is granted to   *)
(* somebody who waits for it.  Callers, BlueZ and the bus owe nothing.     *)
Fairness == WF_vars(OwnerStep) /\ WF_vars(\E c \in Callers : Lock(c))
FairSpec == Spec /\ Fairness

-----------------------------------------------------------------------------
(* Properties.                                                             *)

(* The type of every variable.                                             *)
TypeOK ==
  /\ request \in [Callers -> Request \cup {NoRequest}]
  /\ executionMutex \in Callers \cup {NoCaller}
  /\ text \in Seq(Char)
  /\ delta \in Vector /\ step \in Vector
  /\ armed \in Buttons \cup {Nothing}
  /\ at \in 0 .. 4
  /\ stage \in {"store", "check", "emit"}
  /\ report \in Report
  /\ lastPointer \in Vector
  /\ value \in [Characteristic -> Report]
  /\ notifying \in [Characteristic -> BOOLEAN]
  /\ heard \in [Characteristic -> Report]
  /\ moved \in [Characteristic -> Sums]
  /\ stale \in SUBSET Characteristic
  /\ lost \in [Characteristic -> Sums]
  /\ typed \in Seq(Strokes)
  /\ calls \in 0 .. MaxCalls
  /\ faults \in [Device -> 0 .. MaxFaults]

(* Between two iterations of any loop, so also between two calls, nothing  *)
(* is held down on a device none of whose signals has thrown, whichever    *)
(* calls competed for the mutex (the press/release pairs of sendText and   *)
(* click).                                                                 *)
ReleasedBetweenIterations ==
  at = 0 => \A ch \in Characteristic :
              faults[DeviceOf(ch)] = 0 => value[ch].held = Nothing

(* When no call runs, a host whose last notification of a characteristic   *)
(* was not suppressed sees nothing held down, however StartNotify and      *)
(* StopNotify fell between the press and the release.                      *)
HostSeesReleased ==
  executionMutex = NoCaller =>
    \A ch \in Characteristic \ stale :
      faults[DeviceOf(ch)] = 0 => heard[ch].held = Nothing

(* A mouse button is down only with the pointer on the target of the click *)
(* that presses it.                                                        *)
ClickOnTarget ==
  \A ch \in {"mouseInput", "bootMouseInput"} :
    value[ch].held # Nothing /\ faults["mouse"] = 0 =>
      /\ executionMutex # NoCaller
      /\ request[executionMutex].op = "click"
      /\ lastPointer = request[executionMutex].target

(* The displacement notified so far, with or without a subscribed host.    *)
Sent(ch, a) == moved[ch][a] + lost[ch][a]

(* lastPointerX_/Y_ against the displacements a host was sent: the boot    *)
(* characteristic never drifts, whatever wraps on the way; the report      *)
(* characteristic drifts from it by at most one step per signal that threw *)
(* (thrown on the boot notification, after the report one went out and     *)
(* before lastPointer is advanced).                                        *)
PointerTracked ==
  executionMutex = NoCaller =>
    \A a \in Axis :
      /\ Int32(Sent("bootMouseInput", a)) = lastPointer[a]
      /\ Abs(Sent("mouseInput", a) - Sent("bootMouseInput", a))
           <= faults["mouse"] * MaxStep

(* The positions of a text up to n that sendText types, and that strokes   *)
(* are theirs in order: each position has the place among them that the    *)
(* typeable positions up to it count.                                      *)
TypeableUpTo(t, n) == {i \in 1 .. n : Typeable(t[i])}
Spells(strokes, t, n) ==
  /\ Len(strokes) = Cardinality(TypeableUpTo(t, n))
  /\ \A i \in TypeableUpTo(t, n) :
       strokes[Cardinality(TypeableUpTo(t, i))] = StrokeOf[t[i]]

(* sendText stores exactly the strokes of its text, in order: at the loop  *)
(* head it has typed what it has visited, and what it has not visited is   *)
(* the rest of the text, so that nothing is left out at its end.           *)
TypedInOrder ==
  AtLoopHead /\ UsedDevice = "keyboard" =>
    LET full    == request[executionMutex].text
        visited == Len(full) - Len(text)
    IN  /\ text = SubSeq(full, visited + 1, Len(full))
        /\ Spells(typed, full, visited)

(* A disabled device never leaves its initial report.                      *)
DisabledIsSilent ==
  \A ch \in Characteristic :
    (IF DeviceOf(ch) = "keyboard" THEN ~KeyboardEnabled ELSE ~MouseEnabled)
      => value[ch] = Release /\ heard[ch] = Release

KeyboardPromise == INSTANCE HidDevice WITH
  Holds   <- Strokes,
  down    <- value["keyboardInput"].held,
  faulted <- faults["keyboard"] > 0
MousePromise == INSTANCE HidDevice WITH
  Holds   <- Buttons,
  down    <- value["mouseInput"].held,
  faulted <- faults["mouse"] > 0

(* Presses and releases alternate on both report characteristics, whichever *)
(* calls compete for the mutex, until a signal of the device throws.       *)
PressesAlternate == KeyboardPromise!SafeSpec /\ MousePromise!SafeSpec

(* The report characteristics implement HidDevice, its liveness included.  *)
DevicesKeepPromise == KeyboardPromise!Spec /\ MousePromise!Spec

(* A call that owns the mutex leaves it: every loop ends.                  *)
OwnerReturns ==
  \A c \in Callers : executionMutex = c ~> executionMutex # c

(* A press the host was sent is followed by its release, unless a          *)
(* notification of that characteristic is suppressed or a signal of its    *)
(* device, which may be the twin characteristic's, throws.                 *)
PressIsLifted ==
  \A ch \in Characteristic :
    heard[ch].held # Nothing /\ ch \notin stale
      ~> \/ heard[ch].held = Nothing
         \/ ch \in stale
         \/ faults[DeviceOf(ch)] > 0
=============================================================================
