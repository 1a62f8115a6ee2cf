----------------------------- MODULE HidServerInv -----------------------------
(***************************************************************************)
(* The inductive invariant behind the safety properties of HidServer: how  *)
(* the locals of the call that owns executionMutex_ describe what the      *)
(* characteristics hold, what a host was sent, and where the pointer is.   *)
(***************************************************************************)
EXTENDS HidServer

(* The locals belong to the owner of the mutex; without one they are reset *)
LocalsOwned ==
  /\ executionMutex # NoCaller => request[executionMutex] # NoRequest
  /\ executionMutex = NoCaller =>
       at = 0 /\ text = <<>> /\ delta = Zero /\ step = Zero /\ armed = Nothing
  /\ at = 0 => stage = "store"

(* sendText uses no pointer locals, the pointer calls no text.             *)
LocalsOfText ==
  executionMutex # NoCaller /\ UsedDevice = "keyboard" =>
    /\ delta = Zero /\ step = Zero /\ armed = Nothing
    /\ at # 0 => report.held \in Strokes /\ report.move = Zero

(* delta is what is left to the target, a step is a report's worth of it,  *)
(* and a button goes down only once nothing is left.                       *)
LocalsOfPointer ==
  executionMutex # NoCaller /\ UsedDevice = "mouse" =>
    /\ text = <<>>
    /\ \A a \in Axis :
         Int32(lastPointer[a] + delta[a]) = request[executionMutex].target[a]
    /\ armed # Nothing => request[executionMutex].op = "click"
    /\ at # 0 /\ step = Zero =>
         /\ request[executionMutex].op = "click"
         /\ delta = Zero
         /\ report.held \in Buttons /\ report.move = Zero
    /\ step # Zero => at <= 2 /\ delta # Zero
    /\ at # 0 /\ step # Zero => report.held = Nothing /\ report.move = Carried(step)

(* int represents the limit.  Of a larger one it makes a negative bound,   *)
(* and the loop of a move may never end (MoveEnds of PointerMotion).       *)
LimitFits == MouseStepLimit <= IntMax

StepBounded == \A a \in Axis : -MaxStep <= step[a] /\ step[a] <= MaxStep

(* The stretch of an iteration in which a characteristic is held down.     *)
PressedNow(ch) ==
  /\ executionMutex # NoCaller
  /\ DeviceOf(ch) = UsedDevice
  /\ step = Zero
  /\ IF ch = Input(UsedDevice)
     THEN \/ at = 1 /\ stage # "store"
          \/ at = 2
          \/ at = 3 /\ stage = "store"
     ELSE \/ at = 2 /\ stage # "store"
          \/ at = 3
          \/ at = 4 /\ stage = "store"

HeldOnlyWhenPressed ==
  \A ch \in Characteristic :
    faults[DeviceOf(ch)] = 0 /\ value[ch].held # Nothing => PressedNow(ch)

(* Between its store and its signal an update is the stored value.         *)
StoredIsPayload == stage # "store" => value[Addressed] = Payload

(* A host is up to date unless the update is in flight or was not signalled *)
HeardIsValue ==
  \A ch \in Characteristic \ stale :
    (stage # "store" => ch # Addressed) => heard[ch] = value[ch]

(* The displacement a characteristic was sent in the current iteration,    *)
(* before lastPointer is advanced by it.                                   *)
Ahead(ch, a) ==
  IF at = 0 \/ (at = 2 /\ ch = "mouseInput") THEN step[a] ELSE 0

Slack == faults["mouse"] * MaxStep

(* What a characteristic was sent before the current iteration.            *)
Settled(ch, a) == Sent(ch, a) - Ahead(ch, a)

PointerInv ==
  \A a \in Axis :
    /\ Int32(Settled("bootMouseInput", a)) = lastPointer[a]
    /\ Abs(Settled("mouseInput", a) - Settled("bootMouseInput", a)) <= Slack

WithinLimit == LimitFits => StepBounded /\ PointerInv

(* What sendText has typed of its text, in the middle of an iteration too: *)
(* the stroke of the current character is typed by the first store.        *)
TypedInv ==
  executionMutex # NoCaller /\ UsedDevice = "keyboard" =>
    LET full    == request[executionMutex].text
        visited == Len(full) - Len(text)
        fresh   == at = 1 /\ stage = "store"
    IN  /\ visited >= 0
        /\ \A i \in DOMAIN text : text[i] = full[visited + i]
        /\ fresh => /\ visited > 0 /\ Typeable(full[visited])
                    /\ report.held = StrokeOf[full[visited]]
        /\ Spells(typed, full, IF fresh THEN visited - 1 ELSE visited)

IInv ==
  /\ TypeOK
  /\ LocalsOwned /\ LocalsOfText /\ LocalsOfPointer
  /\ HeldOnlyWhenPressed
  /\ StoredIsPayload /\ HeardIsValue
  /\ WithinLimit

-----------------------------------------------------------------------------
(* How much the owner of the mutex has still to do: characters, distance   *)
(* not yet sent, the click, and what is left of the current iteration.     *)
Distance(v) == Abs(v["x"]) + Abs(v["y"])
StagesLeft == CASE stage = "store" -> 3 [] stage = "check" -> 2 [] OTHER -> 1
IterationLeft ==
  IF at = 0 THEN IF step = Zero THEN 0 ELSE 1
  ELSE 3 * (LastNotification - at) + StagesLeft + 1
ItemsLeft ==
  Len(text) + Distance(Minus(delta, step)) + (IF armed = Nothing THEN 0 ELSE 1)
WorkLeft == 14 * ItemsLeft + IterationLeft

(* Every step of a call that goes on leaves it less to do, whatever other  *)
(* threads and BlueZ do meanwhile, so that no call of sendText,            *)
(* movePointer or click runs for ever with the mutex held.                 *)
CallsGetOn ==
  [][executionMutex # NoCaller /\ executionMutex' = executionMutex =>
       /\ WorkLeft \in Nat
       /\ IF localVars' = localVars THEN WorkLeft' = WorkLeft ELSE WorkLeft' < WorkLeft]_vars
=============================================================================
