------------------------------- MODULE HidGatt -------------------------------
(***************************************************************************)
(* The GATT application a host finds: the objects setupApplication builds, *)
(* what BlueZ may read and write of them, and the bytes sendText,          *)
(* movePointer and click put into the four input characteristics.  Every   *)
(* report goes to a report characteristic and then, without its id, to the *)
(* boot characteristic of the same device.  What host and threads do to    *)
(* each other's notifications is HidServer; here are the data.             *)
(***************************************************************************)
EXTENDS HidReports, MachineInt

CONSTANTS
  Chars,            \* characters typed
  Distances,        \* ways left on an axis of a move
  StepLimit,        \* config_.safety.mouseStepLimit
  Manufacturer,     \* config_.device.manufacturer
  MaxRequests       \* bound: requests in a behaviour

(* Characters and displacements are signed bytes, and int represents the   *)
(* limit; of larger ones see PointerMotion.                                *)
ASSUME ReportsAssumption ==
  /\ Chars \subseteq -128 .. 127
  /\ ReportMax = 127
  /\ Distances \subseteq IntRange
  /\ StepLimit \in 1 .. IntMax

-----------------------------------------------------------------------------
(* setupApplication.  A path is the name of the object; the paths it       *)
(* refers to are names of other objects.                                   *)

ReportMode == 1
ReadOnly == {"read"}
Notified == {"read", "notify"}
WriteOnly == {"write-without-response"}

ServiceObject(uuid) ==
  [kind |-> "service", uuid |-> uuid, parent |-> "root", flags |-> {},
   descriptors |-> {}, content |-> <<>>]
CharacteristicObject(service, uuid, flags, initial) ==
  [kind |-> "characteristic", uuid |-> uuid, parent |-> service, flags |-> flags,
   descriptors |-> {}, content |-> initial]
DescriptorObject(characteristic, value) ==
  [kind |-> "descriptor", uuid |-> "reportReference", parent |-> characteristic,
   flags |-> ReadOnly, descriptors |-> {}, content |-> value]
\* Mutant of WithDescriptor: addDescriptor is not called.
WithoutDescriptor(characteristic, descriptor) == characteristic
WithDescriptor(characteristic, descriptor) ==
  [characteristic EXCEPT !.descriptors = @ \cup {descriptor}]

HidCharacteristic(uuid, flags, initial) ==
  CharacteristicObject("hidService", uuid, flags, initial)
InfoCharacteristic(uuid) ==
  CharacteristicObject("deviceInfoService", uuid, ReadOnly, <<>>)
InputReport(initial, descriptor) ==
  WithDescriptor(HidCharacteristic("report", Notified, initial), descriptor)

ManagedObjects == [
  hidService        |-> ServiceObject("hid"),
  hidInformation    |-> HidCharacteristic("hidInformation", ReadOnly, <<17, 1, 0, 2>>),
  reportMap         |-> HidCharacteristic("reportMap", ReadOnly, <<KeyboardFields, MouseFields>>),
  controlPoint      |-> HidCharacteristic("controlPoint", WriteOnly, <<0>>),
  protocolMode      |-> HidCharacteristic("protocolMode", {"read"} \cup WriteOnly, <<ReportMode>>),
  keyboardInput     |-> InputReport(MakeKeyboardReleaseReport, "keyboardReportRef"),
  keyboardReportRef |-> DescriptorObject("keyboardInput", <<1, 1>>),
  mouseInput        |-> InputReport(MakeMouseReport(0, 0, 0, 0), "mouseReportRef"),
  mouseReportRef    |-> DescriptorObject("mouseInput", <<2, 1>>),
  bootKeyboardInput |-> HidCharacteristic("bootKeyboard", Notified, Tail(MakeKeyboardReleaseReport)),
  bootMouseInput    |-> HidCharacteristic("bootMouse", Notified, <<0, 0, 0>>),
  deviceInfoService |-> ServiceObject("deviceInfo"),
  manufacturer      |-> InfoCharacteristic("manufacturerName"),
  pnpId             |-> InfoCharacteristic("pnpId")]

Advertised == {"hid", "deviceInfo"}

Paths == DOMAIN ManagedObjects
Characteristic == {p \in Paths : ManagedObjects[p].kind = "characteristic"}
Writable == {ch \in Characteristic : "write-without-response" \in ManagedObjects[ch].flags}

VARIABLES
  input,              \* what was asked for last
  pending,            \* its boot characteristic is still to be written
  value,              \* value_ of each characteristic
  protocolModeValue,  \* protocolModeValue_
  controlPointValue,  \* controlPointValue_
  found,              \* the objects the host knows, by path
  requests            \* requests made

vars == <<input, pending, value, protocolModeValue, controlPointValue, found, requests>>
inputVars == <<input, pending, value, requests>>
hostVars == <<protocolModeValue, controlPointValue, found>>

NotFound == [p \in {} |-> ManagedObjects["hidService"]]

Init ==
  /\ input = <<"none">> /\ pending = FALSE
  /\ value = [ch \in Characteristic |-> ManagedObjects[ch].content]
  /\ protocolModeValue = ReportMode /\ controlPointValue = 0
  /\ found = NotFound
  /\ requests = 0

(* What ReadValue returns: a read handler takes precedence over value_.    *)
ReadValue(ch) ==
  CASE ch = "manufacturer" -> Manufacturer
    [] ch = "pnpId" -> <<2, 212, 4, 52, 18, 1, 0>>
    [] OTHER -> value[ch]

-----------------------------------------------------------------------------
(* BlueZ and the host, between any two writes of the calling thread.       *)

(* The object as it is now: GattCharacteristic reports value_ itself.       *)
Properties(p) ==
  IF p \in Characteristic THEN [ManagedObjects[p] EXCEPT !.content = value[p]]
  ELSE ManagedObjects[p]

GetManagedObjects ==
  /\ found' = [p \in Paths |-> Properties(p)]
  /\ UNCHANGED <<inputVars, protocolModeValue, controlPointValue>>

Written == {<<>>, <<0>>, <<1>>, <<0, 1>>}
FirstByte(bytes, otherwise) == IF bytes = <<>> THEN otherwise ELSE bytes[1]

(* BlueZ passes on what the flags allow.  The two write handlers keep the  *)
(* first byte in a member of their own; without a handler value_ would be  *)
(* overwritten.                                                            *)
WriteValue(ch, bytes) ==
  /\ protocolModeValue' = IF ch = "protocolMode"
       THEN FirstByte(bytes, protocolModeValue) ELSE protocolModeValue
  /\ controlPointValue' = IF ch = "controlPoint"
       THEN FirstByte(bytes, controlPointValue) ELSE controlPointValue
  /\ value' = IF ch \in {"protocolMode", "controlPoint"}
       THEN value ELSE [value EXCEPT ![ch] = bytes]
  /\ UNCHANGED <<input, pending, found, requests>>

-----------------------------------------------------------------------------
(* The thread inside sendText, movePointer or click: the report            *)
(* characteristic first.                                                   *)

Send(ch, report, what) ==
  /\ ~pending
  /\ value' = [value EXCEPT ![ch] = report]
  /\ input' = what
  /\ pending' = TRUE
  /\ UNCHANGED hostVars

CR == 13

(* A stroke and a button are released before anything else is sent.        *)
Pressed == input[1] \in {"char", "button"}
NextRequest ==
  /\ ~Pressed /\ ~pending
  /\ requests < MaxRequests /\ requests' = requests + 1

TypeChar ==
  /\ NextRequest
  /\ \E ch \in Chars \ {CR} :
       LET stroke == LookupKeyboardStroke(ch)
       IN  /\ stroke # NoStroke
           /\ Send("keyboardInput", MakeKeyboardReport(stroke.modifiers, stroke.usage),
                   <<"char", ch>>)

(* A carriage return and an unsupported character send nothing; the name   *)
(* of no button throws.                                                    *)
SkipChar ==
  /\ NextRequest
  /\ \E ch \in Chars :
       /\ ch = CR \/ LookupKeyboardStroke(ch) = NoStroke
       /\ input' = <<"skipped", ch>>
  /\ UNCHANGED <<pending, value, hostVars>>

RefuseButton ==
  /\ NextRequest
  /\ \E name \in ButtonName :
       /\ MouseButtonFromString(name) = NoButton
       /\ input' = <<"refused", name>>
  /\ UNCHANGED <<pending, value, hostVars>>

\* Mutant of MaxStep: the report's byte does not bound it.
MaxStepUncapped == Int32(StepLimit)
MaxStep == StepCap(StepLimit)

(* One iteration of a move with dx, dy left.                               *)
MovePointer ==
  /\ NextRequest
  /\ \E dx, dy \in Distances :
       /\ dx # 0 \/ dy # 0
       /\ \E stepX \in Clamped(dx, Int32(-MaxStep), MaxStep),
             stepY \in Clamped(dy, Int32(-MaxStep), MaxStep) :
            Send("mouseInput", MakeMouseReport(0, Int8(stepX), Int8(stepY), 0),
                 <<"move", dx, dy>>)

PressButton ==
  /\ NextRequest
  /\ \E name \in ButtonName :
       LET button == MouseButtonFromString(name)
       IN  /\ button # NoButton
           /\ Send("mouseInput", MakeMouseReport(MouseButtonMask(button), 0, 0, 0),
                   <<"button", name>>)

Release ==
  /\ Pressed /\ UNCHANGED requests
  /\ IF input[1] = "char"
     THEN Send("keyboardInput", MakeKeyboardReleaseReport, <<"keyup">>)
     ELSE Send("mouseInput", MakeMouseReport(0, 0, 0, 0), <<"buttonup">>)

\* Mutant of SendBoot: the boot mouse report keeps the id.
SendBootWithId ==
  /\ pending
  /\ value' = IF input[1] \in {"char", "keyup"}
       THEN [value EXCEPT !["bootKeyboardInput"] = Tail(value["keyboardInput"])]
       ELSE [value EXCEPT !["bootMouseInput"] = SubSeq(value["mouseInput"], 1, 3)]
  /\ pending' = FALSE
  /\ UNCHANGED <<input, requests, hostVars>>

(* Then the boot characteristic: the report without its id, and of a mouse *)
(* report without the wheel.                                               *)
SendBoot ==
  /\ pending
  /\ value' = IF input[1] \in {"char", "keyup"}
       THEN [value EXCEPT !["bootKeyboardInput"] = Tail(value["keyboardInput"])]
       ELSE [value EXCEPT !["bootMouseInput"] = SubSeq(value["mouseInput"], 2, 4)]
  /\ pending' = FALSE
  /\ UNCHANGED <<input, requests, hostVars>>

-----------------------------------------------------------------------------
Next ==
  \/ TypeChar \/ SkipChar \/ RefuseButton \/ MovePointer \/ PressButton \/ Release
  \/ SendBoot
  \/ GetManagedObjects
  \/ \E ch \in Writable, bytes \in Written : WriteValue(ch, bytes)

Spec == Init /\ [][Next]_vars

-----------------------------------------------------------------------------
(* Every report has the length its map declares, and every field a value   *)
(* in the declared range, so no host discards it.                          *)
FitsReportMap ==
  \A ch \in {"keyboardInput", "mouseInput"} :
    LET report == value[ch]
        fields == ReportMap(report[1])
    IN  /\ 8 * Len(Tail(report)) = Bits(fields)
        /\ \A i \in 1 .. Len(report) : report[i] \in 0 .. 255
        /\ \A i \in DOMAIN fields :
             \A k \in 1 .. fields[i].count :
               HostReads(report, fields[i].name)[k] \in fields[i].lo .. fields[i].hi

(* A host with a US layout that decodes the report through the report map  *)
(* gets the character that was asked for.  sendText passes over no         *)
(* printable ASCII character, and types none of the bytes of a multi-byte  *)
(* character, which are negative.                                          *)
HostTypesTheChar ==
  /\ input[1] = "char" =>
       LET keys  == HostReads(value["keyboardInput"], "keys")
           shift == HostReads(value["keyboardInput"], "modifiers")[2]
       IN  /\ input[2] \in 0 .. 127
           /\ HostTypes(keys[1], shift) = input[2]
  /\ input[1] = "skipped" => input[2] \notin 32 .. 126

(* A displacement goes the way d there is to go, all of it or as far as    *)
(* the limit or a report allows.                                           *)
GoesTowards(seen, d) ==
  /\ (d >= 0 => seen >= 0) /\ (d <= 0 => seen <= 0)
  /\ Abs(seen) \in {Abs(d), StepLimit, ReportMax}
  /\ Abs(seen) <= Abs(d) /\ Abs(seen) <= StepLimit /\ Abs(seen) <= ReportMax

(* A host that decodes a mouse report sees the button that was named, its  *)
(* case and its alias apart, alone down for a press; of a move it sees     *)
(* each axis go its way, whatever the distance: neither the clamp nor the  *)
(* casts to a signed and then an unsigned byte turn or cut it.             *)
HostSeesTheMouse ==
  /\ input[1] = "move" =>
       LET motion == HostReads(value["mouseInput"], "motion")
       IN  /\ GoesTowards(motion[1], input[2]) /\ GoesTowards(motion[2], input[3])
           /\ motion[3] = 0
  /\ input[1] = "button" =>
       HostReads(value["mouseInput"], "buttons") =
         [i \in 1 .. 3 |->
            IF input[2].lower \in <<{"left"}, {"right"}, {"middle", "mid"}>>[i] THEN 1 ELSE 0]

(* Between two notifications a host in boot protocol sees the same keys,   *)
(* buttons and displacement as one in report protocol.  The server never   *)
(* looks at the protocol mode the host chose: this is why it need not.     *)
BootSeesTheSame ==
  ~pending =>
    LET keyboard == value["bootKeyboardInput"]
        mouse    == value["bootMouseInput"]
    IN  /\ Len(keyboard) = 8 /\ Len(mouse) = 3
        /\ SubSeq(keyboard, 3, 8) = HostReads(value["keyboardInput"], "keys")
        /\ \A i \in 1 .. 8 : (keyboard[1] \div PowerOfTwo[i - 1]) % 2
                             = HostReads(value["keyboardInput"], "modifiers")[i]
        /\ \A i \in 1 .. 3 : (mouse[1] \div PowerOfTwo[i - 1]) % 2
                             = HostReads(value["mouseInput"], "buttons")[i]
        /\ \A i \in 1 .. 2 : mouse[i + 1]
                             = HostReads(value["mouseInput"], "motion")[i] % 256

(* The host finds its way: every advertised service is there; every object *)
(* refers to one that is there and of the right kind; each report id of    *)
(* the map has exactly one report characteristic whose reference names it  *)
(* as an input report, and the reports in it carry that id.                *)
ReportsAreFound ==
  found # NotFound =>
    LET service(p) == found[p].kind = "service"
        refs(p) == {found[d].content : d \in found[p].descriptors}
    IN  /\ \A uuid \in Advertised : \E p \in DOMAIN found : service(p) /\ found[p].uuid = uuid
        /\ \A p \in DOMAIN found :
             /\ found[p].kind = "characteristic" => service(found[p].parent)
             /\ found[p].kind = "descriptor" => p \in found[found[p].parent].descriptors
        /\ \A id \in DOMAIN ReadValue("reportMap") :
             \E p \in DOMAIN found :
               /\ {q \in DOMAIN found : found[q].uuid = "report" /\ <<id, 1>> \in refs(q)} = {p}
               /\ "notify" \in found[p].flags
               /\ ReadValue(p)[1] = id
               /\ ReadValue("reportMap")[id] = ReportMap(id)
=============================================================================
