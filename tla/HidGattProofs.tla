----------------------------- MODULE HidGattProofs -----------------------------
(***************************************************************************)
(* What a host decodes is what was asked for, for every character set,     *)
(* any distance, any limit int represents, any manufacturer and any number *)
(* of requests.  The key table, the report map and the objects are data of *)
(* the program: the lemmas about them go through all of their entries.     *)
(***************************************************************************)
EXTENDS HidGatt, TLAPS

(* The arithmetic of movePointerInternal is proved in PointerMotionProofs. *)
Motion == INSTANCE PointerMotionProofs WITH
  Limits <- {StepLimit}, Points <- IntRange, limit <- StepLimit, moving <- FALSE,
  lastPointer <- Zero, target <- Zero, delta <- Zero, report <- Zero

(* The code the key table gives for a character, and the one a host gives  *)
(* back.                                                                   *)
LEMMA KeyRange ==
  ASSUME NEW k \in Key
  PROVE  k.usage \in 30 .. 56 /\ k.plain \in 33 .. 126 /\ k.shifted \in 33 .. 126
BY DEF Key

LEMMA KeyTypes ==
  ASSUME NEW k \in Key
  PROVE  HostTypes(k.usage, 0) = k.plain /\ HostTypes(k.usage, 1) = k.shifted
BY DEF Key, HostTypes

(* No character is on two forms of a key, or on a key and of one form.     *)
PlainCodes == {39, 45, 59, 61, 91, 92, 93, 96} \cup 44 .. 57
LEMMA OneForm ==
  /\ \A k \in Key : k.plain \in PlainCodes /\ k.shifted \notin PlainCodes
  /\ \A k, l \in Key : k.plain # l.shifted
<1>1. ASSUME NEW k \in Key PROVE k.plain \in PlainCodes /\ k.shifted \notin PlainCodes
  BY DEF Key, PlainCodes
<1> QED BY <1>1

LEMMA ControlRange ==
  ASSUME NEW c \in Control PROVE c[1] \in 0 .. 32 /\ c[2] \in 40 .. 44
BY DEF Control

LEMMA ControlTypes ==
  ASSUME NEW c \in Control, c[1] # CR PROVE HostTypes(c[2], 0) = c[1]
BY DEF Control, HostTypes, CR

(* The usages a report can carry are those the map declares.               *)
Strokes == [usage : 0 .. 101, modifiers : {0, LeftShift}]
Shift(stroke) == IF stroke.modifiers = LeftShift THEN 1 ELSE 0

(* A host makes of the stroke the character it was looked up for.          *)
TypesBack(ch, stroke) ==
  /\ stroke \in Strokes
  /\ stroke # NoStroke /\ ch # CR =>
       ch \in 0 .. 127 /\ HostTypes(stroke.usage, Shift(stroke)) = ch

LEMMA StrokeOfUsage ==
  ASSUME NEW usage \in 0 .. 101, NEW shifted \in BOOLEAN
  PROVE  /\ Stroke(usage, shifted) \in Strokes
         /\ Stroke(usage, shifted).usage = usage
         /\ Shift(Stroke(usage, shifted)) = IF shifted THEN 1 ELSE 0
         /\ Stroke(usage, shifted) = NoStroke => usage = 0
BY DEF Stroke, Strokes, Shift, LeftShift, NoStroke

LEMMA FoundTypesBack ==
  ASSUME NEW ch \in 0 .. 127, NEW usage \in 0 .. 101, NEW shifted \in BOOLEAN,
         HostTypes(usage, IF shifted THEN 1 ELSE 0) = ch
  PROVE  TypesBack(ch, Stroke(usage, shifted))
<1>1. HostTypes(Stroke(usage, shifted).usage, Shift(Stroke(usage, shifted))) = ch
  BY StrokeOfUsage
<1> QED BY <1>1, StrokeOfUsage DEF TypesBack

LEMMA TableFacts ==
  ASSUME NEW ch \in -128 .. 127
  PROVE  TypesBack(ch, LookupFromTable(ch))
<1> DEFINE plain   == {k \in Key : k.plain = ch}
           shifted == {k \in Key : k.shifted = ch}
           control == {c \in Control : c[1] = ch}
<1>1. CASE plain # {}
  <2> DEFINE k == CHOOSE k \in plain : TRUE
  <2>1. shifted = {} /\ control = {}
    BY <1>1, OneForm, KeyRange, ControlRange
  <2>2. k \in Key /\ k.plain = ch
    BY <1>1
  <2>3. LookupFromTable(ch) = Stroke(k.usage, FALSE)
    BY <1>1, <2>1 DEF LookupFromTable
  <2> HIDE DEF k
  <2>4. k.usage \in 0 .. 101 /\ ch \in 0 .. 127
    BY <2>2, KeyRange
  <2>5. HostTypes(k.usage, IF FALSE THEN 1 ELSE 0) = ch
    BY <2>2, KeyTypes
  <2> QED BY <2>3, <2>4, <2>5, FoundTypesBack
<1>2. CASE plain = {} /\ shifted # {}
  <2> DEFINE k == CHOOSE k \in shifted : TRUE
  <2>1. control = {}
    BY <1>2, KeyRange, ControlRange
  <2>2. k \in Key /\ k.shifted = ch
    BY <1>2
  <2>3. LookupFromTable(ch) = Stroke(k.usage, TRUE)
    BY <1>2, <2>1 DEF LookupFromTable
  <2> HIDE DEF k
  <2>4. k.usage \in 0 .. 101 /\ ch \in 0 .. 127
    BY <2>2, KeyRange
  <2>5. HostTypes(k.usage, IF TRUE THEN 1 ELSE 0) = ch
    BY <2>2, KeyTypes
  <2> QED BY <2>3, <2>4, <2>5, FoundTypesBack
<1>3. CASE plain = {} /\ shifted = {} /\ control # {}
  <2> DEFINE c == CHOOSE c \in control : TRUE
  <2>1. LookupFromTable(ch) = Stroke(c[2], FALSE)
    BY <1>3 DEF LookupFromTable
  <2>2. c \in Control /\ c[1] = ch
    BY <1>3
  <2> HIDE DEF c
  <2>3. c[2] \in 0 .. 101 /\ ch \in 0 .. 127
    BY <2>2, ControlRange
  <2>4. ch # CR => HostTypes(c[2], 0) = ch
    BY <2>2, ControlTypes
  <2> QED BY <2>1, <2>3, <2>4, StrokeOfUsage DEF TypesBack
<1>4. CASE plain = {} /\ shifted = {} /\ control = {}
  <2>1. LookupFromTable(ch) = NoStroke
    BY <1>4 DEF LookupFromTable
  <2> QED BY <2>1 DEF NoStroke, Strokes, TypesBack
<1> QED BY <1>1, <1>2, <1>3, <1>4

LEMMA StrokeFacts ==
  ASSUME NEW ch \in -128 .. 127
  PROVE  TypesBack(ch, LookupKeyboardStroke(ch))
<1>1. CASE ch \in 97 .. 122
  BY <1>1 DEF LookupKeyboardStroke, Stroke, Strokes, Shift, LeftShift, HostTypes, TypesBack
<1>2. CASE ch \in 65 .. 90
  BY <1>2 DEF LookupKeyboardStroke, Stroke, Strokes, Shift, LeftShift, HostTypes, TypesBack
<1>3. CASE ch \notin 97 .. 122 /\ ch \notin 65 .. 90
  <2>1. LookupKeyboardStroke(ch) = LookupFromTable(ch)
    BY <1>3 DEF LookupKeyboardStroke
  <2> QED BY <2>1, TableFacts
<1> QED BY <1>1, <1>2, <1>3

(* Every printable character that is no letter is in the table.            *)
LEMMA Covered ==
  ASSUME NEW ch \in 32 .. 126, ch \notin 97 .. 122, ch \notin 65 .. 90
  PROVE  \/ \E k \in Key : k.plain = ch \/ k.shifted = ch
         \/ \E c \in Control : c[1] = ch
<1>1. CASE ch \in 32 .. 47
  BY <1>1 DEF Key, Control
<1>2. CASE ch \in 48 .. 64
  BY <1>2 DEF Key
<1>3. CASE ch \in 91 .. 96 \cup 123 .. 126
  BY <1>3 DEF Key
<1> QED BY <1>1, <1>2, <1>3

LEMMA PrintableTyped ==
  ASSUME NEW ch \in 32 .. 126
  PROVE  LookupKeyboardStroke(ch) # NoStroke
<1>1. CASE ch \in 97 .. 122 \/ ch \in 65 .. 90
  BY <1>1 DEF LookupKeyboardStroke, Stroke, NoStroke, LeftShift
<1>2. CASE ch \notin 97 .. 122 /\ ch \notin 65 .. 90
  <2>1. LookupKeyboardStroke(ch) = LookupFromTable(ch)
    BY <1>2 DEF LookupKeyboardStroke
  <2> DEFINE plain   == {k \in Key : k.plain = ch}
             shifted == {k \in Key : k.shifted = ch}
             control == {c \in Control : c[1] = ch}
  <2>2. plain # {} \/ shifted # {} \/ control # {}
    BY <1>2, Covered
  <2>3. CASE plain # {}
    <3>1. shifted = {} /\ control = {}
      BY <2>3, OneForm, KeyRange, ControlRange
    <3>2. PICK k \in Key : LookupFromTable(ch) = Stroke(k.usage, FALSE)
      BY <2>3, <3>1 DEF LookupFromTable
    <3>3. k.usage \in 0 .. 101 /\ k.usage # 0
      BY KeyRange
    <3>4. Stroke(k.usage, FALSE) # NoStroke
      BY <3>3, StrokeOfUsage
    <3> QED BY <2>1, <3>2, <3>4
  <2>4. CASE shifted # {}
    <3>1. plain = {} /\ control = {}
      BY <2>4, OneForm, KeyRange, ControlRange
    <3>2. PICK k \in Key : LookupFromTable(ch) = Stroke(k.usage, TRUE)
      BY <2>4, <3>1 DEF LookupFromTable
    <3>3. k.usage \in 0 .. 101 /\ k.usage # 0
      BY KeyRange
    <3>4. Stroke(k.usage, TRUE) # NoStroke
      BY <3>3, StrokeOfUsage
    <3> QED BY <2>1, <3>2, <3>4
  <2>5. CASE plain = {} /\ shifted = {} /\ control # {}
    <3>1. PICK c \in Control : LookupFromTable(ch) = Stroke(c[2], FALSE)
      BY <2>5 DEF LookupFromTable
    <3>3. c[2] \in 0 .. 101 /\ c[2] # 0
      BY ControlRange
    <3>4. Stroke(c[2], FALSE) # NoStroke
      BY <3>3, StrokeOfUsage
    <3> QED BY <2>1, <3>1, <3>4
  <2> QED BY <2>2, <2>3, <2>4, <2>5
<1> QED BY <1>1, <1>2

-----------------------------------------------------------------------------
(* What a host reads in the fields of a report.                            *)

(* The offsets of a table of three fields.                                 *)
LEMMA BitsOfThree ==
  ASSUME NEW fields, Len(fields) = 3,
         NEW a \in Nat, NEW b \in Nat, NEW c \in Nat,
         a = fields[1].size * fields[1].count,
         b = fields[2].size * fields[2].count,
         c = fields[3].size * fields[3].count
  PROVE  /\ OffsetOf(fields, 1) = 0 /\ OffsetOf(fields, 2) = a
         /\ OffsetOf(fields, 3) = a + b /\ Bits(fields) = a + b + c
<1> DEFINE IsBits(f) ==
      f = [i \in 0 .. Len(fields) |->
             IF i = 0 THEN 0 ELSE f[i - 1] + fields[i].size * fields[i].count]
<1>1. \E f : IsBits(f)
  <2> DEFINE f == [i \in 0 .. 3 |->
        IF i = 0 THEN 0 ELSE IF i = 1 THEN a ELSE IF i = 2 THEN a + b ELSE a + b + c]
  <2>1. \A i \in 0 .. 3 :
          f[i] = IF i = 0 THEN 0 ELSE f[i - 1] + fields[i].size * fields[i].count
    OBVIOUS
  <2>2. IsBits(f)
    BY <2>1
  <2> QED BY <2>2
<1> DEFINE bits == BitsUpTo(fields)
<1>2. IsBits(bits)
  BY <1>1 DEF BitsUpTo
<1>3. bits[0] = 0 /\ bits[1] = a /\ bits[2] = a + b /\ bits[3] = a + b + c
  <2>1. bits[0] = 0
    BY <1>2
  <2>2. bits[1] = bits[0] + fields[1].size * fields[1].count
    BY <1>2
  <2>3. bits[2] = bits[1] + fields[2].size * fields[2].count
    BY <1>2
  <2>4. bits[3] = bits[2] + fields[3].size * fields[3].count
    BY <1>2
  <2> QED BY <2>1, <2>2, <2>3, <2>4
<1> QED BY <1>3 DEF OffsetOf, Bits

LEMMA KeyboardMap ==
  /\ ReportMap(1) = KeyboardFields /\ DOMAIN KeyboardFields = 1 .. 3
  /\ KeyboardFields[1] = Field("modifiers", 0, 1, 1, 8)
  /\ KeyboardFields[2] = Field("constant", 0, 0, 8, 1)
  /\ KeyboardFields[3] = Field("keys", 0, 101, 8, 6)
  /\ OffsetOf(KeyboardFields, 1) = 0 /\ OffsetOf(KeyboardFields, 2) = 8
  /\ OffsetOf(KeyboardFields, 3) = 16 /\ Bits(KeyboardFields) = 64
<1>1. /\ ReportMap(1) = KeyboardFields /\ DOMAIN KeyboardFields = 1 .. 3
      /\ Len(KeyboardFields) = 3
      /\ KeyboardFields[1] = Field("modifiers", 0, 1, 1, 8)
      /\ KeyboardFields[2] = Field("constant", 0, 0, 8, 1)
      /\ KeyboardFields[3] = Field("keys", 0, 101, 8, 6)
  BY DEF KeyboardFields, ReportMap
<1>2. /\ 8 = KeyboardFields[1].size * KeyboardFields[1].count
      /\ 8 = KeyboardFields[2].size * KeyboardFields[2].count
      /\ 48 = KeyboardFields[3].size * KeyboardFields[3].count
  BY <1>1 DEF Field
<1> QED BY <1>1, <1>2, BitsOfThree

LEMMA MouseMap ==
  /\ ReportMap(2) = MouseFields /\ DOMAIN MouseFields = 1 .. 3
  /\ MouseFields[1] = Field("buttons", 0, 1, 1, 3)
  /\ MouseFields[2] = Field("constant", 0, 0, 5, 1)
  /\ MouseFields[3] = Field("motion", -127, 127, 8, 3)
  /\ OffsetOf(MouseFields, 1) = 0 /\ OffsetOf(MouseFields, 2) = 3
  /\ OffsetOf(MouseFields, 3) = 8 /\ Bits(MouseFields) = 32
<1>1. /\ ReportMap(2) = MouseFields /\ DOMAIN MouseFields = 1 .. 3
      /\ Len(MouseFields) = 3
      /\ MouseFields[1] = Field("buttons", 0, 1, 1, 3)
      /\ MouseFields[2] = Field("constant", 0, 0, 5, 1)
      /\ MouseFields[3] = Field("motion", -127, 127, 8, 3)
  BY DEF MouseFields, ReportMap
<1>2. /\ 3 = MouseFields[1].size * MouseFields[1].count
      /\ 5 = MouseFields[2].size * MouseFields[2].count
      /\ 24 = MouseFields[3].size * MouseFields[3].count
  BY <1>1 DEF Field
<1> QED BY <1>1, <1>2, BitsOfThree

LEMMA Powers ==
  /\ PowerOfTwo[0] = 1 /\ PowerOfTwo[1] = 2 /\ PowerOfTwo[2] = 4 /\ PowerOfTwo[3] = 8
  /\ PowerOfTwo[4] = 16 /\ PowerOfTwo[5] = 32 /\ PowerOfTwo[6] = 64
  /\ PowerOfTwo[7] = 128 /\ PowerOfTwo[8] = 256
BY DEF PowerOfTwo

LEMMA KeyboardReads ==
  ASSUME NEW m \in 0 .. 255, NEW usage \in 0 .. 255
  PROVE  LET report == MakeKeyboardReport(m, usage)
         IN  /\ HostReads(report, "modifiers") =
                  [k \in 1 .. 8 |-> (m \div PowerOfTwo[k - 1]) % 2]
             /\ HostReads(report, "constant") = [k \in 1 .. 1 |-> 0]
             /\ HostReads(report, "keys") = [k \in 1 .. 6 |-> IF k = 1 THEN usage ELSE 0]
<1> DEFINE report == MakeKeyboardReport(m, usage)
           payload == Tail(report)
           F == KeyboardFields
<1>1. report[1] = 1 /\ payload = <<m, 0, usage, 0, 0, 0, 0, 0>>
  BY DEF MakeKeyboardReport
<1>2. F = ReportMap(report[1])
  BY <1>1, KeyboardMap
<1> HIDE DEF report, payload, F
<1>3. /\ F[1].name = "modifiers" /\ F[1].lo = 0 /\ F[1].size = 1 /\ F[1].count = 8
      /\ F[2].name = "constant" /\ F[2].lo = 0 /\ F[2].size = 8 /\ F[2].count = 1
      /\ F[3].name = "keys" /\ F[3].lo = 0 /\ F[3].size = 8 /\ F[3].count = 6
      /\ DOMAIN F = 1 .. 3
  BY KeyboardMap DEF Field, F
<1>4. OffsetOf(F, 1) = 0 /\ OffsetOf(F, 2) = 8 /\ OffsetOf(F, 3) = 16
  BY KeyboardMap DEF F
<1>5. /\ FieldNamed(F, "modifiers") = 1
      /\ FieldNamed(F, "constant") = 2
      /\ FieldNamed(F, "keys") = 3
  BY <1>3 DEF FieldNamed
<1>6. /\ HostReads(report, "modifiers") =
           [k \in 1 .. 8 |-> ReadField(payload, 0 + (k - 1) * 1, F[1])]
      /\ HostReads(report, "constant") =
           [k \in 1 .. 1 |-> ReadField(payload, 8 + (k - 1) * 8, F[2])]
      /\ HostReads(report, "keys") =
           [k \in 1 .. 6 |-> ReadField(payload, 16 + (k - 1) * 8, F[3])]
  <2>1. HostReads(report, "modifiers") =
          [k \in 1 .. 8 |-> ReadField(payload, 0 + (k - 1) * 1, F[1])]
    <3>1. HostReads(report, "modifiers") = ReadFields(payload, 0, F[1])
      BY <1>2, <1>4, <1>5 DEF HostReads, payload
    <3> QED BY <1>3, <3>1 DEF ReadFields
  <2>2. HostReads(report, "constant") =
          [k \in 1 .. 1 |-> ReadField(payload, 8 + (k - 1) * 8, F[2])]
    <3>1. HostReads(report, "constant") = ReadFields(payload, 8, F[2])
      BY <1>2, <1>4, <1>5 DEF HostReads, payload
    <3> QED BY <1>3, <3>1 DEF ReadFields
  <2>3. HostReads(report, "keys") =
          [k \in 1 .. 6 |-> ReadField(payload, 16 + (k - 1) * 8, F[3])]
    <3>1. HostReads(report, "keys") = ReadFields(payload, 16, F[3])
      BY <1>2, <1>4, <1>5 DEF HostReads, payload
    <3> QED BY <1>3, <3>1 DEF ReadFields
  <2> QED BY <2>1, <2>2, <2>3
<1>7. ASSUME NEW k \in 1 .. 8
      PROVE  ReadField(payload, 0 + (k - 1) * 1, F[1]) = (m \div PowerOfTwo[k - 1]) % 2
  <2>1. (0 + (k - 1) * 1) \div 8 = 0 /\ (0 + (k - 1) * 1) % 8 = k - 1
    OBVIOUS
  <2> QED BY <1>1, <1>3, <2>1, Powers DEF ReadField
<1>8. ASSUME NEW k \in 1 .. 1 PROVE ReadField(payload, 8 + (k - 1) * 8, F[2]) = 0
  BY <1>1, <1>3, Powers DEF ReadField
<1>9. ASSUME NEW k \in 1 .. 6
      PROVE  ReadField(payload, 16 + (k - 1) * 8, F[3]) = IF k = 1 THEN usage ELSE 0
  <2> DEFINE byte == IF k = 1 THEN usage ELSE 0
  <2>1. (16 + (k - 1) * 8) \div 8 = k + 1 /\ (16 + (k - 1) * 8) % 8 = 0
    OBVIOUS
  <2>2. payload[(k + 1) + 1] = byte /\ byte \in 0 .. 255
    BY <1>1
  <2> HIDE DEF byte
  <2>3. (byte \div 1) % 256 = byte
    BY <2>2
  <2>4. ReadField(payload, 16 + (k - 1) * 8, F[3]) = byte
    BY <1>3, <2>1, <2>2, <2>3, Powers DEF ReadField
  <2> QED BY <2>4 DEF byte
<1> QED BY <1>6, <1>7, <1>8, <1>9 DEF report

(* A displacement survives the cast to a byte and the sign of the field.   *)
LEMMA SignedByte ==
  ASSUME NEW n \in -127 .. 127
  PROVE  /\ Byte(n) \in 0 .. 255 /\ (Byte(n) \div 1) % 256 = Byte(n)
         /\ Byte(n) >= 128 => Byte(n) - 256 = n
         /\ Byte(n) < 128 => Byte(n) = n
BY DEF Byte

Masks == {0, 1, 2, 4}
Displacements == -127 .. 127

LEMMA MouseReads ==
  ASSUME NEW b \in Masks, NEW dx \in Displacements, NEW dy \in Displacements
  PROVE  LET report == MakeMouseReport(b, dx, dy, 0)
         IN  /\ HostReads(report, "buttons") =
                  [k \in 1 .. 3 |-> (b \div PowerOfTwo[k - 1]) % 2]
             /\ HostReads(report, "constant") = [k \in 1 .. 1 |-> 0]
             /\ HostReads(report, "motion") = <<dx, dy, 0>>
<1> DEFINE report == MakeMouseReport(b, dx, dy, 0)
           payload == Tail(report)
           F == MouseFields
<1>1. report[1] = 2 /\ payload = <<b, Byte(dx), Byte(dy), Byte(0)>>
  BY DEF MakeMouseReport
<1>2. F = ReportMap(report[1])
  BY <1>1, MouseMap
<1> HIDE DEF report, payload, F
<1>3. /\ F[1].name = "buttons" /\ F[1].lo = 0 /\ F[1].size = 1 /\ F[1].count = 3
      /\ F[2].name = "constant" /\ F[2].lo = 0 /\ F[2].size = 5 /\ F[2].count = 1
      /\ F[3].name = "motion" /\ F[3].lo = -127 /\ F[3].size = 8 /\ F[3].count = 3
      /\ DOMAIN F = 1 .. 3
  BY MouseMap DEF Field, F
<1>4. OffsetOf(F, 1) = 0 /\ OffsetOf(F, 2) = 3 /\ OffsetOf(F, 3) = 8
  BY MouseMap DEF F
<1>5. /\ FieldNamed(F, "buttons") = 1
      /\ FieldNamed(F, "constant") = 2
      /\ FieldNamed(F, "motion") = 3
  BY <1>3 DEF FieldNamed
<1>6. /\ HostReads(report, "buttons") =
           [k \in 1 .. 3 |-> ReadField(payload, 0 + (k - 1) * 1, F[1])]
      /\ HostReads(report, "constant") =
           [k \in 1 .. 1 |-> ReadField(payload, 3 + (k - 1) * 5, F[2])]
      /\ HostReads(report, "motion") =
           [k \in 1 .. 3 |-> ReadField(payload, 8 + (k - 1) * 8, F[3])]
  <2>1. HostReads(report, "buttons") =
          [k \in 1 .. 3 |-> ReadField(payload, 0 + (k - 1) * 1, F[1])]
    <3>1. HostReads(report, "buttons") = ReadFields(payload, 0, F[1])
      BY <1>2, <1>4, <1>5 DEF HostReads, payload
    <3> QED BY <1>3, <3>1 DEF ReadFields
  <2>2. HostReads(report, "constant") =
          [k \in 1 .. 1 |-> ReadField(payload, 3 + (k - 1) * 5, F[2])]
    <3>1. HostReads(report, "constant") = ReadFields(payload, 3, F[2])
      BY <1>2, <1>4, <1>5 DEF HostReads, payload
    <3> QED BY <1>3, <3>1 DEF ReadFields
  <2>3. HostReads(report, "motion") =
          [k \in 1 .. 3 |-> ReadField(payload, 8 + (k - 1) * 8, F[3])]
    <3>1. HostReads(report, "motion") = ReadFields(payload, 8, F[3])
      BY <1>2, <1>4, <1>5 DEF HostReads, payload
    <3> QED BY <1>3, <3>1 DEF ReadFields
  <2> QED BY <2>1, <2>2, <2>3
<1>7. ASSUME NEW k \in 1 .. 3
      PROVE  ReadField(payload, 0 + (k - 1) * 1, F[1]) = (b \div PowerOfTwo[k - 1]) % 2
  <2>1. (0 + (k - 1) * 1) \div 8 = 0 /\ (0 + (k - 1) * 1) % 8 = k - 1
    OBVIOUS
  <2> QED BY <1>1, <1>3, <2>1, Powers DEF ReadField
<1>8. ASSUME NEW k \in 1 .. 1 PROVE ReadField(payload, 3 + (k - 1) * 5, F[2]) = 0
  <2>1. payload[1] = b /\ (b \div 8) % 32 = 0
    BY <1>1 DEF Masks
  <2> QED BY <1>3, <2>1, Powers DEF ReadField
<1>9. ASSUME NEW k \in 1 .. 3
      PROVE  ReadField(payload, 8 + (k - 1) * 8, F[3]) = <<dx, dy, 0>>[k]
  <2> DEFINE n == <<dx, dy, 0>>[k]
  <2>1. (8 + (k - 1) * 8) \div 8 = k /\ (8 + (k - 1) * 8) % 8 = 0
    OBVIOUS
  <2>2. payload[k + 1] = Byte(n) /\ n \in -127 .. 127
    BY <1>1 DEF Displacements
  <2> HIDE DEF n
  <2> DEFINE byte == Byte(n)
  <2>3. /\ byte \in 0 .. 255 /\ (byte \div 1) % 256 = byte
        /\ byte >= 128 => byte - 256 = n
        /\ byte < 128 => byte = n
        /\ payload[k + 1] = byte
    BY <2>2, SignedByte
  <2> HIDE DEF byte
  <2>4. ReadField(payload, 8 + (k - 1) * 8, F[3]) = n
    BY <1>3, <2>1, <2>3, Powers DEF ReadField
  <2> QED BY <2>4 DEF n
<1>10. [k \in 1 .. 3 |-> <<dx, dy, 0>>[k]] = <<dx, dy, 0>>
  OBVIOUS
<1> QED BY <1>6, <1>7, <1>8, <1>9, <1>10 DEF report

-----------------------------------------------------------------------------
(* The invariant.                                                          *)

(* The displacement of a report with d left on its axis.                   *)
StepFor(d) == IF d < -MaxStep THEN -MaxStep ELSE IF MaxStep < d THEN MaxStep ELSE d

LEMMA StepFacts ==
  ASSUME NEW d \in Distances
  PROVE  /\ StepFor(d) \in Displacements /\ GoesTowards(StepFor(d), d)
         /\ \A s \in Clamped(d, Int32(-MaxStep), MaxStep) : Int8(s) = StepFor(d)
<1>1. /\ StepLimit \in 1 .. IntMax /\ StepLimit \in Int /\ IntMax \in Nat /\ ReportMax = 127
      /\ d \in IntRange /\ d \in Int
  BY ReportsAssumption, WidthAssumption DEF IntRange
<1>2. /\ {StepLimit} \subseteq Motion!UIntRange \ {0} /\ IntRange \subseteq Motion!IntRange
      /\ StepLimit \in Motion!IntRange /\ d \in Motion!IntRange
  BY <1>1 DEF Motion!UIntRange, Motion!IntRange, IntRange
<1>3. /\ \A n \in Int : Motion!Int32(n) = Int32(n) /\ Motion!Int8(n) = Int8(n)
      /\ Motion!StepCap(StepLimit) = MaxStep
      /\ \A lo, hi \in Int : Motion!Clamped(d, lo, hi) = Clamped(d, lo, hi)
  BY <1>1 DEF Motion!Int32, Int32, Motion!Int8, Int8, Motion!Signed, Signed,
              Motion!StepCap, StepCap, MaxStep, Motion!Clamped, Clamped
<1>4. Motion!Int32(StepLimit) = StepLimit
  BY <1>2, Motion!Exact, WidthAssumption
<1>5. MaxStep = IF StepLimit < 127 THEN StepLimit ELSE 127
  BY <1>1, <1>3, <1>4 DEF MaxStep, StepCap
<1>6. MaxStep \in 1 .. ReportMax /\ MaxStep \in Int /\ MaxStep <= StepLimit
  BY <1>1, <1>5
<1>7. Int32(-MaxStep) = -MaxStep
  BY <1>1, <1>2, <1>3, <1>6, Motion!Bound, WidthAssumption
<1>8. ASSUME NEW s \in Clamped(d, -MaxStep, MaxStep) PROVE Int8(s) = StepFor(d)
  <2>1. s \in Motion!Clamped(d, -MaxStep, MaxStep)
    BY <1>3, <1>6
  <2>2. s = StepFor(d) /\ s \in Int /\ Motion!Int8(s) = s
    BY <1>2, <1>6, <2>1, Motion!ClampedStep, WidthAssumption DEF StepFor
  <2> QED BY <1>3, <2>2
<1>9. StepFor(d) \in Displacements
  BY <1>1, <1>6 DEF StepFor, Displacements
<1>10. GoesTowards(StepFor(d), d)
  <2> DEFINE m == MaxStep
  <2>1. m \in 1 .. 127 /\ (m = StepLimit \/ m = 127) /\ m <= StepLimit /\ m <= 127
    BY <1>1, <1>5
  <2> HIDE DEF m
  <2>2. CASE d < -m
    <3>1. StepFor(d) = -m /\ Abs(-m) = m /\ Abs(d) = -d
      BY <1>1, <2>1, <2>2 DEF StepFor, Abs, m
    <3> QED BY <1>1, <2>1, <2>2, <3>1 DEF GoesTowards
  <2>3. CASE m < d
    <3>1. StepFor(d) = m /\ Abs(m) = m /\ Abs(d) = d
      BY <1>1, <2>1, <2>3 DEF StepFor, Abs, m
    <3> QED BY <1>1, <2>1, <2>3, <3>1 DEF GoesTowards
  <2>4. CASE -m <= d /\ d <= m
    <3>1. StepFor(d) = d
      BY <1>1, <2>1, <2>4 DEF StepFor, m
    <3>2. Abs(d) \in Nat /\ Abs(d) <= m
      BY <1>1, <2>1, <2>4 DEF Abs
    <3> QED BY <1>1, <2>1, <3>1, <3>2 DEF GoesTowards
  <2> QED BY <1>1, <2>1, <2>2, <2>3, <2>4
<1> QED BY <1>7, <1>8, <1>9, <1>10

KeyboardReports == {MakeKeyboardReport(s.modifiers, s.usage) : s \in Strokes}
MouseReports ==
  {MakeMouseReport(b, dx, dy, 0) : b \in Masks, dx \in Displacements, dy \in Displacements}

InputCharacteristic ==
  {"keyboardInput", "mouseInput", "bootKeyboardInput", "bootMouseInput"}

(* The characteristics of this device are written for what was asked last. *)
OfKeyboard == input[1] \in {"char", "keyup"}

(* What is in the report characteristics is a report, and the one written  *)
(* last is the one for what was asked.                                     *)
ReportsInv ==
  /\ value["keyboardInput"] \in KeyboardReports /\ value["mouseInput"] \in MouseReports
  /\ input[1] = "char" =>
       LET stroke == LookupKeyboardStroke(input[2])
       IN  /\ input[2] \in Chars \ {CR} /\ stroke # NoStroke
           /\ value["keyboardInput"] = MakeKeyboardReport(stroke.modifiers, stroke.usage)
  /\ input[1] = "skipped" =>
       input[2] \in Chars /\ (input[2] = CR \/ LookupKeyboardStroke(input[2]) = NoStroke)
  /\ input[1] = "move" =>
       /\ input[2] \in Distances /\ input[3] \in Distances
       /\ value["mouseInput"] = MakeMouseReport(0, StepFor(input[2]), StepFor(input[3]), 0)
  /\ input[1] = "button" =>
       LET button == MouseButtonFromString(input[2])
       IN  /\ input[2] \in ButtonName /\ button # NoButton
           /\ value["mouseInput"] = MakeMouseReport(MouseButtonMask(button), 0, 0, 0)

(* A boot characteristic lags behind only while its write is pending.      *)
BootInv ==
  /\ ~(pending /\ OfKeyboard) =>
       value["bootKeyboardInput"] = Tail(value["keyboardInput"])
  /\ ~(pending /\ ~OfKeyboard) =>
       value["bootMouseInput"] = SubSeq(value["mouseInput"], 2, 4)

(* An object is the one that was built but for the value of a              *)
(* characteristic.                                                         *)
SameObject(object, p) ==
  LET built == ManagedObjects[p]
  IN  /\ object.kind = built.kind /\ object.uuid = built.uuid
      /\ object.parent = built.parent /\ object.flags = built.flags
      /\ object.descriptors = built.descriptors
      /\ p \notin Characteristic => object.content = built.content

(* The other characteristics keep what setupApplication gave them, and a   *)
(* host that knows anything knows what it built.                           *)
ObjectsInv ==
  /\ \A ch \in Characteristic \ InputCharacteristic : value[ch] = ManagedObjects[ch].content
  /\ found # NotFound => /\ DOMAIN found = Paths
                        /\ \A p \in Paths : SameObject(found[p], p)

GattInv ==
  /\ pending \in BOOLEAN /\ DOMAIN value = Characteristic
  /\ ReportsInv /\ BootInv /\ ObjectsInv

-----------------------------------------------------------------------------
(* What the invariant says to a host.                                      *)

LEMMA FitsKeyboard ==
  ASSUME NEW report \in KeyboardReports
  PROVE  LET fields == ReportMap(report[1])
         IN  /\ 8 * Len(Tail(report)) = Bits(fields)
             /\ \A i \in 1 .. Len(report) : report[i] \in 0 .. 255
             /\ \A i \in DOMAIN fields : \A k \in 1 .. fields[i].count :
                  HostReads(report, fields[i].name)[k] \in fields[i].lo .. fields[i].hi
<1>1. PICK s \in Strokes : report = MakeKeyboardReport(s.modifiers, s.usage)
  BY DEF KeyboardReports
<1> DEFINE m == s.modifiers  u == s.usage
<1>2. m \in {0, 2} /\ u \in 0 .. 101
  BY DEF Strokes, LeftShift
<1>3. report = <<1, m, 0, u, 0, 0, 0, 0, 0>>
  BY <1>1 DEF MakeKeyboardReport
<1>4. /\ HostReads(report, "modifiers") = [k \in 1 .. 8 |-> (m \div PowerOfTwo[k - 1]) % 2]
      /\ HostReads(report, "constant") = [k \in 1 .. 1 |-> 0]
      /\ HostReads(report, "keys") = [k \in 1 .. 6 |-> IF k = 1 THEN u ELSE 0]
  <2>1. m \in 0 .. 255 /\ u \in 0 .. 255
    BY <1>2
  <2> HIDE DEF m, u
  <2>2. report = MakeKeyboardReport(m, u)
    BY <1>1 DEF m, u
  <2> QED BY <2>1, <2>2, KeyboardReads
<1> HIDE DEF m, u
<1> DEFINE F == ReportMap(report[1])
<1>5. F = KeyboardFields /\ 8 * Len(Tail(report)) = 64
  BY <1>3, KeyboardMap
<1>6. /\ F[1].name = "modifiers" /\ F[1].lo = 0 /\ F[1].hi = 1 /\ F[1].count = 8
      /\ F[2].name = "constant" /\ F[2].lo = 0 /\ F[2].hi = 0 /\ F[2].count = 1
      /\ F[3].name = "keys" /\ F[3].lo = 0 /\ F[3].hi = 101 /\ F[3].count = 6
      /\ DOMAIN F = 1 .. 3 /\ Bits(F) = 64
  BY <1>5, KeyboardMap DEF Field
<1>7. \A i \in 1 .. Len(report) : report[i] \in 0 .. 255
  BY <1>2, <1>3
<1>8. ASSUME NEW i \in DOMAIN F, NEW k \in 1 .. F[i].count
      PROVE  HostReads(report, F[i].name)[k] \in F[i].lo .. F[i].hi
  <2> HIDE DEF F
  <2>1. CASE i = 1
    <3>1. k \in 1 .. 8 /\ (m \div PowerOfTwo[k - 1]) % 2 \in 0 .. 1
      BY <1>2, <1>6, <2>1, Powers
    <3> QED BY <1>4, <1>6, <2>1, <3>1
  <2>2. CASE i = 2
    BY <1>4, <1>6, <2>2
  <2>3. CASE i = 3
    BY <1>2, <1>4, <1>6, <2>3
  <2> QED BY <1>6, <2>1, <2>2, <2>3
<1> QED BY <1>5, <1>6, <1>7, <1>8

LEMMA FitsMouse ==
  ASSUME NEW report \in MouseReports
  PROVE  LET fields == ReportMap(report[1])
         IN  /\ 8 * Len(Tail(report)) = Bits(fields)
             /\ \A i \in 1 .. Len(report) : report[i] \in 0 .. 255
             /\ \A i \in DOMAIN fields : \A k \in 1 .. fields[i].count :
                  HostReads(report, fields[i].name)[k] \in fields[i].lo .. fields[i].hi
<1>1. PICK b \in Masks, dx \in Displacements, dy \in Displacements :
        report = MakeMouseReport(b, dx, dy, 0)
  BY DEF MouseReports
<1>2. b \in 0 .. 4 /\ dx \in -127 .. 127 /\ dy \in -127 .. 127
  BY DEF Masks, Displacements
<1>3. report = <<2, b, Byte(dx), Byte(dy), Byte(0)>>
  BY <1>1 DEF MakeMouseReport
<1>4. /\ HostReads(report, "buttons") = [k \in 1 .. 3 |-> (b \div PowerOfTwo[k - 1]) % 2]
      /\ HostReads(report, "constant") = [k \in 1 .. 1 |-> 0]
      /\ HostReads(report, "motion") = <<dx, dy, 0>>
  BY <1>1, MouseReads
<1> DEFINE F == ReportMap(report[1])
<1>5. F = MouseFields /\ 8 * Len(Tail(report)) = 32
  BY <1>3, MouseMap
<1>6. /\ F[1].name = "buttons" /\ F[1].lo = 0 /\ F[1].hi = 1 /\ F[1].count = 3
      /\ F[2].name = "constant" /\ F[2].lo = 0 /\ F[2].hi = 0 /\ F[2].count = 1
      /\ F[3].name = "motion" /\ F[3].lo = -127 /\ F[3].hi = 127 /\ F[3].count = 3
      /\ DOMAIN F = 1 .. 3 /\ Bits(F) = 32
  BY <1>5, MouseMap DEF Field
<1>7. \A i \in 1 .. Len(report) : report[i] \in 0 .. 255
  BY <1>2, <1>3 DEF Byte
<1>8. ASSUME NEW i \in DOMAIN F, NEW k \in 1 .. F[i].count
      PROVE  HostReads(report, F[i].name)[k] \in F[i].lo .. F[i].hi
  <2> HIDE DEF F
  <2>1. CASE i = 1
    <3>1. k \in 1 .. 3 /\ (b \div PowerOfTwo[k - 1]) % 2 \in 0 .. 1
      BY <1>2, <1>6, <2>1, Powers
    <3> QED BY <1>4, <1>6, <2>1, <3>1
  <2>2. CASE i = 2
    BY <1>4, <1>6, <2>2
  <2>3. CASE i = 3
    BY <1>2, <1>4, <1>6, <2>3
  <2> QED BY <1>6, <2>1, <2>2, <2>3
<1> QED BY <1>5, <1>6, <1>7, <1>8

LEMMA Fits == GattInv => FitsReportMap
BY FitsKeyboard, FitsMouse DEF GattInv, ReportsInv, FitsReportMap

(* The two fields a keyboard report is read by.                            *)
LEMMA StrokeIsRead ==
  ASSUME NEW stroke \in Strokes
  PROVE  LET report == MakeKeyboardReport(stroke.modifiers, stroke.usage)
         IN  /\ HostReads(report, "keys")[1] = stroke.usage
             /\ HostReads(report, "modifiers")[2] = Shift(stroke)
<1> DEFINE m == stroke.modifiers  u == stroke.usage
<1>1. m \in {0, 2} /\ u \in 0 .. 101
  BY DEF Strokes, LeftShift
<1>2. Shift(stroke) = (m \div 2) % 2
  BY <1>1 DEF Shift, LeftShift
<1> HIDE DEF m, u
<1>3. m \in 0 .. 255 /\ u \in 0 .. 255
  BY <1>1
<1> DEFINE report == MakeKeyboardReport(m, u)
<1>4. /\ HostReads(report, "modifiers") = [k \in 1 .. 8 |-> (m \div PowerOfTwo[k - 1]) % 2]
      /\ HostReads(report, "keys") = [k \in 1 .. 6 |-> IF k = 1 THEN u ELSE 0]
  BY <1>3, KeyboardReads, Zenon
<1> HIDE DEF report
<1>5. HostReads(report, "keys")[1] = u /\ HostReads(report, "modifiers")[2] = (m \div PowerOfTwo[1]) % 2
  BY <1>4
<1> QED BY <1>2, <1>5, Powers DEF m, u, report

LEMMA TypesTheChar == GattInv => HostTypesTheChar
<1>1. ASSUME GattInv, input[1] = "char"
      PROVE  LET keys  == HostReads(value["keyboardInput"], "keys")
                 shift == HostReads(value["keyboardInput"], "modifiers")[2]
             IN  input[2] \in 0 .. 127 /\ HostTypes(keys[1], shift) = input[2]
  <2> DEFINE stroke == LookupKeyboardStroke(input[2])
  <2>1. /\ input[2] \in Chars /\ input[2] # CR /\ stroke # NoStroke
        /\ value["keyboardInput"] = MakeKeyboardReport(stroke.modifiers, stroke.usage)
    BY <1>1 DEF GattInv, ReportsInv
  <2>2. input[2] \in -128 .. 127
    BY <2>1, ReportsAssumption
  <2>3. TypesBack(input[2], stroke)
    BY <2>2, StrokeFacts
  <2> HIDE DEF stroke
  <2>4. stroke \in Strokes
    BY <2>3 DEF TypesBack
  <2>5. input[2] \in 0 .. 127 /\ HostTypes(stroke.usage, Shift(stroke)) = input[2]
    BY <2>1, <2>3 DEF TypesBack
  <2>6. /\ HostReads(value["keyboardInput"], "keys")[1] = stroke.usage
        /\ HostReads(value["keyboardInput"], "modifiers")[2] = Shift(stroke)
    BY <2>1, <2>4, StrokeIsRead
  <2> QED BY <2>5, <2>6
<1>2. ASSUME GattInv, input[1] = "skipped" PROVE input[2] \notin 32 .. 126
  <2>1. input[2] = CR \/ LookupKeyboardStroke(input[2]) = NoStroke
    BY <1>2 DEF GattInv, ReportsInv
  <2> QED BY <2>1, PrintableTyped DEF CR
<1> QED BY <1>1, <1>2 DEF HostTypesTheChar

(* A mask has the bit of its button, alone.                                *)
LEMMA MaskFacts ==
  ASSUME NEW name \in ButtonName, MouseButtonFromString(name) # NoButton
  PROVE  LET b == MouseButtonMask(MouseButtonFromString(name))
         IN  /\ b \in Masks
             /\ b % 2 = IF name.lower = "left" THEN 1 ELSE 0
             /\ (b \div 2) % 2 = IF name.lower = "right" THEN 1 ELSE 0
             /\ (b \div 4) % 2 = IF name.lower \in {"middle", "mid"} THEN 1 ELSE 0
<1>1. name.lower \in {"left", "right", "middle", "mid"}
  BY DEF ButtonName, MouseButtonFromString, NoButton
<1> QED BY <1>1 DEF MouseButtonMask, MouseButtonFromString, Masks

LEMMA SeesTheMouse == GattInv => HostSeesTheMouse
<1>1. ASSUME GattInv, input[1] = "move"
      PROVE  LET motion == HostReads(value["mouseInput"], "motion")
             IN  /\ GoesTowards(motion[1], input[2]) /\ GoesTowards(motion[2], input[3])
                 /\ motion[3] = 0
  <2> DEFINE sx == StepFor(input[2])
             sy == StepFor(input[3])
  <2>1. /\ input[2] \in Distances /\ input[3] \in Distances
        /\ value["mouseInput"] = MakeMouseReport(0, sx, sy, 0)
    BY <1>1 DEF GattInv, ReportsInv
  <2>2. /\ sx \in Displacements /\ sy \in Displacements
        /\ GoesTowards(sx, input[2]) /\ GoesTowards(sy, input[3])
    BY <2>1, StepFacts
  <2>3. 0 \in Masks
    BY DEF Masks
  <2> HIDE DEF sx, sy
  <2>4. HostReads(value["mouseInput"], "motion") = <<sx, sy, 0>>
    BY <2>1, <2>2, <2>3, MouseReads
  <2> QED BY <2>2, <2>4
<1>2. ASSUME GattInv, input[1] = "button"
      PROVE  HostReads(value["mouseInput"], "buttons") =
               [i \in 1 .. 3 |->
                  IF input[2].lower \in <<{"left"}, {"right"}, {"middle", "mid"}>>[i]
                  THEN 1 ELSE 0]
  <2> DEFINE name == input[2]
             b == MouseButtonMask(MouseButtonFromString(name))
  <2>1. /\ name \in ButtonName /\ MouseButtonFromString(name) # NoButton
        /\ value["mouseInput"] = MakeMouseReport(b, 0, 0, 0)
    BY <1>2 DEF GattInv, ReportsInv
  <2>2. /\ b \in Masks
        /\ b % 2 = IF name.lower = "left" THEN 1 ELSE 0
        /\ (b \div 2) % 2 = IF name.lower = "right" THEN 1 ELSE 0
        /\ (b \div 4) % 2 = IF name.lower \in {"middle", "mid"} THEN 1 ELSE 0
    BY <2>1, MaskFacts
  <2> HIDE DEF b, name
  <2>3. 0 \in Displacements /\ b \div 1 = b
    BY <2>2 DEF Displacements, Masks
  <2>4. HostReads(value["mouseInput"], "buttons") =
          [k \in 1 .. 3 |-> (b \div PowerOfTwo[k - 1]) % 2]
    BY <2>1, <2>2, <2>3, MouseReads
  <2>5. ASSUME NEW i \in 1 .. 3
        PROVE  (b \div PowerOfTwo[i - 1]) % 2 =
                 IF name.lower \in <<{"left"}, {"right"}, {"middle", "mid"}>>[i]
                 THEN 1 ELSE 0
    <3>1. CASE i = 1
      BY <2>2, <2>3, <3>1, Powers
    <3>2. CASE i = 2
      BY <2>2, <3>2, Powers
    <3>3. CASE i = 3
      BY <2>2, <3>3, Powers
    <3> QED BY <3>1, <3>2, <3>3
  <2> QED BY <2>4, <2>5 DEF name
<1> QED BY <1>1, <1>2 DEF HostSeesTheMouse

LEMMA BootAgrees == GattInv => BootSeesTheSame
<1> SUFFICES ASSUME GattInv, ~pending PROVE BootSeesTheSame
  BY DEF BootSeesTheSame
<1>1. PICK s \in Strokes : value["keyboardInput"] = MakeKeyboardReport(s.modifiers, s.usage)
  BY DEF GattInv, ReportsInv, KeyboardReports
<1>2. PICK b \in Masks, dx \in Displacements, dy \in Displacements :
        value["mouseInput"] = MakeMouseReport(b, dx, dy, 0)
  BY DEF GattInv, ReportsInv, MouseReports
<1> DEFINE m == s.modifiers  u == s.usage
<1>3. m \in 0 .. 255 /\ u \in 0 .. 255
  BY DEF Strokes, LeftShift
<1>4. /\ value["bootKeyboardInput"] = <<m, 0, u, 0, 0, 0, 0, 0>>
      /\ value["bootMouseInput"] = <<b, Byte(dx), Byte(dy)>>
  BY <1>1, <1>2 DEF GattInv, BootInv, MakeKeyboardReport, MakeMouseReport
<1>5. value["keyboardInput"] = MakeKeyboardReport(m, u)
  BY <1>1
<1> HIDE DEF m, u
<1>6. /\ HostReads(value["keyboardInput"], "modifiers") =
           [k \in 1 .. 8 |-> (m \div PowerOfTwo[k - 1]) % 2]
      /\ HostReads(value["keyboardInput"], "keys") = [k \in 1 .. 6 |-> IF k = 1 THEN u ELSE 0]
  <2> DEFINE report == MakeKeyboardReport(m, u)
  <2>1. /\ HostReads(report, "modifiers") =
             [k \in 1 .. 8 |-> (m \div PowerOfTwo[k - 1]) % 2]
        /\ HostReads(report, "keys") = [k \in 1 .. 6 |-> IF k = 1 THEN u ELSE 0]
    BY <1>3, KeyboardReads, Zenon
  <2> QED BY <1>5, <2>1
<1>7. /\ HostReads(value["mouseInput"], "buttons") =
           [k \in 1 .. 3 |-> (b \div PowerOfTwo[k - 1]) % 2]
      /\ HostReads(value["mouseInput"], "motion") = <<dx, dy, 0>>
  BY <1>2, MouseReads
<1>8. Len(value["bootKeyboardInput"]) = 8 /\ Len(value["bootMouseInput"]) = 3
  BY <1>4
<1>9. SubSeq(value["bootKeyboardInput"], 3, 8) = HostReads(value["keyboardInput"], "keys")
  BY <1>4, <1>6
<1>10. \A i \in 1 .. 8 : (value["bootKeyboardInput"][1] \div PowerOfTwo[i - 1]) % 2
                         = HostReads(value["keyboardInput"], "modifiers")[i]
  BY <1>4, <1>6
<1>11. \A i \in 1 .. 3 : (value["bootMouseInput"][1] \div PowerOfTwo[i - 1]) % 2
                         = HostReads(value["mouseInput"], "buttons")[i]
  BY <1>4, <1>7
<1>12. \A i \in 1 .. 2 : value["bootMouseInput"][i + 1]
                         = HostReads(value["mouseInput"], "motion")[i] % 256
  BY <1>4, <1>7 DEF Byte
<1> QED BY <1>8, <1>9, <1>10, <1>11, <1>12 DEF BootSeesTheSame

-----------------------------------------------------------------------------
(* The objects.                                                            *)

LEMMA ObjectPaths ==
  /\ Paths = {"hidService", "hidInformation", "reportMap", "controlPoint", "protocolMode",
              "keyboardInput", "keyboardReportRef", "mouseInput", "mouseReportRef",
              "bootKeyboardInput", "bootMouseInput", "deviceInfoService", "manufacturer",
              "pnpId"}
  /\ Characteristic =
       {"hidInformation", "reportMap", "controlPoint", "protocolMode", "keyboardInput",
        "mouseInput", "bootKeyboardInput", "bootMouseInput", "manufacturer", "pnpId"}
  /\ Writable = {"controlPoint", "protocolMode"}
  /\ \A ch \in InputCharacteristic : ManagedObjects[ch].flags = Notified
<1>1. Paths = {"hidService", "hidInformation", "reportMap", "controlPoint", "protocolMode",
              "keyboardInput", "keyboardReportRef", "mouseInput", "mouseReportRef",
              "bootKeyboardInput", "bootMouseInput", "deviceInfoService", "manufacturer",
              "pnpId"}
  BY DEF Paths, ManagedObjects
<1>2. Characteristic =
       {"hidInformation", "reportMap", "controlPoint", "protocolMode", "keyboardInput",
        "mouseInput", "bootKeyboardInput", "bootMouseInput", "manufacturer", "pnpId"}
  BY <1>1 DEF Characteristic, ManagedObjects, ServiceObject, HidCharacteristic,
     InfoCharacteristic, InputReport, WithDescriptor, DescriptorObject, CharacteristicObject
<1>3. /\ \A ch \in {"hidInformation", "reportMap", "manufacturer", "pnpId"} :
           ManagedObjects[ch].flags = ReadOnly
      /\ ManagedObjects["controlPoint"].flags = WriteOnly
      /\ ManagedObjects["protocolMode"].flags = {"read"} \cup WriteOnly
      /\ \A ch \in InputCharacteristic : ManagedObjects[ch].flags = Notified
  BY DEF ManagedObjects, HidCharacteristic, InfoCharacteristic, InputReport,
     WithDescriptor, CharacteristicObject, InputCharacteristic
<1>4. Writable = {"controlPoint", "protocolMode"}
  <2>1. /\ "write-without-response" \notin ReadOnly
        /\ "write-without-response" \notin Notified
        /\ "write-without-response" \in WriteOnly
    BY DEF ReadOnly, Notified, WriteOnly
  <2>2. \A ch \in Characteristic :
          "write-without-response" \in ManagedObjects[ch].flags <=>
            ch \in {"controlPoint", "protocolMode"}
    BY <1>2, <1>3, <2>1 DEF InputCharacteristic
  <2> QED BY <1>2, <2>2 DEF Writable
<1> QED BY <1>1, <1>2, <1>3, <1>4

(* What a host that has read all objects finds of each kind.               *)
LEMMA ObjectFacts ==
  /\ \A p \in Paths : ManagedObjects[p].kind = "service" <=>
       p \in {"hidService", "deviceInfoService"}
  /\ ManagedObjects["hidService"].uuid = "hid"
  /\ ManagedObjects["deviceInfoService"].uuid = "deviceInfo"
  /\ \A p \in Characteristic :
       ManagedObjects[p].parent \in {"hidService", "deviceInfoService"}
  /\ \A p \in Paths : ManagedObjects[p].kind = "descriptor" <=>
       p \in {"keyboardReportRef", "mouseReportRef"}
  /\ ManagedObjects["keyboardReportRef"].parent = "keyboardInput"
  /\ ManagedObjects["mouseReportRef"].parent = "mouseInput"
  /\ ManagedObjects["keyboardReportRef"].content = <<1, 1>>
  /\ ManagedObjects["mouseReportRef"].content = <<2, 1>>
  /\ ManagedObjects["keyboardInput"].descriptors = {"keyboardReportRef"}
  /\ ManagedObjects["mouseInput"].descriptors = {"mouseReportRef"}
  /\ \A p \in Paths : ManagedObjects[p].uuid = "report" <=> p \in {"keyboardInput", "mouseInput"}
  /\ ManagedObjects["reportMap"].content = <<KeyboardFields, MouseFields>>
<1>1. /\ \A p \in {"hidService", "deviceInfoService"} : ManagedObjects[p].kind = "service"
      /\ \A p \in {"keyboardReportRef", "mouseReportRef"} :
           ManagedObjects[p].kind = "descriptor" /\ ManagedObjects[p].uuid = "reportReference"
      /\ \A p \in Characteristic : ManagedObjects[p].kind = "characteristic"
  BY DEF Characteristic, ManagedObjects, ServiceObject, DescriptorObject
<1>2. \A p \in Paths : p \in Characteristic \cup
        {"hidService", "deviceInfoService", "keyboardReportRef", "mouseReportRef"}
  BY ObjectPaths
<1>3. /\ ManagedObjects["hidService"].uuid = "hid"
      /\ ManagedObjects["deviceInfoService"].uuid = "deviceInfo"
      /\ ManagedObjects["keyboardReportRef"].parent = "keyboardInput"
      /\ ManagedObjects["mouseReportRef"].parent = "mouseInput"
      /\ ManagedObjects["keyboardReportRef"].content = <<1, 1>>
      /\ ManagedObjects["mouseReportRef"].content = <<2, 1>>
  BY DEF ManagedObjects, ServiceObject, DescriptorObject
<1>4. /\ ManagedObjects["keyboardInput"].descriptors = {"keyboardReportRef"}
      /\ ManagedObjects["mouseInput"].descriptors = {"mouseReportRef"}
  BY DEF ManagedObjects, InputReport, WithDescriptor, HidCharacteristic, CharacteristicObject
<1>5. ManagedObjects["reportMap"].content = <<KeyboardFields, MouseFields>>
  BY DEF ManagedObjects, HidCharacteristic, CharacteristicObject
<1>6. \A p \in Characteristic :
        ManagedObjects[p].parent \in {"hidService", "deviceInfoService"}
  BY ObjectPaths DEF ManagedObjects, InputReport, WithDescriptor, HidCharacteristic,
     InfoCharacteristic, CharacteristicObject
<1>7. \A p \in Characteristic :
        ManagedObjects[p].uuid = "report" <=> p \in {"keyboardInput", "mouseInput"}
  BY ObjectPaths DEF ManagedObjects, InputReport, WithDescriptor, HidCharacteristic,
     InfoCharacteristic, CharacteristicObject
<1>8. \A p \in Paths :
        ManagedObjects[p].uuid = "report" <=> p \in {"keyboardInput", "mouseInput"}
  BY <1>1, <1>2, <1>3, <1>7, ObjectPaths
<1> QED BY <1>1, <1>2, <1>3, <1>4, <1>5, <1>6, <1>8, ObjectPaths

LEMMA MapValues ==
  ASSUME GattInv
  PROVE  LET map == ReadValue("reportMap")
         IN  DOMAIN map = {1, 2} /\ map[1] = ReportMap(1) /\ map[2] = ReportMap(2)
<1>1. value["reportMap"] = <<KeyboardFields, MouseFields>>
  BY ObjectPaths, ObjectFacts DEF GattInv, ObjectsInv, InputCharacteristic
<1> QED BY <1>1, KeyboardMap, MouseMap DEF ReadValue

LEMMA ReportIds ==
  ASSUME GattInv
  PROVE  ReadValue("keyboardInput")[1] = 1 /\ ReadValue("mouseInput")[1] = 2
<1>1. value["keyboardInput"][1] = 1
  BY DEF GattInv, ReportsInv, KeyboardReports, MakeKeyboardReport
<1>2. value["mouseInput"][1] = 2
  BY DEF GattInv, ReportsInv, MouseReports, MakeMouseReport
<1> QED BY <1>1, <1>2 DEF ReadValue

LEMMA AreFound == GattInv => ReportsAreFound
<1> SUFFICES ASSUME GattInv, found # NotFound PROVE ReportsAreFound
  BY DEF ReportsAreFound
<1> DEFINE service(p) == found[p].kind = "service"
           refs(p) == {found[d].content : d \in found[p].descriptors}
           reports(id) == {q \in DOMAIN found : found[q].uuid = "report" /\ <<id, 1>> \in refs(q)}
<1>1. /\ DOMAIN found = Paths
      /\ \A p \in Paths : /\ found[p].kind = ManagedObjects[p].kind
                           /\ found[p].uuid = ManagedObjects[p].uuid
                           /\ found[p].parent = ManagedObjects[p].parent
                           /\ found[p].flags = ManagedObjects[p].flags
                           /\ found[p].descriptors = ManagedObjects[p].descriptors
  BY DEF GattInv, ObjectsInv, SameObject
<1>2. ASSUME NEW uuid \in Advertised
      PROVE  \E p \in DOMAIN found : service(p) /\ found[p].uuid = uuid
  <2>1. "hidService" \in Paths /\ "deviceInfoService" \in Paths
    BY ObjectPaths
  <2> QED BY <1>1, <2>1, ObjectFacts DEF Advertised
<1>3. ASSUME NEW p \in DOMAIN found
      PROVE  /\ found[p].kind = "characteristic" => service(found[p].parent)
             /\ found[p].kind = "descriptor" => p \in found[found[p].parent].descriptors
  <2>1. found[p].kind = "characteristic" => p \in Characteristic
    BY <1>1 DEF Characteristic
  <2>2. {"hidService", "deviceInfoService", "keyboardInput", "mouseInput"} \subseteq Paths
    BY ObjectPaths
  <2>3. found[p].kind = "characteristic" => service(found[p].parent)
    BY <1>1, <2>1, <2>2, ObjectFacts
  <2>4. ASSUME found[p].kind = "descriptor" PROVE p \in found[found[p].parent].descriptors
    <3>1. p \in {"keyboardReportRef", "mouseReportRef"}
      BY <1>1, <2>4, ObjectFacts
    <3>2. /\ p = "keyboardReportRef" => found[p].parent = "keyboardInput"
          /\ p = "mouseReportRef" => found[p].parent = "mouseInput"
      BY <1>1, ObjectFacts
    <3>3. /\ found["keyboardInput"].descriptors = {"keyboardReportRef"}
          /\ found["mouseInput"].descriptors = {"mouseReportRef"}
      BY <1>1, <2>2, ObjectFacts
    <3> QED BY <3>1, <3>2, <3>3
  <2> QED BY <2>3, <2>4
<1>4. /\ refs("keyboardInput") = {<<1, 1>>} /\ refs("mouseInput") = {<<2, 1>>}
  <2>1. /\ found["keyboardInput"].descriptors = {"keyboardReportRef"}
        /\ found["mouseInput"].descriptors = {"mouseReportRef"}
        /\ found["keyboardReportRef"].content = <<1, 1>>
        /\ found["mouseReportRef"].content = <<2, 1>>
    <3>1. {"keyboardInput", "mouseInput"} \subseteq Paths
      BY ObjectPaths
    <3>2. {"keyboardReportRef", "mouseReportRef"} \subseteq Paths \ Characteristic
      BY ObjectPaths
    <3>3. \A p \in Paths \ Characteristic : found[p].content = ManagedObjects[p].content
      BY DEF GattInv, ObjectsInv, SameObject
    <3> QED BY <1>1, <3>1, <3>2, <3>3, ObjectFacts
  <2> QED BY <2>1, Zenon
<1>5. <<1, 1>> # <<2, 1>>
  OBVIOUS
<1>6. "keyboardInput" \in Paths /\ "mouseInput" \in Paths
  BY ObjectPaths
<1>7. reports(1) = {"keyboardInput"} /\ reports(2) = {"mouseInput"}
  <2>1. \A q \in DOMAIN found :
          found[q].uuid = "report" <=> q \in {"keyboardInput", "mouseInput"}
    BY <1>1, ObjectFacts
  <2> HIDE DEF refs
  <2> QED BY <1>1, <1>4, <1>5, <1>6, <2>1
<1>8. "notify" \in found["keyboardInput"].flags /\ "notify" \in found["mouseInput"].flags
  BY <1>1, <1>6, ObjectPaths DEF InputCharacteristic, Notified
<1>9. ASSUME NEW id \in DOMAIN ReadValue("reportMap")
      PROVE  \E p \in DOMAIN found :
               /\ reports(id) = {p} /\ "notify" \in found[p].flags /\ ReadValue(p)[1] = id
               /\ ReadValue("reportMap")[id] = ReportMap(id)
  <2> HIDE DEF reports
  <2>1. CASE id = 1
    BY <1>1, <1>6, <1>7, <1>8, <2>1, MapValues, ReportIds
  <2>2. CASE id = 2
    BY <1>1, <1>6, <1>7, <1>8, <2>2, MapValues, ReportIds
  <2> QED BY <2>1, <2>2, MapValues
<1> QED BY <1>2, <1>3, <1>9 DEF ReportsAreFound

-----------------------------------------------------------------------------
(* The invariant holds.                                                    *)

LEMMA ReleaseFacts ==
  /\ MakeKeyboardReleaseReport = MakeKeyboardReport(0, 0)
  /\ MakeKeyboardReleaseReport \in KeyboardReports
  /\ MakeMouseReport(0, 0, 0, 0) \in MouseReports
<1>1. MakeKeyboardReleaseReport = MakeKeyboardReport(0, 0)
  BY DEF MakeKeyboardReleaseReport, MakeKeyboardReport
<1>2. NoStroke \in Strokes /\ NoStroke.modifiers = 0 /\ NoStroke.usage = 0
  BY DEF NoStroke, Strokes
<1>3. MakeKeyboardReport(0, 0) \in KeyboardReports
  BY <1>2 DEF KeyboardReports
<1>4. MakeMouseReport(0, 0, 0, 0) \in MouseReports
  <2>1. 0 \in Masks /\ 0 \in Displacements
    BY DEF Masks, Displacements
  <2> QED BY <2>1 DEF MouseReports
<1> QED BY <1>1, <1>3, <1>4

(* A mouse report without its id and its wheel.                            *)
LEMMA WithoutId ==
  ASSUME NEW report, NEW id \in Int, NEW b \in Int, NEW dx \in Int, NEW dy \in Int,
         NEW wheel \in Int,
         report = <<id, b, dx, dy, wheel>>
  PROVE  SubSeq(report, 2, 4) = <<b, dx, dy>>
<1>1. Len(report) = 5
  OBVIOUS
<1>2. report[2] = b /\ report[3] = dx /\ report[4] = dy
  OBVIOUS
<1>3. report \in Seq(Int)
  OBVIOUS
<1>4. Len(SubSeq(report, 2, 4)) = 3 /\ SubSeq(report, 2, 4) \in Seq(Int)
  BY <1>1, <1>3
<1>5. \A i \in 1 .. 3 : SubSeq(report, 2, 4)[i] = report[i + 1]
  BY <1>1, <1>3
<1> DEFINE payload == SubSeq(report, 2, 4)
<1>6. payload[1] = b /\ payload[2] = dx /\ payload[3] = dy
  BY <1>2, <1>5
<1>7. Len(payload) = 3 /\ payload \in Seq(Int)
  BY <1>4
<1> HIDE DEF payload
<1>8. payload = [i \in 1 .. 3 |-> payload[i]]
  BY <1>7
<1>9. <<b, dx, dy>> = [i \in 1 .. 3 |-> <<b, dx, dy>>[i]]
  OBVIOUS
<1>10. \A i \in 1 .. 3 : payload[i] = <<b, dx, dy>>[i]
  BY <1>6
<1>11. payload = <<b, dx, dy>>
  BY <1>10, <1>8, <1>9
<1> QED BY <1>11 DEF payload

(* The values setupApplication starts with are the reports of a release.   *)
LEMMA InitGatt == Init => GattInv
<1> SUFFICES ASSUME Init PROVE GattInv
  OBVIOUS
<1>1. /\ \A ch \in Characteristic : value[ch] = ManagedObjects[ch].content
      /\ DOMAIN value = Characteristic /\ input = <<"none">> /\ pending = FALSE
      /\ found = NotFound
  BY DEF Init
<1>2. /\ ManagedObjects["keyboardInput"].content = MakeKeyboardReleaseReport
      /\ ManagedObjects["mouseInput"].content = MakeMouseReport(0, 0, 0, 0)
      /\ ManagedObjects["bootKeyboardInput"].content = Tail(MakeKeyboardReleaseReport)
      /\ ManagedObjects["bootMouseInput"].content = <<0, 0, 0>>
  BY DEF ManagedObjects, InputReport, WithDescriptor, HidCharacteristic, CharacteristicObject
<1>3. /\ value["keyboardInput"] = MakeKeyboardReleaseReport
      /\ value["mouseInput"] = MakeMouseReport(0, 0, 0, 0)
      /\ value["bootKeyboardInput"] = Tail(MakeKeyboardReleaseReport)
      /\ value["bootMouseInput"] = <<0, 0, 0>>
  BY <1>1, <1>2, ObjectPaths
<1>4. SubSeq(MakeMouseReport(0, 0, 0, 0), 2, 4) = <<0, 0, 0>>
  <2>1. Byte(0) = 0
    BY DEF Byte
  <2>2. MakeMouseReport(0, 0, 0, 0) = <<2, 0, 0, 0, 0>>
    BY <2>1 DEF MakeMouseReport
  <2> QED BY <2>2, WithoutId
<1>5. input[1] = "none"
  BY <1>1
<1>6. ReportsInv
  BY <1>3, <1>5, ReleaseFacts DEF ReportsInv
<1>7. BootInv
  BY <1>3, <1>4 DEF BootInv
<1>8. ObjectsInv
  BY <1>1 DEF ObjectsInv
<1> QED BY <1>1, <1>6, <1>7, <1>8 DEF GattInv

(* The first half of a notification, of one device.                        *)
LEMMA KeyboardSent ==
  ASSUME GattInv, NEW report \in KeyboardReports, NEW what,
         Send("keyboardInput", report, what),
         \/ what = <<"keyup">>
         \/ \E ch \in Chars \ {CR} :
              /\ what = <<"char", ch>>
              /\ LookupKeyboardStroke(ch) # NoStroke
              /\ report = MakeKeyboardReport(LookupKeyboardStroke(ch).modifiers,
                                             LookupKeyboardStroke(ch).usage)
  PROVE  GattInv'
<1>1. /\ value' = [value EXCEPT !["keyboardInput"] = report]
      /\ input' = what /\ pending = FALSE /\ pending' = TRUE /\ found' = found
  BY DEF Send, GattInv, hostVars
<1>2. DOMAIN value = Characteristic /\ "keyboardInput" \in Characteristic
  BY ObjectPaths DEF GattInv
<1>3. /\ value'["keyboardInput"] = report /\ DOMAIN value' = Characteristic
      /\ \A ch \in Characteristic \ {"keyboardInput"} : value'[ch] = value[ch]
  BY <1>1, <1>2
<1>4. value'["mouseInput"] = value["mouseInput"] /\ value'["bootMouseInput"] = value["bootMouseInput"]
  BY <1>3, ObjectPaths
<1>5. ReportsInv'
  <2>1. CASE what = <<"keyup">>
    <3>1. input'[1] = "keyup"
      BY <1>1, <2>1
    <3> QED BY <1>3, <1>4, <3>1 DEF GattInv, ReportsInv
  <2>2. ASSUME NEW ch \in Chars \ {CR}, what = <<"char", ch>>,
               LookupKeyboardStroke(ch) # NoStroke,
               report = MakeKeyboardReport(LookupKeyboardStroke(ch).modifiers,
                                           LookupKeyboardStroke(ch).usage)
        PROVE  ReportsInv'
    <3>1. input'[1] = "char" /\ input'[2] = ch
      BY <1>1, <2>2
    <3> QED BY <1>3, <1>4, <2>2, <3>1 DEF GattInv, ReportsInv
  <2> QED BY <2>1, <2>2
<1>6. OfKeyboard' /\ BootInv'
  <2>1. input'[1] \in {"char", "keyup"}
    BY <1>1
  <2>2. OfKeyboard'
    BY <2>1 DEF OfKeyboard
  <2>3. value["bootMouseInput"] = SubSeq(value["mouseInput"], 2, 4)
    BY <1>1 DEF GattInv, BootInv
  <2> QED BY <1>1, <1>4, <2>2, <2>3 DEF BootInv
<1>7. ObjectsInv'
  BY <1>1, <1>3 DEF GattInv, ObjectsInv, InputCharacteristic
<1> QED BY <1>1, <1>3, <1>5, <1>6, <1>7 DEF GattInv

LEMMA MouseSent ==
  ASSUME GattInv, NEW report \in MouseReports, NEW what,
         Send("mouseInput", report, what),
         \/ what = <<"buttonup">>
         \/ \E dx, dy \in Distances :
              /\ what = <<"move", dx, dy>>
              /\ report = MakeMouseReport(0, StepFor(dx), StepFor(dy), 0)
         \/ \E name \in ButtonName :
              /\ what = <<"button", name>>
              /\ MouseButtonFromString(name) # NoButton
              /\ report = MakeMouseReport(MouseButtonMask(MouseButtonFromString(name)), 0, 0, 0)
  PROVE  GattInv'
<1>1. /\ value' = [value EXCEPT !["mouseInput"] = report]
      /\ input' = what /\ pending = FALSE /\ pending' = TRUE /\ found' = found
  BY DEF Send, GattInv, hostVars
<1>2. DOMAIN value = Characteristic /\ "mouseInput" \in Characteristic
  BY ObjectPaths DEF GattInv
<1>3. /\ value'["mouseInput"] = report /\ DOMAIN value' = Characteristic
      /\ \A ch \in Characteristic \ {"mouseInput"} : value'[ch] = value[ch]
  BY <1>1, <1>2
<1>4. /\ value'["keyboardInput"] = value["keyboardInput"]
      /\ value'["bootKeyboardInput"] = value["bootKeyboardInput"]
  BY <1>3, ObjectPaths
<1>5. ReportsInv'
  <2>1. CASE what = <<"buttonup">>
    <3>1. input'[1] = "buttonup"
      BY <1>1, <2>1
    <3> QED BY <1>3, <1>4, <3>1 DEF GattInv, ReportsInv
  <2>2. ASSUME NEW dx \in Distances, NEW dy \in Distances, what = <<"move", dx, dy>>,
               report = MakeMouseReport(0, StepFor(dx), StepFor(dy), 0)
        PROVE  ReportsInv'
    <3>1. input'[1] = "move" /\ input'[2] = dx /\ input'[3] = dy
      BY <1>1, <2>2
    <3> QED BY <1>3, <1>4, <2>2, <3>1 DEF GattInv, ReportsInv
  <2>3. ASSUME NEW name \in ButtonName, what = <<"button", name>>,
               MouseButtonFromString(name) # NoButton,
               report = MakeMouseReport(MouseButtonMask(MouseButtonFromString(name)), 0, 0, 0)
        PROVE  ReportsInv'
    <3>1. input'[1] = "button" /\ input'[2] = name
      BY <1>1, <2>3
    <3> QED BY <1>3, <1>4, <2>3, <3>1 DEF GattInv, ReportsInv
  <2> QED BY <2>1, <2>2, <2>3
<1>6. ~OfKeyboard' /\ BootInv'
  <2>1. input'[1] \in {"buttonup", "move", "button"}
    BY <1>1
  <2>2. ~OfKeyboard'
    BY <2>1 DEF OfKeyboard
  <2>3. value["bootKeyboardInput"] = Tail(value["keyboardInput"])
    BY <1>1 DEF GattInv, BootInv
  <2> QED BY <1>1, <1>4, <2>2, <2>3 DEF BootInv
<1>7. ObjectsInv'
  BY <1>1, <1>3 DEF GattInv, ObjectsInv, InputCharacteristic
<1> QED BY <1>1, <1>3, <1>5, <1>6, <1>7 DEF GattInv

LEMMA SendGatt ==
  ASSUME GattInv, TypeChar \/ MovePointer \/ PressButton \/ Release PROVE GattInv'
<1>1. CASE TypeChar
  <2> PICK ch \in Chars \ {CR} :
        LET stroke == LookupKeyboardStroke(ch)
        IN  /\ stroke # NoStroke
            /\ Send("keyboardInput", MakeKeyboardReport(stroke.modifiers, stroke.usage),
                    <<"char", ch>>)
    BY <1>1 DEF TypeChar
  <2> DEFINE stroke == LookupKeyboardStroke(ch)
             report == MakeKeyboardReport(stroke.modifiers, stroke.usage)
  <2>1. ch \in -128 .. 127
    BY ReportsAssumption
  <2>2. stroke \in Strokes
    BY <2>1, StrokeFacts DEF TypesBack
  <2>3. report \in KeyboardReports
    BY <2>2 DEF KeyboardReports
  <2> QED BY <2>3, KeyboardSent
<1>2. CASE MovePointer
  <2>1. PICK dx \in Distances, dy \in Distances :
          \E stepX \in Clamped(dx, Int32(-MaxStep), MaxStep),
             stepY \in Clamped(dy, Int32(-MaxStep), MaxStep) :
            Send("mouseInput", MakeMouseReport(0, Int8(stepX), Int8(stepY), 0),
                 <<"move", dx, dy>>)
    BY <1>2 DEF MovePointer
  <2> DEFINE report == MakeMouseReport(0, StepFor(dx), StepFor(dy), 0)
  <2>2. Send("mouseInput", report, <<"move", dx, dy>>)
    BY <2>1, StepFacts
  <2>3. StepFor(dx) \in Displacements /\ StepFor(dy) \in Displacements /\ 0 \in Masks
    BY StepFacts DEF Masks
  <2>4. report \in MouseReports
    BY <2>3 DEF MouseReports
  <2> QED BY <2>2, <2>4, MouseSent
<1>3. CASE PressButton
  <2> PICK name \in ButtonName :
        LET button == MouseButtonFromString(name)
        IN  /\ button # NoButton
            /\ Send("mouseInput", MakeMouseReport(MouseButtonMask(button), 0, 0, 0),
                    <<"button", name>>)
    BY <1>3 DEF PressButton
  <2>1. MouseButtonMask(MouseButtonFromString(name)) \in Masks /\ 0 \in Displacements
    BY MaskFacts DEF Displacements
  <2>2. MakeMouseReport(MouseButtonMask(MouseButtonFromString(name)), 0, 0, 0) \in MouseReports
    BY <2>1 DEF MouseReports
  <2> QED BY <2>2, MouseSent
<1>4. CASE Release
  <2>1. \/ Send("keyboardInput", MakeKeyboardReleaseReport, <<"keyup">>)
        \/ Send("mouseInput", MakeMouseReport(0, 0, 0, 0), <<"buttonup">>)
    BY <1>4 DEF Release
  <2> QED BY <2>1, ReleaseFacts, KeyboardSent, MouseSent
<1> QED BY <1>1, <1>2, <1>3, <1>4

LEMMA NothingSentGatt == ASSUME GattInv, SkipChar \/ RefuseButton PROVE GattInv'
<1>1. UNCHANGED <<pending, value, found>> /\ pending = FALSE
  BY DEF SkipChar, RefuseButton, NextRequest, hostVars, GattInv
<1>2. ReportsInv'
  <2>1. CASE SkipChar
    <3> PICK ch \in Chars :
          (ch = CR \/ LookupKeyboardStroke(ch) = NoStroke) /\ input' = <<"skipped", ch>>
      BY <2>1 DEF SkipChar
    <3>1. input'[1] = "skipped" /\ input'[2] = ch
      OBVIOUS
    <3> QED BY <1>1, <3>1 DEF GattInv, ReportsInv
  <2>2. CASE RefuseButton
    <3>1. input'[1] = "refused"
      BY <2>2 DEF RefuseButton
    <3> QED BY <1>1, <3>1 DEF GattInv, ReportsInv
  <2> QED BY <2>1, <2>2
<1>3. BootInv'
  BY <1>1 DEF GattInv, BootInv
<1>4. ObjectsInv'
  BY <1>1 DEF GattInv, ObjectsInv
<1> QED BY <1>1, <1>2, <1>3, <1>4 DEF GattInv

(* The second half of a notification makes the boot characteristic agree.  *)
LEMMA BootGatt == ASSUME GattInv, SendBoot PROVE GattInv'
<1>1. pending = TRUE /\ pending' = FALSE /\ input' = input /\ found' = found
  BY DEF SendBoot, hostVars, GattInv
<1>2. DOMAIN value = Characteristic
  BY DEF GattInv
<1>3. CASE OfKeyboard
  <2>1. value' = [value EXCEPT !["bootKeyboardInput"] = Tail(value["keyboardInput"])]
    BY <1>3 DEF SendBoot, OfKeyboard
  <2>2. /\ value'["bootKeyboardInput"] = Tail(value["keyboardInput"])
        /\ DOMAIN value' = Characteristic
        /\ \A ch \in Characteristic \ {"bootKeyboardInput"} : value'[ch] = value[ch]
    BY <1>2, <2>1, ObjectPaths
  <2>3. /\ value'["keyboardInput"] = value["keyboardInput"]
        /\ value'["mouseInput"] = value["mouseInput"]
        /\ value'["bootMouseInput"] = value["bootMouseInput"]
    BY <2>2, ObjectPaths
  <2>4. ReportsInv'
    BY <1>1, <2>3 DEF GattInv, ReportsInv
  <2>5. BootInv'
    BY <1>1, <1>3, <2>2, <2>3 DEF GattInv, BootInv
  <2>6. ObjectsInv'
    BY <1>1, <2>2 DEF GattInv, ObjectsInv, InputCharacteristic
  <2> QED BY <1>1, <2>2, <2>4, <2>5, <2>6 DEF GattInv
<1>4. CASE ~OfKeyboard
  <2>1. value' = [value EXCEPT !["bootMouseInput"] = SubSeq(value["mouseInput"], 2, 4)]
    BY <1>4 DEF SendBoot, OfKeyboard
  <2>2. /\ value'["bootMouseInput"] = SubSeq(value["mouseInput"], 2, 4)
        /\ DOMAIN value' = Characteristic
        /\ \A ch \in Characteristic \ {"bootMouseInput"} : value'[ch] = value[ch]
    BY <1>2, <2>1, ObjectPaths
  <2>3. /\ value'["keyboardInput"] = value["keyboardInput"]
        /\ value'["mouseInput"] = value["mouseInput"]
        /\ value'["bootKeyboardInput"] = value["bootKeyboardInput"]
    BY <2>2, ObjectPaths
  <2>4. ReportsInv'
    BY <1>1, <2>3 DEF GattInv, ReportsInv
  <2>5. BootInv'
    BY <1>1, <1>4, <2>2, <2>3 DEF GattInv, BootInv
  <2>6. ObjectsInv'
    BY <1>1, <2>2 DEF GattInv, ObjectsInv, InputCharacteristic
  <2> QED BY <1>1, <2>2, <2>4, <2>5, <2>6 DEF GattInv
<1> QED BY <1>3, <1>4

LEMMA RecordFields ==
  \A ch \in Characteristic :
    DOMAIN ManagedObjects[ch] = {"kind", "uuid", "parent", "flags", "descriptors", "content"}
BY ObjectPaths DEF ManagedObjects, InputReport, WithDescriptor, HidCharacteristic,
   InfoCharacteristic, CharacteristicObject

(* What BlueZ and the host do touches neither the values nor the thread.   *)
LEMMA HostStep ==
  ASSUME GetManagedObjects \/ \E ch \in Writable, bytes \in Written : WriteValue(ch, bytes)
  PROVE  /\ UNCHANGED <<input, pending, value>>
         /\ found' = found \/ found' = [p \in Paths |-> Properties(p)]
<1>1. CASE GetManagedObjects
  BY <1>1 DEF GetManagedObjects, inputVars
<1>2. ASSUME NEW ch \in Writable, NEW bytes \in Written, WriteValue(ch, bytes)
      PROVE  UNCHANGED <<input, pending, value, found>>
  BY <1>2, ObjectPaths DEF WriteValue
<1> QED BY <1>1, <1>2

LEMMA SameGatt ==
  ASSUME GattInv, UNCHANGED <<input, pending, value>>,
         found' = found \/ found' = [p \in Paths |-> Properties(p)]
  PROVE  GattInv'
<1>1. ReportsInv'
  BY DEF GattInv, ReportsInv
<1>2. BootInv'
  BY DEF GattInv, BootInv, OfKeyboard
<1>3. ObjectsInv'
  <2>1. CASE found' = found
    BY <2>1 DEF GattInv, ObjectsInv
  <2>2. CASE found' = [p \in Paths |-> Properties(p)]
    <3>1. \A p \in Paths : SameObject(Properties(p), p)
      BY RecordFields DEF SameObject, Properties
    <3> QED BY <2>2, <3>1 DEF GattInv, ObjectsInv
  <2> QED BY <2>1, <2>2
<1> QED BY <1>1, <1>2, <1>3 DEF GattInv

(* The reports, their boot forms and the objects in every reachable state. *)
THEOREM GattInductive == Spec => []GattInv
<1>1. Init => GattInv
  BY InitGatt
<1>2. GattInv /\ [Next]_vars => GattInv'
  <2> SUFFICES ASSUME GattInv, [Next]_vars PROVE GattInv'
    OBVIOUS
  <2>1. CASE TypeChar \/ MovePointer \/ PressButton \/ Release
    BY <2>1, SendGatt
  <2>2. CASE SkipChar \/ RefuseButton
    BY <2>2, NothingSentGatt
  <2>3. CASE SendBoot
    BY <2>3, BootGatt
  <2>4. CASE GetManagedObjects \/ \E ch \in Writable, bytes \in Written : WriteValue(ch, bytes)
    BY <2>4, HostStep, SameGatt
  <2>5. CASE UNCHANGED vars
    BY <2>5, SameGatt DEF vars
  <2> QED BY <2>1, <2>2, <2>3, <2>4, <2>5 DEF Next
<1> QED BY <1>1, <1>2, PTL DEF Spec

-----------------------------------------------------------------------------
(* Every report has the length the report map declares and every field a   *)
(* value in the declared range, whatever is typed, moved and clicked.      *)
THEOREM ReportsFit == Spec => []FitsReportMap
BY GattInductive, Fits, PTL

(* A US host makes of every stroke the character it was sent for, and no   *)
(* printable ASCII character is passed over: sendText of any text.         *)
THEOREM TextArrives == Spec => []HostTypesTheChar
BY GattInductive, TypesTheChar, PTL

(* A host sees the named button alone, and of a move each axis go its way  *)
(* as far as the limit and a report allow, for any distance.               *)
THEOREM MouseArrives == Spec => []HostSeesTheMouse
BY GattInductive, SeesTheMouse, PTL

(* Both report protocols see the same whenever no write is in between.     *)
THEOREM ProtocolsAgree == Spec => []BootSeesTheSame
BY GattInductive, BootAgrees, PTL

(* Every report id leads a host to one characteristic with its reports.    *)
THEOREM HostFindsReports == Spec => []ReportsAreFound
BY GattInductive, AreFound, PTL
=============================================================================
