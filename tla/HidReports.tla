------------------------------ MODULE HidReports ------------------------------
(***************************************************************************)
(* From characters and mouse buttons to input reports, and back through    *)
(* the report map the host was given.  Characters are their codes, -128 to *)
(* 127 as the signed char of the build; a report is its sequence of bytes. *)
(* HidGatt sends these reports.                                            *)
(***************************************************************************)
EXTENDS Integers, Sequences

LeftShift == 2
NoStroke == [usage |-> 0, modifiers |-> 0]
Stroke(usage, shifted) ==
  [usage |-> usage, modifiers |-> IF shifted THEN LeftShift ELSE 0]

(* lookupFromTable, by usage: the codes of the plain character and of the  *)
(* one shift gives, digits first and then punctuation.                     *)
Key == {
  [usage |-> 30, plain |-> 49, shifted |-> 33],   \* 1 !
  [usage |-> 31, plain |-> 50, shifted |-> 64],   \* 2 @
  [usage |-> 32, plain |-> 51, shifted |-> 35],   \* 3 #
  [usage |-> 33, plain |-> 52, shifted |-> 36],   \* 4 $
  [usage |-> 34, plain |-> 53, shifted |-> 37],   \* 5 %
  [usage |-> 35, plain |-> 54, shifted |-> 94],   \* 6 ^
  [usage |-> 36, plain |-> 55, shifted |-> 38],   \* 7 &
  [usage |-> 37, plain |-> 56, shifted |-> 42],   \* 8 *
  [usage |-> 38, plain |-> 57, shifted |-> 40],   \* 9 (
  [usage |-> 39, plain |-> 48, shifted |-> 41],   \* 0 )
  [usage |-> 45, plain |-> 45, shifted |-> 95],   \* - _
  [usage |-> 46, plain |-> 61, shifted |-> 43],   \* = +
  [usage |-> 47, plain |-> 91, shifted |-> 123],  \* [ {
  [usage |-> 48, plain |-> 93, shifted |-> 125],  \* ] }
  [usage |-> 49, plain |-> 92, shifted |-> 124],  \* backslash |
  [usage |-> 51, plain |-> 59, shifted |-> 58],   \* ; :
  [usage |-> 52, plain |-> 39, shifted |-> 34],   \* ' "
  [usage |-> 53, plain |-> 96, shifted |-> 126],  \* ` ~
  [usage |-> 54, plain |-> 44, shifted |-> 60],   \* , <
  [usage |-> 55, plain |-> 46, shifted |-> 62],   \* . >
  [usage |-> 56, plain |-> 47, shifted |-> 63]}   \* / ?

(* Space, tab, newline, carriage return and backspace have one form.       *)
Control == {<<32, 44>>, <<9, 43>>, <<10, 40>>, <<13, 40>>, <<8, 42>>}

LookupFromTable(ch) ==
  LET plain   == {k \in Key : k.plain = ch}
      shifted == {k \in Key : k.shifted = ch}
      control == {c \in Control : c[1] = ch}
  IN  CASE plain # {}   -> Stroke((CHOOSE k \in plain : TRUE).usage, FALSE)
        [] shifted # {} -> Stroke((CHOOSE k \in shifted : TRUE).usage, TRUE)
        [] control # {} -> Stroke((CHOOSE c \in control : TRUE)[2], FALSE)
        [] OTHER        -> NoStroke

\* Mutant of LookupKeyboardStroke: capitals without shift.
LookupLowercase(ch) ==
  CASE ch \in 97 .. 122 -> Stroke(4 + (ch - 97), FALSE)
    [] ch \in 65 .. 90  -> Stroke(4 + (ch - 65), FALSE)
    [] OTHER            -> LookupFromTable(ch)

LookupKeyboardStroke(ch) ==
  CASE ch \in 97 .. 122 -> Stroke(4 + (ch - 97), FALSE)
    [] ch \in 65 .. 90  -> Stroke(4 + (ch - 65), TRUE)
    [] OTHER            -> LookupFromTable(ch)

-----------------------------------------------------------------------------
(* Reports, their first byte the report id.                                *)

Byte(n) == n % 256
MakeKeyboardReport(modifiers, keycode) ==
  <<1, modifiers, 0, keycode, 0, 0, 0, 0, 0>>
MakeKeyboardReleaseReport == [i \in 1 .. 9 |-> IF i = 1 THEN 1 ELSE 0]
MakeMouseReport(buttons, dx, dy, wheel) ==
  <<2, buttons, Byte(dx), Byte(dy), Byte(wheel)>>

Button == {"left", "right", "middle"}
MouseButtonMask(button) ==
  CASE button = "left" -> 1 [] button = "right" -> 2 [] button = "middle" -> 4

(* mouseButtonFromString folds the case of a name; other names throw.  A   *)
(* name is its letters in lower case and whether some were capitals.       *)
ButtonName == [lower : {"left", "right", "middle", "mid", "wheel"}, capitals : BOOLEAN]
NoButton == "none"
\* Mutant of MouseButtonFromString: the alias means the first button.
MouseButtonAliased(name) == IF name.lower \in Button THEN name.lower ELSE "left"
MouseButtonFromString(name) ==
  CASE name.lower \in {"middle", "mid"} -> "middle"
    [] name.lower \in {"left", "right"} -> name.lower
    [] OTHER -> NoButton

-----------------------------------------------------------------------------
(* The input fields hidReportMap declares, in the order of the bits:       *)
(* usages at page codes, logical range, bits per field and fields.         *)

Field(name, lo, hi, size, count) ==
  [name |-> name, lo |-> lo, hi |-> hi, size |-> size, count |-> count]

KeyboardFields == <<
  Field("modifiers", 0, 1, 1, 8), Field("constant", 0, 0, 8, 1),
  Field("keys", 0, 101, 8, 6)>>
MouseFields == <<
  Field("buttons", 0, 1, 1, 3), Field("constant", 0, 0, 5, 1),
  Field("motion", -127, 127, 8, 3)>>
ReportMap(id) == IF id = 1 THEN KeyboardFields ELSE MouseFields

(* The bits the first i fields take together.                              *)
BitsUpTo(fields) ==
  LET bits[i \in 0 .. Len(fields)] ==
        IF i = 0 THEN 0 ELSE bits[i - 1] + fields[i].size * fields[i].count
  IN  bits
Bits(fields) == BitsUpTo(fields)[Len(fields)]
OffsetOf(fields, i) == BitsUpTo(fields)[i - 1]

PowerOfTwo == [n \in 0 .. 8 |-> <<1, 2, 4, 8, 16, 32, 64, 128, 256>>[n + 1]]

(* The number a host reads at a bit offset of the payload; a field with a  *)
(* negative minimum is signed.                                             *)
ReadField(payload, offset, f) ==
  LET n == (payload[offset \div 8 + 1] \div PowerOfTwo[offset % 8]) % PowerOfTwo[f.size]
  IN  IF f.lo < 0 /\ n >= PowerOfTwo[f.size - 1] THEN n - PowerOfTwo[f.size] ELSE n

(* What the host reads in the fields of that name.                         *)
FieldNamed(fields, name) == CHOOSE i \in DOMAIN fields : fields[i].name = name
ReadFields(payload, offset, field) ==
  [k \in 1 .. field.count |-> ReadField(payload, offset + (k - 1) * field.size, field)]
HostReads(report, name) ==
  LET fields == ReportMap(report[1])
      i == FieldNamed(fields, name)
  IN  ReadFields(Tail(report), OffsetOf(fields, i), fields[i])

(* The character a US layout gives for a usage and the bit of shift.       *)
HostTypes(usage, shift) ==
  CASE usage \in 4 .. 29 -> (IF shift = 1 THEN 65 ELSE 97) + usage - 4
    [] usage \in 30 .. 38 -> IF shift = 1 THEN <<33, 64, 35, 36, 37, 94, 38, 42, 40>>[usage - 29]
                             ELSE usage + 19
    [] usage = 39 -> IF shift = 1 THEN 41 ELSE 48
    [] usage \in 40 .. 44 -> <<10, 27, 8, 9, 32>>[usage - 39]
    [] usage \in 45 .. 49 -> IF shift = 1 THEN <<95, 43, 123, 125, 124>>[usage - 44]
                             ELSE <<45, 61, 91, 93, 92>>[usage - 44]
    [] usage \in 51 .. 56 -> IF shift = 1 THEN <<58, 34, 126, 60, 62, 63>>[usage - 50]
                             ELSE <<59, 39, 96, 44, 46, 47>>[usage - 50]
=============================================================================
