----------------------------- MODULE MC_HidGatt -----------------------------
(* Every character, and distances at the edges of a report, of the limit   *)
(* and of an int.                                                          *)
EXTENDS HidGatt

AllChars == -128 .. 127
EdgeDistances == {-512, -201, -128, -127, -1, 0, 1, 127, 128, 200, 511}
Name == <<74, 65>>
=============================================================================
