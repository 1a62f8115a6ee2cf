---------------------------- MODULE MC_HidService ----------------------------
(* One key, one target one step away.                                       *)
EXTENDS HidService

CONSTANTS a

KeyA == [ch \in Char |-> IF ch = a THEN "A" ELSE Nothing]
OneKey == {<<a>>}
OneStep == {[x |-> 1, y |-> 0]}
=============================================================================
