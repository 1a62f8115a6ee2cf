------------------------------ MODULE HidConfig ------------------------------
(***************************************************************************)
(* loadHIDConfig: the keys are read one after another, each a fallback, a  *)
(* plain text or an environment token ${NAME:default}, and the first key   *)
(* that cannot be read ends the load with an exception.  A text is kept as *)
(* what the parsers tell apart: a word, a number, or a number with other   *)
(* characters behind it.                                                   *)
(***************************************************************************)
EXTENDS Integers, Sequences

CONSTANTS
  LongMax, IntMax, ShortMax,   \* largest unsigned long, uint32_t, uint16_t
  Files,          \* files to load: what each key has
  Unreadable,     \* stands for a file that is missing or no YAML
  Environments,   \* what the variable the tokens name is set to
  Fallback        \* the initial values of HIDConfig

Key == <<"mode", "device_name", "ble_adapter", "manufacturer", "appearance",
         "keyboard.enabled", "mouse.enabled", "bind", "port",
         "keypress_delay_ms", "mouse_move_delay_ms", "mouse_step_limit">>
Name == {Key[i] : i \in DOMAIN Key}
Flags   == {"keyboard.enabled", "mouse.enabled"}
Shorts  == {"appearance", "port"}
Ints    == {"keypress_delay_ms", "mouse_move_delay_ms", "mouse_step_limit"}
Numbers == Shorts \cup Ints

Word(w)     == <<"word", w>>
Number(n)   == <<"number", n>>
Suffixed(n) == <<"suffixed", n>>

Absent         == <<"absent">>
Plain(text)    == <<"plain", text>>
Token(default) == <<"token", default>>
Unset          == <<"unset">>

UIntMax(k) == IF k \in Shorts THEN ShortMax ELSE IntMax

(* The largest int, the limits a move ends with: MaxStep converts the step *)
(* limit to int.                                                           *)
SignedMax == IntMax \div 2

(* The initial values are of the type of their key, and a move ends with   *)
(* the step limit.                                                         *)
ASSUME ConfigAssumption ==
  /\ {ShortMax, IntMax, LongMax} \subseteq Nat
  /\ 0 < ShortMax /\ ShortMax < IntMax /\ IntMax < LongMax
  /\ DOMAIN Fallback = Name
  /\ Fallback["mode"] = Word("bluetooth")
  /\ \A k \in Numbers : Fallback[k] \in 0 .. UIntMax(k)
  /\ \A k \in Flags : Fallback[k] \in BOOLEAN
  /\ Fallback["mouse_step_limit"] \in 1 .. SignedMax

VARIABLES
  file, environment,   \* what is loaded, and where tokens are looked up
  next,                \* index of the key to read next
  config,              \* the configuration read so far
  outcome              \* "loading", "loaded" or "threw"
vars == <<file, environment, next, config, outcome>>

Init ==
  /\ file \in Files /\ environment \in Environments
  /\ next = 1 /\ config = Fallback /\ outcome = "loading"

-----------------------------------------------------------------------------
(* Texts to values: the set of the value, empty when the parser throws.    *)

(* A token is replaced once: what the environment gives is taken as it is. *)
Resolved(raw) ==
  IF raw[1] = "token" /\ environment # Unset THEN environment ELSE raw[2]

(* std::stoul accepts a sign, negates without a sign, and stops at the     *)
(* first character that is no digit.                                       *)
Stoul(text) ==
  IF /\ text[1] \in {"number", "suffixed"}
     /\ text[2] \in -LongMax .. LongMax
  THEN {text[2] % (LongMax + 1)} ELSE {}

\* Mutants of ParsedUInt: the value is cut to the width, its upper half is
\* refused.
CutUInt(text, max) == {n % (max + 1) : n \in Stoul(text)}
HalfUInt(text, max) == {n \in Stoul(text) : n <= max \div 2}
ParsedUInt(text, max) == {n \in Stoul(text) : n <= max}

ParsedBool(text) ==
  CASE text \in {Number(1), Word("true"), Word("True"), Word("yes")}   -> {TRUE}
    [] text \in {Number(0), Word("false"), Word("False"), Word("no")} -> {FALSE}
    [] OTHER -> {}

Parsed(k, text) ==
  CASE k \in Numbers -> ParsedUInt(text, UIntMax(k))
    [] k \in Flags   -> ParsedBool(text)
    [] k = "mode"    -> {text} \cap {Word("bluetooth")}
    [] OTHER         -> {text}

\* Mutant of Adjusted: a limit of zero is kept.
AsRead(k, v) == v
(* A pointer that never moves would never arrive.                          *)
Adjusted(k, v) == IF k = "mouse_step_limit" /\ v = 0 THEN 1 ELSE v

-----------------------------------------------------------------------------
Advance ==
  /\ next' = next + 1
  /\ outcome' = IF next = Len(Key) THEN "loaded" ELSE "loading"

Given(k) == file # Unreadable /\ file[k] # Absent
Text(k) == Resolved(file[k])

CannotOpen ==
  /\ outcome = "loading" /\ file = Unreadable
  /\ outcome' = "threw"
  /\ UNCHANGED <<file, environment, next, config>>

(* The key, or the section it belongs to, is not in the file.              *)
KeepFallback ==
  /\ outcome = "loading" /\ file # Unreadable /\ ~Given(Key[next])
  /\ Advance
  /\ UNCHANGED <<file, environment, config>>

Read ==
  /\ outcome = "loading" /\ Given(Key[next])
  /\ \E v \in Parsed(Key[next], Text(Key[next])) :
       config' = [config EXCEPT ![Key[next]] = Adjusted(Key[next], v)]
  /\ Advance
  /\ UNCHANGED <<file, environment>>

Throw ==
  /\ outcome = "loading" /\ Given(Key[next])
  /\ Parsed(Key[next], Text(Key[next])) = {}
  /\ outcome' = "threw"
  /\ UNCHANGED <<file, environment, next, config>>

Next == CannotOpen \/ KeepFallback \/ Read \/ Throw
Spec == Init /\ [][Next]_vars

-----------------------------------------------------------------------------
KeyRead(k) ==
  IF Given(k) THEN \E v \in Parsed(k, Text(k)) : config[k] = Adjusted(k, v)
  ELSE config[k] = Fallback[k]

(* What has been read so far is what the file says of it, no key reaches   *)
(* the value of another, and the load stops at a key that cannot be read.  *)
(* This is the inductive invariant of the proofs.                          *)
ConfigInv ==
  /\ next \in 1 .. Len(Key) + 1
  /\ outcome = "loading" => next <= Len(Key)
  /\ outcome = "loaded" => next = Len(Key) + 1
  /\ file = Unreadable => next = 1
  /\ outcome = "threw" => \/ file = Unreadable
                          \/ /\ next <= Len(Key) /\ Given(Key[next])
                             /\ Parsed(Key[next], Text(Key[next])) = {}
  /\ DOMAIN config = Name
  /\ \A i \in DOMAIN Key : IF i < next THEN KeyRead(Key[i])
                             ELSE config[Key[i]] = Fallback[Key[i]]

(* A step limit with which a move never ends, one that int does not        *)
(* represent, is loaded only where the text itself is such a number, or a  *)
(* negative one, which std::stoul turns into a large one: never from a     *)
(* zero, from the initial value or from the value of another key.          *)
LimitEndsMoves ==
  outcome = "loaded" =>
    \/ config["mouse_step_limit"] \in 1 .. SignedMax
    \/ Given("mouse_step_limit") /\ Text("mouse_step_limit")[2] \notin 0 .. SignedMax

(* What std::stoul makes of a number: a negative one counts down from the  *)
(* largest unsigned long.                                                  *)
Meant(n) == IF n < 0 THEN n + LongMax + 1 ELSE n

(* What is written is what is loaded: whichever key and wherever it comes  *)
(* from, a number that is loaded fits the type of its key and is the one   *)
(* meant, so that a negative one loads only within that many of the        *)
(* largest unsigned long below zero, a zero step limit apart.              *)
NumbersAsWritten ==
  outcome = "loaded" =>
    /\ file # Unreadable
    /\ \A k \in Numbers :
         IF Given(k)
         THEN /\ Text(k)[1] \in {"number", "suffixed"}
              /\ Meant(Text(k)[2]) \in 0 .. UIntMax(k)
              /\ config[k] = Meant(Text(k)[2]) \/ (/\ k = "mouse_step_limit"
                                                  /\ Text(k)[2] = 0 /\ config[k] = 1)
         ELSE config[k] = Fallback[k]

InRange(k) == Text(k)[1] \in {"number", "suffixed"} /\ Text(k)[2] \in 0 .. UIntMax(k)

(* A file that can be read, whose numbers are all in range, and whose      *)
(* flags and mode are words the loader knows, is never refused.            *)
GoodFileLoads ==
  outcome = "threw" =>
    \/ file = Unreadable
    \/ \E k \in Numbers : Given(k) /\ ~InRange(k)
    \/ \E k \in Flags : /\ Given(k)
                        /\ Text(k) \notin {Word("true"), Word("false"), Word("yes"), Word("no"),
                                           Word("True"), Word("False"), Number(0), Number(1)}
    \/ Given("mode") /\ Text("mode") # Word("bluetooth")
=============================================================================
