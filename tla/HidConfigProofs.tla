--------------------------- MODULE HidConfigProofs ---------------------------
(***************************************************************************)
(* ConfigInv is inductive, and what a loaded configuration promises        *)
(* follows from it: for any files, environments, initial values and widths *)
(* of the integers.                                                        *)
(***************************************************************************)
EXTENDS HidConfig, TLAPS

(* The keys are twelve different names.                                    *)
LEMMA Keys ==
  /\ Len(Key) = 12 /\ DOMAIN Key = 1 .. 12
  /\ \A i \in DOMAIN Key : Key[i] \in Name
  /\ \A k \in Name : \E i \in DOMAIN Key : Key[i] = k
<1>1. Len(Key) = 12 /\ DOMAIN Key = 1 .. 12
  BY DEF Key
<1> QED BY <1>1 DEF Name

LEMMA KeysDiffer ==
  ASSUME NEW i \in DOMAIN Key, NEW j \in DOMAIN Key, Key[i] = Key[j] PROVE i = j
<1>1. i \in 1 .. 12 /\ j \in 1 .. 12
  BY Keys
<1> QED BY <1>1 DEF Key

(* Every kind of key is one of the names.                                  *)
LEMMA Kinds ==
  /\ Numbers \subseteq Name /\ Flags \subseteq Name
  /\ "mode" \in Name /\ "mouse_step_limit" \in Numbers
  /\ Numbers \cap Flags = {} /\ "mode" \notin Numbers \cup Flags
<1>1. /\ Key[1] = "mode" /\ Key[5] = "appearance" /\ Key[6] = "keyboard.enabled"
      /\ Key[7] = "mouse.enabled" /\ Key[9] = "port" /\ Key[10] = "keypress_delay_ms"
      /\ Key[11] = "mouse_move_delay_ms" /\ Key[12] = "mouse_step_limit"
  BY DEF Key
<1>2. {"mode", "appearance", "keyboard.enabled", "mouse.enabled", "port",
       "keypress_delay_ms", "mouse_move_delay_ms", "mouse_step_limit"} \subseteq Name
  BY <1>1, Keys
<1> QED BY <1>2 DEF Numbers, Flags, Shorts, Ints

(* What the parser of numbers returns is in range, and what is meant.      *)
LEMMA ParsedNumber ==
  ASSUME NEW text, NEW max \in Nat, NEW n \in ParsedUInt(text, max)
  PROVE  /\ n \in 0 .. max
         /\ text[1] \in {"number", "suffixed"}
         /\ text[2] \in Int /\ n = Meant(text[2])
<1>1. LongMax \in Nat
  BY ConfigAssumption
<1>2. /\ text[1] \in {"number", "suffixed"} /\ text[2] \in -LongMax .. LongMax
      /\ n = text[2] % (LongMax + 1) /\ n <= max
  BY DEF ParsedUInt, Stoul
<1>3. n \in Nat
  BY <1>1, <1>2
<1>4. CASE text[2] >= 0
  BY <1>1, <1>2, <1>3, <1>4 DEF Meant
<1>5. CASE text[2] < 0
  <2>1. text[2] + LongMax + 1 \in 0 .. LongMax
    BY <1>1, <1>2, <1>5
  <2>2. text[2] % (LongMax + 1) = text[2] + LongMax + 1
    BY <1>1, <1>2, <1>5, <2>1
  <2> QED BY <1>1, <1>2, <1>3, <1>5, <2>2 DEF Meant
<1> QED BY <1>1, <1>2, <1>4, <1>5

(* A number in range is not refused.                                       *)
LEMMA NumberParses ==
  ASSUME NEW text, NEW max \in Nat, max <= LongMax,
         text[1] \in {"number", "suffixed"}, text[2] \in 0 .. max
  PROVE  ParsedUInt(text, max) # {}
<1>1. LongMax \in Nat
  BY ConfigAssumption
<1>2. text[2] \in -LongMax .. LongMax
  BY <1>1
<1>3. text[2] % (LongMax + 1) = text[2]
  BY <1>1
<1>4. text[2] \in ParsedUInt(text, max)
  BY <1>2, <1>3 DEF ParsedUInt, Stoul
<1> QED BY <1>4

LEMMA ParsedOf ==
  ASSUME NEW k, NEW text
  PROVE  /\ k \in Numbers => Parsed(k, text) = ParsedUInt(text, UIntMax(k))
         /\ k \in Flags => Parsed(k, text) = ParsedBool(text)
         /\ k = "mode" => Parsed(k, text) = {text} \cap {Word("bluetooth")}
         /\ k \notin Numbers \cup Flags \cup {"mode"} => Parsed(k, text) = {text}
<1> DEFINE number == ParsedUInt(text, UIntMax(k))
           flag == ParsedBool(text)
           mode == {text} \cap {Word("bluetooth")}
<1>1. Parsed(k, text) = CASE k \in Numbers -> number [] k \in Flags -> flag
                          [] k = "mode" -> mode [] OTHER -> {text}
  BY DEF Parsed
<1> HIDE DEF number, flag, mode
<1>2. /\ k \in Numbers => Parsed(k, text) = number
      /\ k \in Flags => Parsed(k, text) = flag
      /\ k = "mode" => Parsed(k, text) = mode
      /\ k \notin Numbers \cup Flags \cup {"mode"} => Parsed(k, text) = {text}
  BY <1>1, Kinds
<1> QED BY <1>2 DEF number, flag, mode

LEMMA MaxIsNat == \A k : UIntMax(k) \in Nat /\ UIntMax(k) <= LongMax
BY ConfigAssumption DEF UIntMax

LEMMA InitInv == Init => ConfigInv
<1> SUFFICES ASSUME Init PROVE ConfigInv
  OBVIOUS
<1>1. DOMAIN config = Name
  BY ConfigAssumption DEF Init
<1> QED BY <1>1, Keys DEF Init, ConfigInv

(* The value of a key read now is the one the file says; the keys read     *)
(* before keep theirs, because no two keys are the same.                   *)
LEMMA NextInv == ConfigInv /\ [Next]_vars => ConfigInv'
<1> SUFFICES ASSUME ConfigInv, [Next]_vars PROVE ConfigInv'
  OBVIOUS
<1>0. CASE CannotOpen
  <2>1. /\ UNCHANGED <<file, environment, next, config>> /\ outcome' = "threw"
        /\ file = Unreadable
    BY <1>0 DEF CannotOpen
  <2>2. \A j : KeyRead(j)' <=> KeyRead(j)
    BY <2>1 DEF Given, Text, Resolved, Parsed, ParsedUInt, ParsedBool, Stoul, KeyRead
  <2>3. \A i \in DOMAIN Key : IF i < next' THEN KeyRead(Key[i])'
                              ELSE config'[Key[i]] = Fallback[Key[i]]
    BY <2>1, <2>2 DEF ConfigInv
  <2> QED BY <2>1, <2>3 DEF ConfigInv
<1>1. CASE KeepFallback
  <2>1. next \in DOMAIN Key /\ next \in 1 .. 12
    BY <1>1, Keys DEF ConfigInv, KeepFallback
  <2>2. KeyRead(Key[next])
    BY <1>1, <2>1 DEF ConfigInv, KeepFallback, KeyRead, Given
  <2>3. /\ next' = next + 1 /\ config' = config
        /\ file # Unreadable /\ file' = file
        /\ outcome' = IF next = 12 THEN "loaded" ELSE "loading"
    BY <1>1, Keys DEF KeepFallback, Advance
  <2>4. \A k : KeyRead(k)' <=> KeyRead(k)
    BY <1>1 DEF KeepFallback, KeyRead, Given, Text, Resolved
  <2>5. \A i \in DOMAIN Key : IF i < next' THEN KeyRead(Key[i])'
                              ELSE config'[Key[i]] = Fallback[Key[i]]
    BY <2>1, <2>2, <2>3, <2>4, Keys DEF ConfigInv
  <2> QED BY <2>1, <2>3, <2>5, Keys DEF ConfigInv
<1>2. CASE Read
  <2>1. next \in DOMAIN Key /\ next \in 1 .. 12
    BY <1>2, Keys DEF ConfigInv, Read
  <2>0. PICK k \in Name : k = Key[next]
    BY <2>1, Keys
  <2>2. /\ Given(k) /\ next' = next + 1 /\ file' = file /\ environment' = environment
        /\ outcome' = IF next = 12 THEN "loaded" ELSE "loading"
        /\ file # Unreadable
    BY <1>2, <2>0, Keys DEF Read, Advance, Given
  <2>3. PICK v \in Parsed(k, Text(k)) : config' = [config EXCEPT ![k] = Adjusted(k, v)]
    BY <1>2, <2>0 DEF Read
  <2>4. k \in Name /\ DOMAIN config = Name /\ DOMAIN config' = Name
    BY <2>0, <2>3 DEF ConfigInv
  <2>5. \A j : /\ Given(j)' <=> Given(j)
               /\ Parsed(j, Text(j))' = Parsed(j, Text(j))
    BY <2>2 DEF Given, Text, Resolved, Parsed, ParsedUInt, ParsedBool, Stoul
  <2>6. KeyRead(k)'
    <3>1. Given(k)' /\ v \in Parsed(k, Text(k))'
      BY <2>2, <2>3, <2>5
    <3>2. config'[k] = Adjusted(k, v)
      BY <2>3, <2>4
    <3>3. \E w \in Parsed(k, Text(k))' : config'[k] = Adjusted(k, w)
      BY <3>1, <3>2
    <3> QED BY <3>1, <3>3 DEF KeyRead
  <2>7. ASSUME NEW i \in DOMAIN Key, i # next
        PROVE  config'[Key[i]] = config[Key[i]] /\ (KeyRead(Key[i])' <=> KeyRead(Key[i]))
    <3>1. Key[i] # k /\ Key[i] \in Name
      BY <2>0, <2>1, <2>7, Keys, KeysDiffer
    <3>2. config'[Key[i]] = config[Key[i]]
      BY <2>3, <2>4, <3>1
    <3> QED BY <3>2, <2>5 DEF KeyRead
  <2>8. \A i \in DOMAIN Key : IF i < next' THEN KeyRead(Key[i])'
                              ELSE config'[Key[i]] = Fallback[Key[i]]
    BY <2>0, <2>1, <2>2, <2>6, <2>7, Keys DEF ConfigInv
  <2> QED BY <2>1, <2>2, <2>4, <2>8, Keys DEF ConfigInv
<1>3. CASE Throw
  <2>1. /\ UNCHANGED <<file, environment, next, config>> /\ outcome' = "threw"
        /\ next \in DOMAIN Key /\ next <= Len(Key)
        /\ Given(Key[next]) /\ Parsed(Key[next], Text(Key[next])) = {}
    BY <1>3, Keys DEF Throw, ConfigInv
  <2>2. \A j : /\ Given(j)' <=> Given(j)
               /\ KeyRead(j)' <=> KeyRead(j)
               /\ Parsed(j, Text(j))' = Parsed(j, Text(j))
    BY <2>1 DEF Given, Text, Resolved, Parsed, ParsedUInt, ParsedBool, Stoul, KeyRead
  <2>3. Given(Key[next])' /\ Parsed(Key[next], Text(Key[next]))' = {}
    BY <2>1, <2>2
  <2>4. /\ next' = next /\ DOMAIN config' = Name
        /\ next \in 1 .. Len(Key) + 1 /\ file' # Unreadable
        /\ \A i \in DOMAIN Key : IF i < next' THEN KeyRead(Key[i])'
                                   ELSE config'[Key[i]] = Fallback[Key[i]]
    BY <2>1, <2>2 DEF ConfigInv, Given
  <2> QED BY <2>1, <2>3, <2>4 DEF ConfigInv
<1>4. CASE UNCHANGED vars
  <2>1. UNCHANGED <<file, environment, next, config, outcome>>
    BY <1>4 DEF vars
  <2>2. \A j : /\ Given(j)' <=> Given(j)
               /\ KeyRead(j)' <=> KeyRead(j)
               /\ Parsed(j, Text(j))' = Parsed(j, Text(j))
    BY <2>1 DEF Given, Text, Resolved, Parsed, ParsedUInt, ParsedBool, Stoul, KeyRead
  <2>3. Key[next]' = Key[next]
    BY <2>1
  <2> QED BY <2>1, <2>2, <2>3 DEF ConfigInv
<1> QED BY <1>0, <1>1, <1>2, <1>3, <1>4 DEF Next

(* Whatever the file, a load has read a prefix of the keys, each to what   *)
(* the file says or to its initial value, and stops where it cannot read.  *)
THEOREM ConfigInductive == Spec => []ConfigInv
BY InitInv, NextInv, PTL DEF Spec

LEMMA AllRead ==
  ConfigInv /\ outcome = "loaded" => file # Unreadable /\ \A k \in Name : KeyRead(k)
BY Keys DEF ConfigInv

(* A number that is given and loaded is the one meant, a zero limit apart. *)
LEMMA NumberRead ==
  ASSUME NEW k \in Numbers, KeyRead(k), Given(k)
  PROVE  \E n \in 0 .. UIntMax(k) :
           /\ config[k] = Adjusted(k, n)
           /\ Text(k)[1] \in {"number", "suffixed"}
           /\ Text(k)[2] \in Int /\ n = Meant(Text(k)[2])
<1>1. PICK n \in ParsedUInt(Text(k), UIntMax(k)) : config[k] = Adjusted(k, n)
  BY ParsedOf DEF KeyRead
<1> QED BY <1>1, MaxIsNat, ParsedNumber

(* A step limit beyond int is loaded only from a text that says so.        *)
THEOREM LimitsEnd == Spec => []LimitEndsMoves
<1>1. ASSUME ConfigInv PROVE LimitEndsMoves
  <2> DEFINE k == "mouse_step_limit"
  <2> SUFFICES ASSUME outcome = "loaded"
               PROVE  \/ config[k] \in 1 .. SignedMax
                      \/ Given(k) /\ Text(k)[2] \notin 0 .. SignedMax
    BY DEF LimitEndsMoves
  <2>1. KeyRead(k) /\ k \in Numbers
    BY <1>1, AllRead, Kinds
  <2>2. CASE Given(k)
    <3>1. PICK n \in 0 .. UIntMax(k) : /\ config[k] = Adjusted(k, n)
                                      /\ Text(k)[2] \in Int /\ n = Meant(Text(k)[2])
      BY <2>1, <2>2, NumberRead
    <3>2. SUFFICES ASSUME Text(k)[2] \in 0 .. SignedMax PROVE config[k] \in 1 .. SignedMax
      BY <2>2
    <3>3. SignedMax \in Nat /\ SignedMax >= 1
      BY ConfigAssumption DEF SignedMax
    <3>4. n = Text(k)[2] /\ n \in 0 .. SignedMax
      BY <3>1, <3>2 DEF Meant
    <3>5. config[k] = IF n = 0 THEN 1 ELSE n
      BY <3>1 DEF Adjusted
    <3> QED BY <3>3, <3>4, <3>5
  <2>3. CASE ~Given(k)
    BY <2>1, <2>3, ConfigAssumption DEF KeyRead
  <2> QED BY <2>2, <2>3
<1> QED BY <1>1, ConfigInductive, PTL

(* A number in a loaded file is loaded as meant, a zero step limit apart;  *)
(* one that is absent keeps its initial value.                             *)
THEOREM AsWritten == Spec => []NumbersAsWritten
<1>1. ASSUME ConfigInv PROVE NumbersAsWritten
  <2> DEFINE Given1(k) == /\ Text(k)[1] \in {"number", "suffixed"}
                          /\ Meant(Text(k)[2]) \in 0 .. UIntMax(k)
                          /\ \/ config[k] = Meant(Text(k)[2])
                             \/ k = "mouse_step_limit" /\ Text(k)[2] = 0 /\ config[k] = 1
  <2>1. ASSUME outcome = "loaded", NEW k \in Numbers, Given(k) PROVE Given1(k)
    <3>1. KeyRead(k)
      BY <1>1, <2>1, AllRead, Kinds
    <3>2. PICK n \in 0 .. UIntMax(k) : /\ config[k] = Adjusted(k, n)
                                      /\ Text(k)[1] \in {"number", "suffixed"}
                                      /\ Text(k)[2] \in Int /\ n = Meant(Text(k)[2])
      BY <2>1, <3>1, NumberRead
    <3>3. n = 0 => Text(k)[2] = 0
      <4>1. CASE Text(k)[2] >= 0
        BY <3>2, <4>1 DEF Meant
      <4>2. CASE Text(k)[2] < 0
        <5>1. Text(k)[2] >= -LongMax
          <6>1. PICK m \in ParsedUInt(Text(k), UIntMax(k)) : TRUE
            BY <2>1, <3>1, ParsedOf DEF KeyRead
          <6> QED BY <6>1, ConfigAssumption DEF ParsedUInt, Stoul
        <5> QED BY <3>2, <4>2, <5>1, ConfigAssumption DEF Meant
      <4> QED BY <3>2, <4>1, <4>2
    <3>4. config[k] = n \/ (k = "mouse_step_limit" /\ n = 0 /\ config[k] = 1)
      BY <3>2 DEF Adjusted
    <3> QED BY <3>2, <3>3, <3>4
  <2>2. ASSUME outcome = "loaded", NEW k \in Numbers, ~Given(k) PROVE config[k] = Fallback[k]
    BY <1>1, <2>2, AllRead, Kinds DEF KeyRead
  <2>3. outcome = "loaded" => file # Unreadable
    BY <1>1, AllRead
  <2> QED BY <2>1, <2>2, <2>3 DEF NumbersAsWritten
<1> QED BY <1>1, ConfigInductive, PTL

(* A file whose numbers are in range and whose words are known is loaded.  *)
THEOREM Loads == Spec => []GoodFileLoads
<1>1. ASSUME ConfigInv PROVE GoodFileLoads
  <2> SUFFICES ASSUME outcome = "threw" PROVE GoodFileLoads!2
    BY DEF GoodFileLoads
  <2> DEFINE k == Key[next]
  <2>0. CASE file = Unreadable
    BY <2>0
  <2> SUFFICES ASSUME file # Unreadable PROVE GoodFileLoads!2
    BY <2>0
  <2>1. Given(k) /\ Parsed(k, Text(k)) = {}
    BY <1>1 DEF ConfigInv
  <2>2. CASE k \in Numbers
    <3>1. ParsedUInt(Text(k), UIntMax(k)) = {}
      BY <2>1, <2>2, ParsedOf
    <3>2. ~InRange(k)
      BY <3>1, NumberParses, MaxIsNat DEF InRange
    <3> QED BY <2>1, <2>2, <3>2
  <2>3. CASE k \in Flags
    <3>1. ParsedBool(Text(k)) = {}
      BY <2>1, <2>3, ParsedOf
    <3> QED BY <2>1, <2>3, <3>1 DEF ParsedBool
  <2>4. CASE k = "mode"
    <3>1. {Text(k)} \cap {Word("bluetooth")} = {}
      BY <2>1, <2>4, ParsedOf
    <3>2. Text("mode") # Word("bluetooth")
      BY <2>4, <3>1
    <3>3. Given("mode")
      BY <2>1, <2>4
    <3> QED BY <3>2, <3>3
  <2>5. CASE k \notin Numbers \cup Flags \cup {"mode"}
    BY <2>1, <2>5, ParsedOf
  <2> QED BY <2>2, <2>3, <2>4, <2>5
<1> QED BY <1>1, ConfigInductive, PTL
=============================================================================
