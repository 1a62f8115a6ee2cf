---------------------------- MODULE EventBusProofs ----------------------------
(***************************************************************************)
(* The bus for any topics and any number of subscriptions and messages:    *)
(* who hears a message, in which order, and what the store returns.        *)
(***************************************************************************)
EXTENDS EventBus, TLAPS

Subscriber == [id : Nat, duty : Duties]
Call == [topic : Topics, called : Nat, message : Nat, within : SUBSET Nat]
Entry == [by : Nat, topic : Topics, message : Nat, within : SUBSET Nat]

-----------------------------------------------------------------------------
(* Sequences.                                                              *)
LEMMA Appended ==
  ASSUME NEW S, NEW s \in Seq(S), NEW x \in S
  PROVE  /\ Append(s, x) \in Seq(S)
         /\ Len(s) \in Nat /\ Len(Append(s, x)) = Len(s) + 1
         /\ DOMAIN s = 1 .. Len(s) /\ DOMAIN Append(s, x) = 1 .. Len(s) + 1
         /\ \A i \in DOMAIN s : Append(s, x)[i] = s[i]
         /\ Append(s, x)[Len(s) + 1] = x
  OBVIOUS

LEMMA Shortened ==
  ASSUME NEW S, NEW s \in Seq(S), s # <<>>
  PROVE  LET short == SubSeq(s, 1, Len(s) - 1)
         IN  /\ short \in Seq(S) /\ Len(s) \in Nat \ {0}
             /\ DOMAIN s = 1 .. Len(s) /\ DOMAIN short = 1 .. Len(s) - 1
             /\ \A i \in DOMAIN short : short[i] = s[i]
  OBVIOUS

LEMMA InitInv == Init => BusInv
  BY BusAssumption
     DEF Init, BusInv, BusTypeOK, Numbered, Nested, HeardSoFar, OnlyNestedOvertake

(* The innermost publication, and the callback it is about to call.        *)
LEMMA Innermost ==
  ASSUME BusInv, publishing # <<>>
  PROVE  /\ Len(publishing) \in DOMAIN publishing /\ Top \in Call
         /\ DOMAIN publishing = 1 .. Len(publishing) /\ Len(publishing) \in Nat \ {0}
         /\ \A p \in DOMAIN publishing : publishing[p] \in Call
         /\ ~AtEnd => /\ Top.called + 1 \in DOMAIN subscribers[Top.topic]
                      /\ Current \in Subscriber
                      /\ Current = subscribers[Top.topic][Top.called + 1]
<1>a. publishing \in Seq(Call)
  BY DEF BusInv, BusTypeOK, Call
<1>1. /\ Len(publishing) \in DOMAIN publishing /\ Top \in Call
      /\ DOMAIN publishing = 1 .. Len(publishing) /\ Len(publishing) \in Nat \ {0}
      /\ \A p \in DOMAIN publishing : publishing[p] \in Call
  BY <1>a DEF Top
<1>2. Top.called <= Len(subscribers[Top.topic]) /\ Top.topic \in Topics /\ Top.called \in Nat
  BY <1>1 DEF BusInv, Nested, Top, Call
<1>3. subscribers[Top.topic] \in Seq(Subscriber)
  BY <1>2 DEF BusInv, BusTypeOK, Subscriber
<1>4. ASSUME ~AtEnd PROVE Top.called + 1 \in DOMAIN subscribers[Top.topic]
  BY <1>2, <1>3, <1>4 DEF AtEnd
<1> QED BY <1>1, <1>3, <1>4 DEF Current

(* Moving on to the next callback changes one counter.                     *)
LEMMA CalledFacts ==
  ASSUME BusInv, publishing # <<>>
  PROVE  /\ Called \in Seq(Call) /\ DOMAIN Called = DOMAIN publishing
         /\ Len(Called) = Len(publishing)
         /\ \A p \in DOMAIN publishing :
              /\ Called[p].topic = publishing[p].topic
              /\ Called[p].message = publishing[p].message
              /\ Called[p].within = publishing[p].within
              /\ p # Len(publishing) => Called[p].called = publishing[p].called
         /\ Called[Len(publishing)].called = Top.called + 1
<1>1. publishing \in Seq(Call)
  BY DEF BusInv, BusTypeOK, Call
<1>2. /\ Len(publishing) \in DOMAIN publishing /\ Top = publishing[Len(publishing)]
      /\ Top \in Call
  BY Innermost DEF Top
<1>3. [Top EXCEPT !.called = @ + 1] \in Call
  BY <1>2 DEF Call
<1>4. Called = [publishing EXCEPT ![Len(publishing)] = [Top EXCEPT !.called = @ + 1]]
  BY <1>2 DEF Called
<1>5. \A p \in DOMAIN publishing :
        Called[p] = IF p = Len(publishing) THEN [Top EXCEPT !.called = @ + 1] ELSE publishing[p]
  BY <1>4
<1>6. Called \in Seq(Call) /\ DOMAIN Called = DOMAIN publishing
      /\ Len(Called) = Len(publishing)
  BY <1>1, <1>3, <1>4
<1>7. /\ [Top EXCEPT !.called = @ + 1].topic = Top.topic
      /\ [Top EXCEPT !.called = @ + 1].message = Top.message
      /\ [Top EXCEPT !.called = @ + 1].within = Top.within
      /\ [Top EXCEPT !.called = @ + 1].called = Top.called + 1
  BY <1>2 DEF Call
<1> QED BY <1>2, <1>5, <1>6, <1>7

(* The callbacks of a topic.                                               *)
LEMMA Callbacks ==
  ASSUME BusInv, NEW t \in Topics
  PROVE  /\ subscribers[t] \in Seq(Subscriber)
         /\ Len(subscribers[t]) \in Nat /\ DOMAIN subscribers[t] = 1 .. Len(subscribers[t])
         /\ \A i \in DOMAIN subscribers[t] : subscribers[t][i] \in Subscriber
<1>1. subscribers[t] \in Seq(Subscriber)
  BY DEF BusInv, BusTypeOK, Subscriber
<1> QED BY <1>1

LEMMA Entries ==
  ASSUME BusInv
  PROVE  /\ records \in Seq(Entry) /\ Len(records) \in Nat
         /\ DOMAIN records = 1 .. Len(records)
         /\ \A k \in DOMAIN records : records[k] \in Entry
<1>1. records \in Seq(Entry)
  BY DEF BusInv, BusTypeOK, Entry
<1> QED BY <1>1

-----------------------------------------------------------------------------
(* The actions.                                                            *)

(* Outside any publication only the numbers matter.                        *)
LEMMA NewSubscriber ==
  ASSUME BusInv, NEW topic \in Topics, NEW duty \in Duties, AddSubscriber(topic, duty)
  PROVE  /\ subscribers' \in [Topics -> Seq(Subscriber)] /\ subscriptions' \in Nat
         /\ \A t \in Topics : /\ DOMAIN subscribers[t] \subseteq DOMAIN subscribers'[t]
                             /\ \A i \in DOMAIN subscribers[t] :
                                  subscribers'[t][i] = subscribers[t][i]
         /\ \A t \in Topics : \A i \in DOMAIN subscribers'[t] \ DOMAIN subscribers[t] :
              /\ t = topic /\ i = Len(subscribers[topic]) + 1
              /\ subscribers'[t][i].id = subscriptions + 1
         /\ \A t \in Topics : Len(subscribers[t]) <= Len(subscribers'[t])
<1> DEFINE new == [id |-> subscriptions + 1, duty |-> duty]
<1>1. subscribers \in [Topics -> Seq(Subscriber)] /\ subscriptions \in Nat
  BY DEF BusInv, BusTypeOK, Subscriber
<1>2. new \in Subscriber /\ new.id = subscriptions + 1
  BY <1>1 DEF Subscriber
<1>3. /\ subscribers' = [subscribers EXCEPT ![topic] = Append(subscribers[topic], new)]
      /\ subscriptions' = subscriptions + 1
  BY DEF AddSubscriber, WithCallback, Callback
<1> HIDE DEF new
<1>4. /\ Append(subscribers[topic], new) \in Seq(Subscriber)
      /\ Len(subscribers[topic]) \in Nat
      /\ Len(Append(subscribers[topic], new)) = Len(subscribers[topic]) + 1
      /\ DOMAIN subscribers[topic] = 1 .. Len(subscribers[topic])
      /\ DOMAIN Append(subscribers[topic], new) = 1 .. Len(subscribers[topic]) + 1
      /\ \A i \in DOMAIN subscribers[topic] :
           Append(subscribers[topic], new)[i] = subscribers[topic][i]
      /\ Append(subscribers[topic], new)[Len(subscribers[topic]) + 1] = new
  BY <1>1, <1>2, Appended
<1>5. \A t \in Topics : subscribers'[t] = IF t = topic THEN Append(subscribers[topic], new)
                                          ELSE subscribers[t]
  BY <1>1, <1>3
<1>6. \A t \in Topics : Len(subscribers[t]) \in Nat
  BY Callbacks
<1>7. subscribers' \in [Topics -> Seq(Subscriber)] /\ subscriptions' \in Nat
  BY <1>1, <1>3, <1>4
<1> DEFINE longer == Append(subscribers[topic], new)
<1>a. subscribers'[topic] = longer
  BY <1>5
<1>b. /\ Len(subscribers[topic]) \in Nat /\ Len(longer) = Len(subscribers[topic]) + 1
      /\ DOMAIN subscribers[topic] = 1 .. Len(subscribers[topic])
      /\ DOMAIN longer = 1 .. Len(subscribers[topic]) + 1
      /\ \A i \in DOMAIN subscribers[topic] : longer[i] = subscribers[topic][i]
      /\ longer[Len(subscribers[topic]) + 1] = new
  BY <1>4
<1>c. \A t \in Topics : t # topic => subscribers'[t] = subscribers[t]
  BY <1>5
<1> HIDE DEF longer
<1>8. ASSUME NEW t \in Topics PROVE Len(subscribers[t]) <= Len(subscribers'[t])
  <2>1. CASE t = topic
    BY <1>a, <1>b, <2>1
  <2>2. CASE t # topic
    BY <1>6, <1>c, <2>2
  <2> QED BY <2>1, <2>2
<1>9. ASSUME NEW t \in Topics
      PROVE  /\ DOMAIN subscribers[t] \subseteq DOMAIN subscribers'[t]
             /\ \A i \in DOMAIN subscribers[t] : subscribers'[t][i] = subscribers[t][i]
             /\ \A i \in DOMAIN subscribers'[t] \ DOMAIN subscribers[t] :
                  /\ t = topic /\ i = Len(subscribers[topic]) + 1
                  /\ subscribers'[t][i].id = subscriptions + 1
  <2>1. CASE t = topic
    BY <1>2, <1>a, <1>b, <2>1
  <2>2. CASE t # topic
    BY <1>c, <2>2
  <2> QED BY <2>1, <2>2
<1> QED BY <1>7, <1>8, <1>9

LEMMA NumberedAfterSubscribe ==
  ASSUME BusInv, NEW topic \in Topics, NEW duty \in Duties, AddSubscriber(topic, duty),
         UNCHANGED records, messages' = messages
  PROVE  Numbered'
<1>1. \A t \in Topics : \A i \in DOMAIN subscribers'[t] :
        \/ /\ i \in DOMAIN subscribers[t] /\ subscribers'[t][i] = subscribers[t][i]
           /\ subscribers'[t][i].id <= subscriptions
        \/ /\ t = topic /\ i = Len(subscribers[topic]) + 1
           /\ subscribers'[t][i].id = subscriptions + 1
  BY NewSubscriber DEF BusInv, Numbered
<1>2. subscriptions \in Nat /\ subscriptions' = subscriptions + 1
  BY DEF AddSubscriber, BusInv, BusTypeOK
<1>3. \A t \in Topics : \A i \in DOMAIN subscribers[t] : subscribers[t][i].id \in Nat
  BY Callbacks DEF Subscriber
<1>4. \A t \in Topics : \A i \in DOMAIN subscribers'[t] :
        subscribers'[t][i].id <= subscriptions'
  BY <1>1, <1>2, <1>3
<1>5. ASSUME NEW t \in Topics, NEW i \in DOMAIN subscribers'[t],
             NEW u \in Topics, NEW j \in DOMAIN subscribers'[u],
             subscribers'[t][i].id = subscribers'[u][j].id
      PROVE  t = u /\ i = j
  <2>1. CASE i \in DOMAIN subscribers[t] /\ j \in DOMAIN subscribers[u]
    BY <1>5, <2>1, NewSubscriber DEF BusInv, Numbered
  <2>2. CASE ~(i \in DOMAIN subscribers[t] /\ j \in DOMAIN subscribers[u])
    BY <1>1, <1>2, <1>3, <1>5, <2>2
  <2> QED BY <2>1, <2>2
<1>6. \A k \in DOMAIN records : records[k].by \in Nat
  BY Entries DEF Entry
<1>7. \A k \in DOMAIN records' : records'[k].by <= subscriptions' /\ records'[k].message <= messages'
  BY <1>2, <1>6 DEF BusInv, Numbered
<1> QED BY <1>4, <1>5, <1>7 DEF Numbered

LEMMA SubscribeInv ==
  ASSUME BusInv, NEW topic \in Topics, NEW duty \in Duties, Subscribe(topic, duty)
  PROVE  BusInv'
<1>1. /\ AddSubscriber(topic, duty) /\ UNCHANGED records /\ messages' = messages
      /\ publishing = <<>> /\ publishing' = <<>>
  BY DEF Subscribe
<1>2. subscribers' \in [Topics -> Seq(Subscriber)] /\ subscriptions' \in Nat
  BY <1>1, NewSubscriber
<1>3. BusTypeOK'
  BY <1>1, <1>2 DEF BusInv, BusTypeOK, Subscriber
<1>4. Numbered'
  BY <1>1, NumberedAfterSubscribe
<1>5. Nested' /\ HeardSoFar' /\ OnlyNestedOvertake'
  BY <1>1 DEF BusInv, Nested, HeardSoFar, OnlyNestedOvertake
<1> QED BY <1>3, <1>4, <1>5 DEF BusInv

-----------------------------------------------------------------------------
(* The innermost publication calls a callback.                             *)

(* Lists only grow at their end, by callbacks nobody has numbered yet.     *)
Grown ==
  \A t \in Topics :
    /\ DOMAIN subscribers[t] \subseteq DOMAIN subscribers'[t]
    /\ \A i \in DOMAIN subscribers[t] : subscribers'[t][i] = subscribers[t][i]
    /\ \A i \in DOMAIN subscribers'[t] \ DOMAIN subscribers[t] :
         i \in Nat /\ i > Len(subscribers[t]) /\ subscribers'[t][i].id > subscriptions
    /\ Len(subscribers[t]) <= Len(subscribers'[t])

(* A recorder, and nobody else, adds a record.                             *)
Recorded ==
  \/ UNCHANGED records /\ Current.duty # "record"
  \/ /\ UNCHANGED subscribers /\ Current.duty = "record"
     /\ records' = Append(records, [by |-> Current.id, topic |-> Top.topic,
                                    message |-> Top.message, within |-> Top.within])

LEMMA GrownBySubscribe ==
  ASSUME BusInv, NEW topic \in Topics, NEW duty \in Duties, AddSubscriber(topic, duty)
  PROVE  Grown
<1>1. subscriptions \in Nat
  BY DEF BusInv, BusTypeOK
<1>2. \A t \in Topics : Len(subscribers[t]) \in Nat
  BY Callbacks
<1> QED BY <1>1, <1>2, NewSubscriber DEF Grown

LEMMA GrownByNothing == ASSUME BusInv, UNCHANGED subscribers PROVE Grown
<1>1. \A t \in Topics : Len(subscribers[t]) \in Nat
  BY Callbacks
<1> QED BY <1>1 DEF Grown

(* The record that is added.                                               *)
LEMMA NewRecord ==
  ASSUME BusInv, publishing # <<>>, ~AtEnd, Recorded, Current.duty = "record"
  PROVE  /\ records' \in Seq(Entry) /\ Len(records) + 1 \in DOMAIN records'
         /\ DOMAIN records' = DOMAIN records \cup {Len(records) + 1}
         /\ Len(records) + 1 \notin DOMAIN records
         /\ \A k \in DOMAIN records : records'[k] = records[k]
         /\ records'[Len(records) + 1].by = Current.id
         /\ records'[Len(records) + 1].message = Top.message
         /\ records'[Len(records) + 1].within = Top.within
<1> DEFINE new == [by |-> Current.id, topic |-> Top.topic,
                   message |-> Top.message, within |-> Top.within]
<1>1. Top \in Call /\ Current \in Subscriber
  BY Innermost
<1>2. new \in Entry
  BY <1>1 DEF Call, Subscriber, Entry
<1>3. new.by = Current.id /\ new.message = Top.message /\ new.within = Top.within
  OBVIOUS
<1>4. records' = Append(records, new)
  BY DEF Recorded
<1> HIDE DEF new
<1>5. /\ records \in Seq(Entry) /\ Len(records) \in Nat /\ DOMAIN records = 1 .. Len(records)
  BY Entries
<1>6. /\ Append(records, new) \in Seq(Entry)
      /\ DOMAIN Append(records, new) = 1 .. Len(records) + 1
      /\ \A k \in DOMAIN records : Append(records, new)[k] = records[k]
      /\ Append(records, new)[Len(records) + 1] = new
  BY <1>2, <1>5, Appended
<1>7. /\ 1 .. Len(records) + 1 = (1 .. Len(records)) \cup {Len(records) + 1}
      /\ Len(records) + 1 \notin 1 .. Len(records)
  BY <1>5
<1> QED BY <1>3, <1>4, <1>5, <1>6, <1>7

(* What Nested says of a publication that goes on.                         *)
LEMMA StillNested ==
  ASSUME BusInv, publishing # <<>>, ~AtEnd, Grown, Recorded, NEW p \in DOMAIN publishing
  PROVE  /\ Called[p].called <= Len(subscribers'[publishing[p].topic])
         /\ \A k \in DOMAIN records' :
              publishing[p].message < records'[k].message =>
                publishing[p].message \in records'[k].within
<1>1. /\ publishing[p] \in Call /\ publishing[p].topic \in Topics
      /\ Top = publishing[Len(publishing)] /\ DOMAIN publishing = 1 .. Len(publishing)
      /\ Len(publishing) \in DOMAIN publishing /\ Len(publishing) \in Nat
  BY Innermost DEF Call, Top
<1>2. Called[p].called <= Len(subscribers[publishing[p].topic])
  <2>1. CASE p = Len(publishing)
    <3>1. Called[p].called = Top.called + 1 /\ Top.topic \in Topics
      BY <1>1, <2>1, CalledFacts
    <3>2. /\ Top.called + 1 \in DOMAIN subscribers[Top.topic]
          /\ DOMAIN subscribers[Top.topic] = 1 .. Len(subscribers[Top.topic])
      BY <3>1, Innermost, Callbacks
    <3> QED BY <1>1, <2>1, <3>1, <3>2
  <2>2. CASE p # Len(publishing)
    BY <2>2, CalledFacts DEF BusInv, Nested
  <2> QED BY <2>1, <2>2
<1>3. Called[p].called <= Len(subscribers'[publishing[p].topic])
  <2>a. Called \in Seq(Call) /\ p \in DOMAIN Called
    BY CalledFacts
  <2>b. Called[p] \in Call
    BY <2>a
  <2>1. Called[p].called \in Nat
    BY <2>b DEF Call
  <2>2. /\ Len(subscribers[publishing[p].topic]) \in Nat
        /\ Len(subscribers[publishing[p].topic]) <= Len(subscribers'[publishing[p].topic])
    BY <1>1, Callbacks DEF Grown
  <2> QED BY <1>2, <2>1, <2>2
<1>4. ASSUME NEW k \in DOMAIN records', publishing[p].message < records'[k].message
      PROVE  publishing[p].message \in records'[k].within
  <2>1. CASE Current.duty # "record"
    BY <1>4, <2>1 DEF Recorded, BusInv, Nested
  <2>2. CASE Current.duty = "record" /\ k \in DOMAIN records
    BY <1>4, <2>2, NewRecord DEF BusInv, Nested
  <2>3. CASE Current.duty = "record" /\ k \notin DOMAIN records
    <3>1. /\ records'[k].message = Top.message /\ records'[k].within = Top.within
      BY <2>3, NewRecord
    <3>2. p # Len(publishing)
      BY <1>1, <1>4, <3>1 DEF Call
    <3>3. p < Len(publishing)
      BY <1>1, <3>2
    <3> QED BY <1>1, <3>1, <3>3 DEF BusInv, Nested
  <2> QED BY <2>1, <2>2, <2>3
<1> QED BY <1>3, <1>4

(* What a record that is added changes in what was heard.                  *)
HeardNext(id, message) ==
  {k \in DOMAIN records' : records'[k].by = id /\ records'[k].message = message}

LEMMA HeardMore ==
  ASSUME BusInv, publishing # <<>>, ~AtEnd, Recorded, NEW id, NEW message
  PROVE  /\ ~(Current.duty = "record" /\ id = Current.id /\ message = Top.message) =>
              HeardNext(id, message) = Heard(id, message)
         /\ Current.duty = "record" /\ id = Current.id /\ message = Top.message =>
              HeardNext(id, message) = Heard(id, message) \cup {Len(records) + 1}
         /\ DOMAIN records \subseteq DOMAIN records'
<1>1. CASE Current.duty # "record"
  BY <1>1 DEF Recorded, Heard, HeardNext
<1>2. CASE Current.duty = "record"
  <2>1. /\ DOMAIN records' = DOMAIN records \cup {Len(records) + 1}
        /\ Len(records) + 1 \notin DOMAIN records
        /\ \A k \in DOMAIN records : records'[k] = records[k]
        /\ records'[Len(records) + 1].by = Current.id
        /\ records'[Len(records) + 1].message = Top.message
    BY <1>2, NewRecord
  <2> QED BY <1>2, <2>1 DEF Heard, HeardNext
<1> QED BY <1>1, <1>2

(* What HeardOf says of a publication that goes on.                        *)
LEMMA StillHeard ==
  ASSUME BusInv, publishing # <<>>, ~AtEnd, Grown, Recorded, NEW p \in DOMAIN publishing,
         NEW i \in DOMAIN subscribers'[publishing[p].topic],
         subscribers'[publishing[p].topic][i].duty = "record"
  PROVE  LET heard == HeardNext(subscribers'[publishing[p].topic][i].id, publishing[p].message)
         IN  IF i <= Called[p].called THEN \E k \in DOMAIN records' : heard = {k}
             ELSE heard = {}
<1> DEFINE t == publishing[p].topic
           m == publishing[p].message
<1>1. /\ publishing[p] \in Call /\ t \in Topics /\ m \in Nat /\ publishing[p].called \in Nat
      /\ Top = publishing[Len(publishing)] /\ DOMAIN publishing = 1 .. Len(publishing)
      /\ Len(publishing) \in DOMAIN publishing /\ Len(publishing) \in Nat
  BY Innermost DEF Call, Top
<1>2. /\ Current.id \in Nat /\ Top.message \in Nat /\ Top.called \in Nat
      /\ Top.called + 1 \in DOMAIN subscribers[Top.topic] /\ Top.topic \in Topics
      /\ Current = subscribers[Top.topic][Top.called + 1]
  BY Innermost DEF Call, Subscriber
<1>3. subscriptions \in Nat
  BY DEF BusInv, BusTypeOK
<1>4. /\ Len(subscribers[t]) \in Nat /\ DOMAIN subscribers[t] = 1 .. Len(subscribers[t])
      /\ \A j \in DOMAIN subscribers[t] : subscribers[t][j].id \in Nat
  BY <1>1, Callbacks DEF Subscriber
<1>5. Current.id <= subscriptions
  BY <1>2 DEF BusInv, Numbered
<1>6. CASE i \notin DOMAIN subscribers[t]
  <2> DEFINE id == subscribers'[t][i].id
  <2>1. i > Len(subscribers[t]) /\ id > subscriptions
    BY <1>1, <1>6 DEF Grown
  <2>2. Called[p].called <= Len(subscribers[t])
    <3>1. CASE p = Len(publishing)
      <4>1. Called[p].called = Top.called + 1
        BY <3>1, CalledFacts
      <4>2. Top.topic = t
        BY <1>1, <3>1
      <4> QED BY <1>2, <1>4, <4>1, <4>2
    <3>2. CASE p # Len(publishing)
      BY <3>2, CalledFacts DEF BusInv, Nested
    <3> QED BY <3>1, <3>2
  <2>3. i \in Int /\ Called[p].called \in Nat
    <3>a. Called \in Seq(Call) /\ p \in DOMAIN Called
      BY CalledFacts
    <3>b. Called[p] \in Call
      BY <3>a
    <3>c. Called[p].called \in Nat
      BY <3>b DEF Call
    <3>d. i \in Nat
      BY <1>1, <1>6 DEF Grown
    <3> QED BY <3>c, <3>d
  <2>4. ~(i <= Called[p].called)
    BY <1>4, <2>1, <2>2, <2>3
  <2>5. Heard(id, m) = {}
    <3>1. \A k \in DOMAIN records : records[k].by \in Nat /\ records[k].by <= subscriptions
      BY Entries DEF Entry, BusInv, Numbered
    <3> QED BY <1>3, <2>1, <3>1 DEF Heard
  <2>6. id # Current.id
    BY <1>2, <1>3, <1>5, <2>1
  <2> QED BY <2>4, <2>5, <2>6, HeardMore
<1>7. CASE i \in DOMAIN subscribers[t]
  <2> DEFINE id == subscribers[t][i].id
  <2>1. subscribers'[t][i] = subscribers[t][i] /\ subscribers[t][i].duty = "record"
    BY <1>1, <1>7 DEF Grown
  <2>2. IF i <= publishing[p].called THEN \E k \in DOMAIN records : Heard(id, m) = {k}
        ELSE Heard(id, m) = {}
    BY <1>7, <2>1 DEF BusInv, HeardSoFar, HeardOf
  <2>3. CASE p # Len(publishing)
    <3>1. m < Top.message
      BY <1>1, <2>3 DEF BusInv, Nested
    <3>2. HeardNext(id, m) = Heard(id, m) /\ DOMAIN records \subseteq DOMAIN records'
      BY <1>1, <1>2, <3>1, HeardMore
    <3>3. Called[p].called = publishing[p].called
      BY <2>3, CalledFacts
    <3> QED BY <2>1, <2>2, <3>2, <3>3
  <2>4. CASE p = Len(publishing)
    <3>1. t = Top.topic /\ m = Top.message /\ publishing[p].called = Top.called
          /\ Called[p].called = Top.called + 1
      BY <1>1, <2>4, CalledFacts
    <3>2. CASE i = Top.called + 1
      <4>1. subscribers[t][i] = Current
        BY <1>2, <3>1, <3>2
      <4>2. Heard(id, m) = {}
        BY <1>2, <2>2, <3>1, <3>2
      <4>3. HeardNext(id, m) = {Len(records) + 1}
        BY <2>1, <3>1, <4>1, <4>2, HeardMore
      <4>4. Len(records) + 1 \in DOMAIN records'
        BY <2>1, <4>1, NewRecord
      <4>5. i <= Called[p].called
        BY <1>2, <3>1, <3>2
      <4> QED BY <2>1, <4>3, <4>4, <4>5
    <3>3. CASE i # Top.called + 1
      <4>1. id # Current.id
        BY <1>1, <1>2, <1>7, <3>1, <3>3 DEF BusInv, Numbered
      <4>2. HeardNext(id, m) = Heard(id, m) /\ DOMAIN records \subseteq DOMAIN records'
        BY <4>1, HeardMore
      <4>3. i <= Called[p].called <=> i <= publishing[p].called
        BY <1>2, <1>4, <1>7, <3>1, <3>3
      <4> QED BY <2>1, <2>2, <4>2, <4>3
    <3> QED BY <3>2, <3>3
  <2> QED BY <2>3, <2>4
<1> QED BY <1>6, <1>7

LEMMA StillOvertake ==
  ASSUME BusInv, publishing # <<>>, ~AtEnd, Recorded
  PROVE  OnlyNestedOvertake'
<1> SUFFICES ASSUME NEW i \in DOMAIN records', NEW j \in DOMAIN records',
                    i < j, records'[i].by = records'[j].by,
                    records'[i].message > records'[j].message
             PROVE  records'[j].message \in records'[i].within
  BY DEF OnlyNestedOvertake
<1>1. CASE Current.duty # "record"
  BY <1>1 DEF Recorded, BusInv, OnlyNestedOvertake
<1>2. CASE Current.duty = "record"
  <2>1. /\ DOMAIN records' = DOMAIN records \cup {Len(records) + 1}
        /\ \A k \in DOMAIN records : records'[k] = records[k]
        /\ records'[Len(records) + 1].message = Top.message
        /\ DOMAIN records = 1 .. Len(records) /\ Len(records) \in Nat
    BY <1>2, NewRecord, Entries
  <2>2. i \in DOMAIN records
    BY <2>1
  <2>3. CASE j \in DOMAIN records
    BY <2>1, <2>2, <2>3 DEF BusInv, OnlyNestedOvertake
  <2>4. CASE j = Len(records) + 1
    <3>1. /\ Top = publishing[Len(publishing)] /\ Len(publishing) \in DOMAIN publishing
          /\ Top.message \in Nat /\ records[i].message \in Nat
      BY <2>2, Innermost, Entries DEF Top, Call, Entry
    <3>2. Top.message < records[i].message
      BY <2>1, <2>2, <2>4, <3>1
    <3> QED BY <2>1, <2>2, <2>4, <3>1, <3>2 DEF BusInv, Nested
  <2> QED BY <2>1, <2>3, <2>4
<1> QED BY <1>1, <1>2

(* A callback that does not publish.                                       *)
LEMMA CalledInv ==
  ASSUME BusInv, publishing # <<>>, ~AtEnd, Grown, Recorded, publishing' = Called,
         messages' = messages, BusTypeOK', Numbered'
  PROVE  BusInv'
<1>1. /\ DOMAIN publishing' = DOMAIN publishing
      /\ \A p \in DOMAIN publishing : /\ publishing'[p].topic = publishing[p].topic
                                      /\ publishing'[p].message = publishing[p].message
                                      /\ publishing'[p].within = publishing[p].within
                                      /\ publishing'[p] = Called[p]
  BY CalledFacts
<1>2. Nested'
  <2> SUFFICES ASSUME NEW p \in DOMAIN publishing
               PROVE  /\ publishing'[p].message <= messages'
                      /\ publishing'[p].called <= Len(subscribers'[publishing'[p].topic])
                      /\ \A q \in DOMAIN publishing :
                           q < p => /\ publishing'[q].message < publishing'[p].message
                                    /\ publishing'[q].message \in publishing'[p].within
                      /\ \A k \in DOMAIN records' :
                           publishing'[p].message < records'[k].message =>
                             publishing'[p].message \in records'[k].within
    BY <1>1 DEF Nested
  <2> QED BY <1>1, StillNested DEF BusInv, Nested
<1>3. HeardSoFar'
  BY <1>1, StillHeard DEF HeardSoFar, HeardOf, Heard, HeardNext
<1> QED BY <1>2, <1>3, StillOvertake DEF BusInv

LEMMA RecordInv == ASSUME BusInv, Record PROVE BusInv'
<1>1. /\ publishing # <<>> /\ ~AtEnd /\ Current.duty = "record" /\ publishing' = Called
      /\ UNCHANGED <<subscribers, subscriptions>> /\ messages' = messages /\ Recorded
  BY DEF Record, Calls, Recorded, Add
<1>2. BusTypeOK'
  BY <1>1, NewRecord, CalledFacts DEF BusInv, BusTypeOK, Entry, Call
<1>3. Current.id <= subscriptions /\ Top.message <= messages
  BY <1>1, Innermost DEF BusInv, Numbered, Nested, Top, Call
<1>4. Numbered'
  BY <1>1, <1>3, NewRecord DEF BusInv, Numbered
<1> QED BY <1>1, <1>2, <1>4, GrownByNothing, CalledInv

LEMMA SubscribeInsideInv == ASSUME BusInv, SubscribeInside PROVE BusInv'
<1>1. /\ publishing # <<>> /\ ~AtEnd /\ publishing' = Called
      /\ UNCHANGED records /\ messages' = messages /\ Recorded
  BY DEF SubscribeInside, Calls, Recorded
<1>2. CASE UNCHANGED <<subscribers, subscriptions>>
  <2>1. BusTypeOK'
    BY <1>1, <1>2, CalledFacts DEF BusInv, BusTypeOK, Call
  <2>2. Numbered'
    BY <1>1, <1>2 DEF BusInv, Numbered
  <2> QED BY <1>1, <1>2, <2>1, <2>2, GrownByNothing, CalledInv
<1>3. ASSUME NEW topic \in Topics, AddSubscriber(topic, "record") PROVE BusInv'
  <2>1. "record" \in Duties
    BY DEF Duties
  <2>2. Grown /\ Numbered'
    BY <1>1, <1>3, <2>1, GrownBySubscribe, NumberedAfterSubscribe
  <2>3. subscribers' \in [Topics -> Seq(Subscriber)] /\ subscriptions' \in Nat
    BY <1>3, <2>1, NewSubscriber
  <2>4. BusTypeOK'
    BY <1>1, <2>3, CalledFacts DEF BusInv, BusTypeOK, Call, Subscriber
  <2> QED BY <1>1, <2>2, <2>4, CalledInv
<1> QED BY <1>2, <1>3 DEF SubscribeInside

-----------------------------------------------------------------------------
(* Publications begin and end.                                             *)

(* A new publication has a number nobody has recorded.                     *)
LEMMA NewPublication ==
  ASSUME BusInv, NEW topic \in Topics
  PROVE  LET new == Publication(topic)
         IN  /\ new \in Call /\ new.topic = topic /\ new.called = 0
             /\ new.message = messages + 1 /\ messages \in Nat
             /\ \A p \in DOMAIN publishing :
                  /\ publishing[p].message \in Nat /\ publishing[p].message < new.message
                  /\ publishing[p].message \in new.within
             /\ \A k \in DOMAIN records :
                  ~(new.message < records[k].message) /\ records[k].message # new.message
<1>1. /\ publishing \in Seq(Call) /\ messages \in Nat
      /\ \A p \in DOMAIN publishing : publishing[p].message <= messages
  BY DEF BusInv, BusTypeOK, Nested, Call
<1>a. \A p \in DOMAIN publishing : publishing[p] \in Call
  BY <1>1
<1>2. \A p \in DOMAIN publishing : publishing[p].message \in Nat
  BY <1>a DEF Call
<1>3. \A k \in DOMAIN records : records[k].message \in Nat /\ records[k].message <= messages
  BY Entries DEF Entry, BusInv, Numbered
<1> QED BY <1>1, <1>2, <1>3 DEF Publication, Call

LEMMA PublishInv ==
  ASSUME BusInv, NEW topic \in Topics, Publish(topic) PROVE BusInv'
<1> DEFINE new == Publication(topic)
<1>1. /\ publishing' = <<new>> /\ messages' = messages + 1
      /\ UNCHANGED <<subscribers, records, subscriptions>>
  BY DEF Publish
<1>2. /\ new \in Call /\ new.topic = topic /\ new.called = 0
      /\ new.message = messages + 1 /\ messages \in Nat
      /\ \A k \in DOMAIN records :
           ~(new.message < records[k].message) /\ records[k].message # new.message
  BY NewPublication
<1> HIDE DEF new
<1>3. publishing' \in Seq(Call) /\ DOMAIN publishing' = {1} /\ publishing'[1] = new
  BY <1>1, <1>2
<1>4. BusTypeOK'
  BY <1>1, <1>2, <1>3 DEF BusInv, BusTypeOK, Call
<1>5. Numbered' /\ OnlyNestedOvertake'
  <2>1. \A k \in DOMAIN records : records[k].message \in Nat
    BY Entries DEF Entry
  <2> QED BY <1>1, <1>2, <2>1 DEF BusInv, Numbered, OnlyNestedOvertake
<1>6. Len(subscribers[topic]) \in Nat /\ DOMAIN subscribers[topic] = 1 .. Len(subscribers[topic])
  BY Callbacks
<1>7. Nested'
  BY <1>1, <1>2, <1>3, <1>6 DEF Nested
<1>8. \A id : Heard(id, new.message) = {}
  BY <1>2 DEF Heard
<1>9. HeardSoFar'
  BY <1>1, <1>2, <1>3, <1>6, <1>8 DEF HeardSoFar, HeardOf, Heard
<1> QED BY <1>4, <1>5, <1>7, <1>9 DEF BusInv

LEMMA PublishInsideInv == ASSUME BusInv, PublishInside PROVE BusInv'
<1>1. /\ publishing # <<>> /\ ~AtEnd /\ Current.duty = "publish"
      /\ UNCHANGED <<subscribers, records, subscriptions>> /\ Recorded /\ Grown
  BY GrownByNothing DEF PublishInside, Calls, Recorded
<1>2. CASE publishing' = Called /\ UNCHANGED messages
  <2>1. BusTypeOK'
    BY <1>1, <1>2, CalledFacts DEF BusInv, BusTypeOK, Call
  <2>2. Numbered'
    BY <1>1, <1>2 DEF BusInv, Numbered
  <2> QED BY <1>1, <1>2, <2>1, <2>2, CalledInv
<1>3. ASSUME NEW topic \in Topics, publishing' = Append(Called, Publication(topic)),
             messages' = messages + 1
      PROVE  BusInv'
  <2> DEFINE new == Publication(topic)
             last == Len(publishing) + 1
  <2>1. /\ new \in Call /\ new.topic = topic /\ new.called = 0
        /\ new.message = messages + 1 /\ messages \in Nat
        /\ \A p \in DOMAIN publishing :
             /\ publishing[p].message \in Nat /\ publishing[p].message < new.message
             /\ publishing[p].message \in new.within
        /\ \A k \in DOMAIN records :
             ~(new.message < records[k].message) /\ records[k].message # new.message
    BY NewPublication
  <2> HIDE DEF new
  <2>2. publishing' = Append(Called, new)
    BY <1>3 DEF new
  <2>3. /\ Called \in Seq(Call) /\ Len(Called) = Len(publishing)
        /\ DOMAIN Called = DOMAIN publishing
    BY <1>1, CalledFacts
  <2>4. /\ publishing' \in Seq(Call) /\ Len(publishing) \in Nat
        /\ DOMAIN publishing = 1 .. Len(publishing) /\ DOMAIN publishing' = 1 .. last
        /\ \A p \in DOMAIN publishing : publishing'[p] = Called[p]
        /\ publishing'[last] = new
    BY <2>1, <2>2, <2>3, Appended
  <2>5. /\ DOMAIN publishing' = DOMAIN publishing \cup {last}
        /\ \A p \in DOMAIN publishing' : p # last => p \in DOMAIN publishing /\ p < last
        /\ last \in DOMAIN publishing' /\ last \in Nat
    BY <2>4
  <2>6. \A p \in DOMAIN publishing :
          /\ publishing'[p].topic = publishing[p].topic
          /\ publishing'[p].message = publishing[p].message
          /\ publishing'[p].within = publishing[p].within
          /\ publishing'[p].called = Called[p].called
    BY <1>1, <2>4, CalledFacts
  <2>7. BusTypeOK'
    BY <1>1, <1>3, <2>1, <2>4 DEF BusInv, BusTypeOK, Call
  <2>8. Numbered' /\ OnlyNestedOvertake'
    <3>1. \A k \in DOMAIN records : records[k].message \in Nat
      BY Entries DEF Entry
    <3> QED BY <1>1, <1>3, <2>1, <3>1 DEF BusInv, Numbered, OnlyNestedOvertake
  <2>9. Len(subscribers[topic]) \in Nat /\ DOMAIN subscribers[topic] = 1 .. Len(subscribers[topic])
    BY Callbacks
  <2> HIDE DEF last
  <2>10. Nested'
    <3> SUFFICES ASSUME NEW p \in DOMAIN publishing'
                 PROVE  /\ publishing'[p].message <= messages'
                        /\ publishing'[p].called <= Len(subscribers'[publishing'[p].topic])
                        /\ \A q \in DOMAIN publishing' :
                             q < p => /\ publishing'[q].message < publishing'[p].message
                                      /\ publishing'[q].message \in publishing'[p].within
                        /\ \A k \in DOMAIN records' :
                             publishing'[p].message < records'[k].message =>
                               publishing'[p].message \in records'[k].within
      BY DEF Nested
    <3>1. CASE p = last
      BY <1>1, <1>3, <2>1, <2>4, <2>5, <2>6, <2>9, <3>1
    <3>2. CASE p # last
      <4>1. p \in DOMAIN publishing /\ p \in Nat /\ p < last
        BY <2>4, <2>5, <3>2
      <4>2. publishing'[p].message <= messages'
        BY <1>3, <2>1, <2>6, <4>1
      <4>3. /\ publishing'[p].called <= Len(subscribers'[publishing'[p].topic])
            /\ \A k \in DOMAIN records' :
                 publishing'[p].message < records'[k].message =>
                   publishing'[p].message \in records'[k].within
        BY <1>1, <2>6, <4>1, StillNested
      <4>4. \A q \in DOMAIN publishing' : q < p => q \in DOMAIN publishing
        BY <2>5, <4>1
      <4>5. \A q \in DOMAIN publishing :
              q < p => /\ publishing[q].message < publishing[p].message
                       /\ publishing[q].message \in publishing[p].within
        BY <4>1 DEF BusInv, Nested
      <4> QED BY <2>6, <4>1, <4>2, <4>3, <4>4, <4>5
    <3> QED BY <3>1, <3>2
  <2>11. HeardSoFar'
    <3> SUFFICES ASSUME NEW p \in DOMAIN publishing' PROVE HeardOf(p)'
      BY DEF HeardSoFar
    <3>1. CASE p = last
      <4>1. \A id : HeardNext(id, new.message) = {}
        BY <1>1, <2>1 DEF HeardNext
      <4>2. /\ publishing'[p] = new /\ subscribers' = subscribers
            /\ \A i \in DOMAIN subscribers[topic] : ~(i <= 0)
        BY <1>1, <2>4, <2>9, <3>1
      <4> QED BY <2>1, <4>1, <4>2 DEF HeardOf, Heard, HeardNext
    <3>2. CASE p # last
      <4>1. p \in DOMAIN publishing
        BY <2>5, <3>2
      <4> QED BY <1>1, <2>6, <4>1, StillHeard DEF HeardOf, Heard, HeardNext
    <3> QED BY <3>1, <3>2
  <2> QED BY <2>7, <2>8, <2>10, <2>11 DEF BusInv
<1> QED BY <1>2, <1>3 DEF PublishInside

LEMMA RaiseInv == ASSUME BusInv, Raise PROVE BusInv'
<1>1. publishing' = <<>> /\ UNCHANGED <<subscribers, records, subscriptions, messages>>
  BY DEF Raise
<1>2. BusTypeOK'
  <2>1. publishing' \in Seq(Call)
    BY <1>1
  <2> QED BY <1>1, <2>1 DEF BusInv, BusTypeOK, Call
<1>3. Numbered'
  BY <1>1 DEF BusInv, Numbered
<1>4. Nested' /\ HeardSoFar'
  BY <1>1 DEF Nested, HeardSoFar
<1>5. OnlyNestedOvertake'
  BY <1>1 DEF BusInv, OnlyNestedOvertake
<1> QED BY <1>2, <1>3, <1>4, <1>5 DEF BusInv

LEMMA ReturnInv == ASSUME BusInv, Return PROVE BusInv'
<1>1. /\ publishing # <<>> /\ publishing' = SubSeq(publishing, 1, Len(publishing) - 1)
      /\ UNCHANGED <<subscribers, records, subscriptions, messages>>
  BY DEF Return
<1>2. publishing \in Seq(Call)
  BY DEF BusInv, BusTypeOK, Call
<1>3. /\ publishing' \in Seq(Call) /\ DOMAIN publishing' \subseteq DOMAIN publishing
      /\ \A p \in DOMAIN publishing' : publishing'[p] = publishing[p]
  BY <1>1, <1>2, Shortened
<1>4. BusTypeOK' /\ Numbered' /\ OnlyNestedOvertake'
  <2>1. BusTypeOK'
    BY <1>1, <1>3 DEF BusInv, BusTypeOK, Call
  <2>2. Numbered'
    BY <1>1 DEF BusInv, Numbered
  <2>3. OnlyNestedOvertake'
    BY <1>1 DEF BusInv, OnlyNestedOvertake
  <2> QED BY <2>1, <2>2, <2>3
<1>5. Nested'
  BY <1>1, <1>3 DEF BusInv, Nested
<1>6. HeardSoFar'
  BY <1>1, <1>3 DEF BusInv, HeardSoFar, HeardOf, Heard
<1> QED BY <1>4, <1>5, <1>6 DEF BusInv

LEMMA NextInv == ASSUME BusInv, [Next]_vars PROVE BusInv'
<1>1. ASSUME NEW topic \in Topics, NEW duty \in Duties, Subscribe(topic, duty) PROVE BusInv'
  BY <1>1, SubscribeInv
<1>2. ASSUME NEW topic \in Topics, Publish(topic) PROVE BusInv'
  BY <1>2, PublishInv
<1>3. CASE PublishStep
  BY <1>3, RecordInv, SubscribeInsideInv, PublishInsideInv, RaiseInv, ReturnInv DEF PublishStep
<1>4. CASE UNCHANGED vars
  <2>1. BusTypeOK'
    BY <1>4 DEF vars, BusInv, BusTypeOK
  <2>2. Numbered' /\ Nested' /\ OnlyNestedOvertake'
    BY <1>4 DEF vars, BusInv, Numbered, Nested, OnlyNestedOvertake
  <2>3. HeardSoFar'
    BY <1>4 DEF vars, BusInv, HeardSoFar, HeardOf, Heard
  <2> QED BY <2>1, <2>2, <2>3 DEF BusInv
<1> QED BY <1>1, <1>2, <1>3, <1>4 DEF Next

-----------------------------------------------------------------------------
(* Every publication keeps its place in the nesting, and the recorders it  *)
(* has called have its message, however the lists grow meanwhile.          *)
THEOREM BusInductive == Spec => []BusInv
<1>1. BusInv /\ [Next]_vars => BusInv'
  BY NextInv
<1> QED BY InitInv, <1>1, PTL DEF Spec

(* When publish is about to return, every recorder on the list has the     *)
(* message exactly once (the loop of publish over the live list).          *)
THEOREM HeardOnce == Spec => []EveryoneHearsOnce
<1>1. BusInv => EveryoneHearsOnce
  <2> SUFFICES ASSUME BusInv, publishing # <<>>, AtEnd,
                      NEW i \in DOMAIN subscribers[Top.topic],
                      subscribers[Top.topic][i].duty = "record"
               PROVE  \E k \in DOMAIN records :
                        Heard(subscribers[Top.topic][i].id, Top.message) = {k}
    BY DEF EveryoneHearsOnce
  <2>1. /\ Len(publishing) \in DOMAIN publishing /\ Top = publishing[Len(publishing)]
        /\ Top.topic \in Topics
    BY Innermost DEF Top, Call
  <2>2. i <= publishing[Len(publishing)].called
    BY <2>1, Callbacks DEF AtEnd
  <2> QED BY <2>1, <2>2 DEF BusInv, HeardSoFar, HeardOf
<1> QED BY <1>1, BusInductive, PTL

(* Only a message published from within the publication of an earlier one  *)
(* reaches a recorder before it (the nested calls of publish).             *)
THEOREM InOrderButForNested == Spec => []OnlyNestedOvertake
<1>1. BusInv => OnlyNestedOvertake
  BY DEF BusInv
<1> QED BY <1>1, BusInductive, PTL

(* Whatever was recorded, a query with a positive limit returns the latest *)
(* records, as many as it asks for (records[-limit:]).                     *)
THEOREM RecentQuery == Spec => []QueryIsRecent
<1>1. BusInv => QueryIsRecent
  <2> SUFFICES ASSUME BusInv, NEW limit \in 1 .. MaxMessages + 1
               PROVE  LET recent == Query(records, limit)
                      IN  /\ Len(recent) = (IF limit < Len(records) THEN limit ELSE Len(records))
                          /\ \A k \in 0 .. Len(recent) - 1 :
                               recent[Len(recent) - k] = records[Len(records) - k]
    BY DEF QueryIsRecent
  <2>1. limit \in Nat /\ limit >= 1 /\ records \in Seq(Entry) /\ Len(records) \in Nat
    BY BusAssumption, Entries
  <2>2. CASE limit < Len(records)
    <3>a. /\ -limit < 0 /\ ~(-limit + Len(records) < 0)
          /\ 1 + (-limit + Len(records)) = 1 + Len(records) - limit
      BY <2>1, <2>2
    <3>1. Query(records, limit) = SubSeq(records, 1 + Len(records) - limit, Len(records))
      BY <3>a, Zenon DEF Query, SliceFrom
    <3> QED BY <2>1, <2>2, <3>1
  <2>3. CASE ~(limit < Len(records))
    <3>a. -limit < 0 /\ -limit + Len(records) <= 0
      BY <2>1, <2>3
    <3>b. -limit + Len(records) < 0 \/ -limit + Len(records) = 0
      BY <2>1, <3>a
    <3>c. 1 + 0 = 1
      OBVIOUS
    <3>1. Query(records, limit) = SubSeq(records, 1, Len(records))
      BY <3>a, <3>b, <3>c, Zenon DEF Query, SliceFrom
    <3> QED BY <2>1, <2>3, <3>1
  <2> QED BY <2>2, <2>3
<1> QED BY <1>1, BusInductive, PTL
=============================================================================
