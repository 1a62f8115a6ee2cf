------------------------------- MODULE EventBus -------------------------------
(***************************************************************************)
(* EventBus of services/bus.  publish calls the subscribers of a topic one *)
(* after the other while it iterates over the live list, in the thread of  *)
(* the publisher.  A callback may record the message in a MemoryStore,     *)
(* subscribe a recorder, publish in its turn, or raise; so publications    *)
(* nest, and the list may grow under the loop that walks it.               *)
(***************************************************************************)
EXTENDS MemoryStore

CONSTANTS
  Topics,
  MaxSubscribers,   \* bound: subscriptions in a behaviour
  MaxMessages       \* bound: messages published in a behaviour

ASSUME BusAssumption == MaxSubscribers \in Nat /\ MaxMessages \in Nat

Duties == {"record", "subscribe", "publish", "raise"}

VARIABLES
  subscribers,   \* the callbacks of each topic, in the order of subscription
  publishing,    \* calls of publish in progress, the innermost last
  records,       \* what the recorders put into the store
  subscriptions, messages   \* subscribe and publish calls so far

vars == <<subscribers, publishing, records, subscriptions, messages>>

Init ==
  /\ subscribers = [topic \in Topics |-> <<>>]
  /\ publishing = <<>>
  /\ records = <<>>
  /\ subscriptions = 0 /\ messages = 0

Callback(duty) == [id |-> subscriptions + 1, duty |-> duty]

\* Mutant of WithCallback: the newest subscriber comes first.
WithCallbackFirst(callbacks, callback) == <<callback>> \o callbacks
WithCallback(callbacks, callback) == Append(callbacks, callback)

AddSubscriber(topic, duty) ==
  /\ subscribers' = [subscribers EXCEPT ![topic] = WithCallback(@, Callback(duty))]
  /\ subscriptions' = subscriptions + 1

Subscribe(topic, duty) ==
  /\ publishing = <<>>
  /\ subscriptions < MaxSubscribers
  /\ AddSubscriber(topic, duty)
  /\ UNCHANGED <<publishing, records, messages>>

(* A call of publish: its message, numbered, with the messages during      *)
(* whose publication it was published, and the callbacks called so far.    *)
Publication(topic) ==
  [topic |-> topic, called |-> 0, message |-> messages + 1,
   within |-> {publishing[i].message : i \in DOMAIN publishing}]

\* Mutant of Publish: it does not wait for the publication in progress.
PublishConcurrently(topic) ==
  /\ messages < MaxMessages
  /\ publishing' = Append(publishing, [Publication(topic) EXCEPT !.within = {}])
  /\ messages' = messages + 1
  /\ UNCHANGED <<subscribers, records, subscriptions>>

Publish(topic) ==
  /\ publishing = <<>>
  /\ messages < MaxMessages
  /\ publishing' = <<Publication(topic)>>
  /\ messages' = messages + 1
  /\ UNCHANGED <<subscribers, records, subscriptions>>

-----------------------------------------------------------------------------
(* The loop of the innermost publish.                                      *)

Top == publishing[Len(publishing)]
AtEnd == Top.called = Len(subscribers[Top.topic])
Current == subscribers[Top.topic][Top.called + 1]
Called == [publishing EXCEPT ![Len(publishing)].called = @ + 1]

Calls(duty) == publishing # <<>> /\ ~AtEnd /\ Current.duty = duty

Record ==
  /\ Calls("record")
  /\ records' = Add(records, [by |-> Current.id, topic |-> Top.topic,
                              message |-> Top.message, within |-> Top.within])
  /\ publishing' = Called
  /\ UNCHANGED <<subscribers, subscriptions, messages>>

(* A callback that has subscribed, or below published, as often as the     *)
(* bound allows does nothing.                                              *)
SubscribeInside ==
  /\ Calls("subscribe")
  /\ IF subscriptions < MaxSubscribers
     THEN \E topic \in Topics : AddSubscriber(topic, "record")
     ELSE UNCHANGED <<subscribers, subscriptions>>
  /\ publishing' = Called
  /\ UNCHANGED <<records, messages>>

PublishInside ==
  /\ Calls("publish")
  /\ IF messages < MaxMessages
     THEN /\ \E topic \in Topics : publishing' = Append(Called, Publication(topic))
          /\ messages' = messages + 1
     ELSE publishing' = Called /\ UNCHANGED messages
  /\ UNCHANGED <<subscribers, records, subscriptions>>

(* No publish catches: the exception ends all of them.                     *)
Raise ==
  /\ Calls("raise")
  /\ publishing' = <<>>
  /\ UNCHANGED <<subscribers, records, subscriptions, messages>>

Return ==
  /\ publishing # <<>> /\ AtEnd
  /\ publishing' = SubSeq(publishing, 1, Len(publishing) - 1)
  /\ UNCHANGED <<subscribers, records, subscriptions, messages>>

PublishStep == Record \/ SubscribeInside \/ PublishInside \/ Raise \/ Return

Next ==
  \/ \E topic \in Topics, duty \in Duties : Subscribe(topic, duty)
  \/ \E topic \in Topics : Publish(topic)
  \/ PublishStep

Spec == Init /\ [][Next]_vars

-----------------------------------------------------------------------------
(* The type of every variable.                                             *)
BusTypeOK ==
  /\ subscribers \in [Topics -> Seq([id : Nat, duty : Duties])]
  /\ publishing \in Seq([topic : Topics, called : Nat, message : Nat, within : SUBSET Nat])
  /\ records \in Seq([by : Nat, topic : Topics, message : Nat, within : SUBSET Nat])
  /\ subscriptions \in Nat /\ messages \in Nat

Heard(id, message) ==
  {k \in DOMAIN records : records[k].by = id /\ records[k].message = message}

(* When publish is about to return, every recorder subscribed to the topic *)
(* has the message exactly once, those included that a callback subscribed *)
(* during this publication or one nested in it.                            *)
EveryoneHearsOnce ==
  publishing # <<>> /\ AtEnd =>
    \A i \in DOMAIN subscribers[Top.topic] :
      LET callback == subscribers[Top.topic][i]
      IN  callback.duty = "record" =>
            \E k \in DOMAIN records : Heard(callback.id, Top.message) = {k}

(* A recorder hears the messages of a topic in the order in which they     *)
(* were published, but for those published by a callback in the middle of  *)
(* another publication, which overtake it.                                 *)
OnlyNestedOvertake ==
  \A i, j \in DOMAIN records :
    /\ i < j /\ records[i].by = records[j].by
    /\ records[i].message > records[j].message
    => records[j].message \in records[i].within

(* For a positive limit the store returns that many records, or all there  *)
(* are: the latest, the oldest of them first.                              *)
QueryIsRecent ==
  \A limit \in 1 .. MaxMessages + 1 :
    LET recent == Query(records, limit)
    IN  /\ Len(recent) = (IF limit < Len(records) THEN limit ELSE Len(records))
        /\ \A k \in 0 .. Len(recent) - 1 :
             recent[Len(recent) - k] = records[Len(records) - k]
-----------------------------------------------------------------------------
(* The inductive invariant of the proofs.                                  *)

(* What is counted bounds what is numbered, and no two callbacks have the  *)
(* same number.                                                            *)
Numbered ==
  /\ \A t \in Topics : \A i \in DOMAIN subscribers[t] :
       /\ subscribers[t][i].id <= subscriptions
       /\ \A u \in Topics : \A j \in DOMAIN subscribers[u] :
            subscribers[t][i].id = subscribers[u][j].id => t = u /\ i = j
  /\ \A k \in DOMAIN records :
       records[k].by <= subscriptions /\ records[k].message <= messages

(* A publication in progress is nested in those before it; a record of a   *)
(* later message was made within it.                                       *)
Nested ==
  \A p \in DOMAIN publishing :
    /\ publishing[p].message <= messages
    /\ publishing[p].called <= Len(subscribers[publishing[p].topic])
    /\ \A q \in DOMAIN publishing :
         q < p => /\ publishing[q].message < publishing[p].message
                  /\ publishing[q].message \in publishing[p].within
    /\ \A k \in DOMAIN records :
         publishing[p].message < records[k].message =>
           publishing[p].message \in records[k].within

(* The recorders a publication has called have its message once, those it  *)
(* has not called do not have it.                                          *)
HeardOf(p) ==
  \A i \in DOMAIN subscribers[publishing[p].topic] :
    LET callback == subscribers[publishing[p].topic][i]
        heard    == Heard(callback.id, publishing[p].message)
    IN  callback.duty = "record" =>
          IF i <= publishing[p].called THEN \E k \in DOMAIN records : heard = {k}
          ELSE heard = {}
HeardSoFar == \A p \in DOMAIN publishing : HeardOf(p)

BusInv == BusTypeOK /\ Numbered /\ Nested /\ HeardSoFar /\ OnlyNestedOvertake
=============================================================================
