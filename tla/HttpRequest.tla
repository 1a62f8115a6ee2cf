----------------------------- MODULE HttpRequest -----------------------------
(***************************************************************************)
(* HIDHttpApi::handleClient for one connection.  The request is a stream   *)
(* of units that recv returns in segments cut anywhere: head units, the    *)
(* last of which completes the blank line, then the fields of the body.    *)
(* The client may declare any length, send less or more than it declares,  *)
(* and close or reset at any time.  A body is the sequence of its YAML     *)
(* lines, of which only complete ones are considered.                      *)
(***************************************************************************)
EXTENDS Integers, Sequences, SequencesExt

CONSTANTS
  Requests,    \* requests a client may send
  Malformed,   \* a Content-Length that is no number
  Buffer       \* units one recv returns at most

\* GET /healthz, POST /hid/text, POST /hid/click, POST /hid/move, any other.
Endpoint == {"healthz", "hidText", "hidClick", "hidMove", "other"}
\* "right" and "unnamed" are button lines, with a known and an unknown name.
Line == {"text", "x", "y", "right", "unnamed"}

ASSUME RequestAssumption ==
  /\ \A r \in Requests : /\ r.endpoint \in Endpoint /\ r.head \in Nat \ {0}
                         /\ r.lengths \in Seq(Nat \cup {Malformed})
                         /\ r.body \in Seq(Line)
  /\ Buffer \in Nat \ {0}

(* The last Content-Length header wins; a malformed one counts as zero.    *)
ContentLength(lengths) ==
  IF lengths = <<>> \/ Last(lengths) = Malformed THEN 0 ELSE Last(lengths)

VARIABLES
  request,   \* what the client set out to send
  client,    \* "open", "closed" (its end of the stream) or "reset"
  sent,      \* units sent
  phase,     \* position in handleClient
  got,       \* units received
  body,      \* the variable body, from the blank line on
  cut,       \* recv has reported the end of the stream
  calls,     \* calls made on the HID server
  status,    \* status of the response being sent, 0 before
  answers    \* statuses of the responses sent

clientVars == <<request, client, sent>>
vars == <<clientVars, phase, got, body, cut, calls, status, answers>>

Total == request.head + Len(request.body)
Declared == ContentLength(request.lengths)

Init ==
  /\ request \in Requests
  /\ client = "open" /\ sent = 0
  /\ phase = "head" /\ got = 0 /\ body = <<>> /\ cut = FALSE
  /\ calls = <<>> /\ status = 0 /\ answers = <<>>

-----------------------------------------------------------------------------
(* The client.                                                             *)

ClientSends ==
  /\ client = "open" /\ sent < Total
  /\ sent' \in sent + 1 .. Total
  /\ UNCHANGED <<request, client, phase, got, body, cut, calls, status, answers>>

ClientEnds ==
  /\ \/ client = "open" /\ client' = "closed"
     \/ client # "reset" /\ client' = "reset"
  /\ UNCHANGED <<request, sent, phase, got, body, cut, calls, status, answers>>

-----------------------------------------------------------------------------
(* recv: some of what has arrived, or the end of the stream.  A reset may  *)
(* be reported before what arrived is read.                                *)

Received == {n \in got + 1 .. sent : n <= got + Buffer}
AtEnd == client = "reset" \/ (client = "closed" /\ got = sent)
BodyUpTo(n) == SubSeq(request.body, 1, n - request.head)

\* Mutant of ReceiveHead: the blank line is looked for in the segment only.
ReceiveWholeHead ==
  /\ phase = "head"
  /\ got' \in Received
  /\ IF got = 0 /\ got' >= request.head
     THEN phase' = "body" /\ body' = BodyUpTo(got')
     ELSE UNCHANGED <<phase, body>>
  /\ UNCHANGED <<clientVars, cut, calls, status, answers>>

(* The blank line is looked for in all the data received so far; what      *)
(* follows it is the start of the body.                                    *)
ReceiveHead ==
  /\ phase = "head"
  /\ got' \in Received
  /\ IF got' >= request.head
     THEN phase' = "body" /\ body' = BodyUpTo(got')
     ELSE UNCHANGED <<phase, body>>
  /\ UNCHANGED <<clientVars, cut, calls, status, answers>>

HeadCut ==
  /\ phase = "head" /\ AtEnd
  /\ cut' = TRUE /\ phase' = "close"
  /\ UNCHANGED <<clientVars, got, body, calls, status, answers>>

\* Mutant of ReceiveBody: one more recv is enough.
ReceiveBodyOnce ==
  /\ phase = "body" /\ Len(body) < Declared
  /\ got' \in Received
  /\ body' = BodyUpTo(got')
  /\ phase' = "dispatch"
  /\ UNCHANGED <<clientVars, cut, calls, status, answers>>

ReceiveBody ==
  /\ phase = "body" /\ Len(body) < Declared
  /\ got' \in Received
  /\ body' = BodyUpTo(got')
  /\ UNCHANGED <<clientVars, phase, cut, calls, status, answers>>

\* Mutant of BodyCut: only an error of recv leaves the loop, not its 0.
BodyCutByError ==
  /\ phase = "body" /\ Len(body) < Declared /\ client = "reset"
  /\ cut' = TRUE /\ phase' = "dispatch"
  /\ UNCHANGED <<clientVars, got, body, calls, status, answers>>

(* The end of the stream leaves the loop with what there is.               *)
BodyCut ==
  /\ phase = "body" /\ Len(body) < Declared /\ AtEnd
  /\ cut' = TRUE /\ phase' = "dispatch"
  /\ UNCHANGED <<clientVars, got, body, calls, status, answers>>

\* Mutant of BodyComplete: the declared length is not looked at.
BodyAssumed ==
  /\ phase = "body"
  /\ phase' = "dispatch"
  /\ UNCHANGED <<clientVars, got, body, cut, calls, status, answers>>

BodyComplete ==
  /\ phase = "body" /\ Len(body) >= Declared
  /\ phase' = "dispatch"
  /\ UNCHANGED <<clientVars, got, body, cut, calls, status, answers>>

-----------------------------------------------------------------------------
(* The dispatch on method and target.                                      *)

HidEndpoint == {"hidText", "hidClick", "hidMove"}
Needed(endpoint) == IF endpoint = "hidText" THEN {"text"} ELSE {"x", "y"}

(* Of a key that is repeated yaml-cpp takes the first.                     *)
ButtonLine == {"right", "unnamed"}
Named(button, lines) ==
  \E i \in DOMAIN lines : lines[i] = button /\ \A j \in 1 .. i - 1 : lines[j] \notin ButtonLine

(* Every needed key is there, and the name of the button, if one is given, *)
(* is known: otherwise yaml-cpp or mouseButtonFromString throws.           *)
Readable(endpoint, lines) ==
  /\ Needed(endpoint) \subseteq Range(lines)
  /\ endpoint = "hidClick" => ~Named("unnamed", lines)

CallOf(endpoint, lines) ==
  [endpoint |-> endpoint,
   button |-> IF endpoint # "hidClick" THEN "none"
              ELSE IF Named("right", lines) THEN "right" ELSE "left"]

Healthz ==
  /\ phase = "dispatch" /\ request.endpoint = "healthz"
  /\ status' = 200 /\ phase' = "respond"
  /\ UNCHANGED <<clientVars, got, body, cut, calls, answers>>

Unknown ==
  /\ phase = "dispatch" /\ request.endpoint = "other"
  /\ status' = 404 /\ phase' = "respond"
  /\ UNCHANGED <<clientVars, got, body, cut, calls, answers>>

Unreadable ==
  /\ phase = "dispatch" /\ request.endpoint \in HidEndpoint
  /\ ~Readable(request.endpoint, body)
  /\ status' = 400 /\ phase' = "respond"
  /\ UNCHANGED <<clientVars, got, body, cut, calls, answers>>

Execute ==
  /\ phase = "dispatch" /\ request.endpoint \in HidEndpoint
  /\ Readable(request.endpoint, body)
  /\ calls' = Append(calls, CallOf(request.endpoint, body))
  /\ phase' = "call"
  /\ UNCHANGED <<clientVars, got, body, cut, status, answers>>

(* The call returns, or throws and is caught.                              *)
CallEnds ==
  /\ phase = "call"
  /\ status' \in {200, 400} /\ phase' = "respond"
  /\ UNCHANGED <<clientVars, got, body, cut, calls, answers>>

\* Mutant of Respond: the handler answers again instead of closing.
RespondAgain ==
  /\ phase = "respond" /\ Len(answers) < 2
  /\ answers' = Append(answers, status)
  /\ phase' = IF answers = <<>> THEN "respond" ELSE "close"
  /\ UNCHANGED <<clientVars, got, body, cut, calls, status>>

(* send to a connection the client has reset raises SIGPIPE.               *)
Respond ==
  /\ phase = "respond"
  /\ \/ answers' = Append(answers, status) /\ phase' = "close"
     \/ client = "reset" /\ phase' = "killed" /\ UNCHANGED answers
  /\ UNCHANGED <<clientVars, got, body, cut, calls, status>>

Close ==
  /\ phase = "close"
  /\ phase' = "closed"
  /\ UNCHANGED <<clientVars, got, body, cut, calls, status, answers>>

-----------------------------------------------------------------------------
ServerStep ==
  \/ ReceiveHead \/ HeadCut \/ ReceiveBody \/ BodyCut \/ BodyComplete
  \/ Healthz \/ Unknown \/ Unreadable \/ Execute \/ CallEnds \/ Respond \/ Close

Next == ServerStep \/ ClientSends \/ ClientEnds
Spec == Init /\ [][Next]_vars

(* The server thread is scheduled and a call returns (HidServer); a client *)
(* that is open sends its request.                                         *)
FairSpec == Spec /\ WF_vars(ServerStep) /\ WF_vars(ClientSends)

-----------------------------------------------------------------------------
ServerCall == [endpoint : HidEndpoint, button : {"none", "left", "right"}]
Status == {200, 400, 404}

(* The type of every variable.                                             *)
ProgressOK ==
  /\ request \in Requests
  /\ client \in {"open", "closed", "reset"}
  /\ sent \in 0 .. Total /\ got \in 0 .. sent
  /\ phase \in {"head", "body", "dispatch", "call", "respond", "close", "closed", "killed"}
  /\ cut \in BOOLEAN
DataOK ==
  /\ body \in Seq(Line) /\ IsPrefix(body, request.body)
  /\ calls \in Seq(ServerCall)
  /\ status \in {0} \cup Status /\ answers \in Seq(Status)
RequestTypeOK == ProgressOK /\ DataOK

(* The client declares, last, the length of the body it sends.             *)
Honest(r) == ContentLength(r.lengths) = Len(r.body)

(* A request is executed with its whole declared body, unless the client   *)
(* ended the stream before it was there.                                   *)
WholeBody == calls # <<>> /\ ~cut => Len(body) >= Declared

ExpectedCalls(r) ==
  IF r.endpoint \in HidEndpoint /\ Readable(r.endpoint, r.body)
  THEN <<[endpoint |-> r.endpoint,
          button |-> IF r.endpoint = "hidClick"
                     THEN IF Named("right", r.body) THEN "right" ELSE "left"
                     ELSE "none"]>>
  ELSE <<>>

(* However the stream is cut into segments, an honest request that arrives *)
(* whole is answered with the call, or the refusal, of its whole body.     *)
SegmentsDoNotMatter ==
  answers # <<>> /\ Honest(request) /\ ~cut =>
    /\ calls = ExpectedCalls(request)
    /\ calls = <<>> =>
         answers[1] = CASE request.endpoint = "healthz" -> 200
                        [] request.endpoint = "other"        -> 404
                        [] OTHER                             -> 400

(* The inductive invariant of the proofs.  The body is what has been       *)
(* received behind the head, whatever the segments; before the blank line  *)
(* there is none, and a connection that ends there is closed unanswered.   *)
NothingDone == calls = <<>> /\ answers = <<>>
BodyIsReceived ==
  IF got < request.head
  THEN phase \in {"head", "close", "closed"} /\ body = <<>> /\ NothingDone
  ELSE phase # "head" /\ body = BodyUpTo(got)

(* Behind the dispatch the call, the status and the answer are those of    *)
(* the body; the body is whole unless the stream has ended.                *)
CallsOf(endpoint, lines) ==
  IF endpoint \in HidEndpoint /\ Readable(endpoint, lines)
  THEN <<CallOf(endpoint, lines)>> ELSE <<>>
StatusFits ==
  /\ calls # <<>> => status \in {200, 400}
  /\ calls = <<>> =>
       /\ request.endpoint = "healthz" => status = 200
       /\ request.endpoint = "other" => status = 404
       /\ request.endpoint \in HidEndpoint => status = 400
DispatchIsOfBody ==
  got >= request.head =>
    /\ phase \in {"body", "dispatch"} => NothingDone
    /\ phase # "body" /\ ~cut => Len(body) >= Declared
    /\ phase \notin {"body", "dispatch"} => calls = CallsOf(request.endpoint, body)
    /\ phase = "call" => calls # <<>>
    /\ phase \notin {"body", "dispatch", "call"} => StatusFits
    /\ answers = IF phase \in {"close", "closed"} THEN <<status>> ELSE <<>>

RequestInv == RequestTypeOK /\ BodyIsReceived /\ DispatchIsOfBody

(* One call and one answer at most, in this order, and none after the      *)
(* connection is closed.                                                   *)
IsHealthz(r) == r.endpoint = "healthz"
Exchange == INSTANCE HttpExchange WITH
  Request <- Requests,
  Call <- ServerCall,
  NeedsNoCall <- IsHealthz,
  over <- phase \in {"closed", "killed"}
KeepsExchange == Exchange!Spec

(* An honest client that stays is answered, however its stream is cut.     *)
HonestIsAnswered ==
  Honest(request) ~> (answers # <<>> \/ client # "open")

(* A client that ends its stream, in whatever place, does not hold the     *)
(* only server thread.                                                     *)
EndedIsLetGo == client # "open" ~> phase \in {"closed", "killed"}

(* handleClient is in recv, and how many of its steps may be left: what it *)
(* can still receive, and the places it has still to pass.                 *)
InReceive == phase = "head" \/ (phase = "body" /\ Len(body) < Declared)
PlacesLeft ==
  CASE phase = "head" -> 6 [] phase = "body" -> 5 [] phase = "dispatch" -> 4
    [] phase = "call" -> 3 [] phase = "respond" -> 2 [] phase = "close" -> 1
    [] OTHER -> 0
HandlerLeft == Total - got + PlacesLeft

(* A request of finite length is handled in finitely many steps, and recv  *)
(* waits for nothing but a client that has not ended its stream, and for   *)
(* an honest one only while part of its request is not sent: the loops     *)
(* never ask for more than it will send.                                   *)
HandlerGetsOn ==
  [][/\ HandlerLeft \in Nat
     /\ <<phase, got>>' # <<phase, got>> => HandlerLeft' < HandlerLeft
     /\ InReceive /\ Received = {} /\ ~AtEnd =>
          client = "open" /\ (Honest(request) => sent < Total)]_vars
=============================================================================
