-------------------------- MODULE HttpRequestProofs --------------------------
(***************************************************************************)
(* handleClient for any requests and any size of the receive buffer:       *)
(* RequestInv is inductive, segments do not matter, and the connection     *)
(* implements HttpExchange.                                                *)
(***************************************************************************)
EXTENDS HttpRequest, SequenceTheorems, TLAPS

(* The body is what follows the head in what was received.                 *)
LEMMA PrefixFacts ==
  ASSUME NEW s \in Seq(Line), NEW k \in 0 .. Len(s)
  PROVE  /\ SubSeq(s, 1, k) \in Seq(Line) /\ Len(SubSeq(s, 1, k)) = k
         /\ IsPrefix(SubSeq(s, 1, k), s)
         /\ k = Len(s) => SubSeq(s, 1, k) = s
<1>1. /\ SubSeq(s, 1, k) \in Seq(Line) /\ Len(SubSeq(s, 1, k)) = k
      /\ \A i \in 1 .. k : SubSeq(s, 1, k)[i] = s[i]
  OBVIOUS
<1>2. SubSeq(SubSeq(s, 1, k), 1, k) = SubSeq(s, 1, k)
  BY <1>1, SeqEqual
<1>3. k = Len(s) => SubSeq(s, 1, k) = s
  BY <1>1, SeqEqual
<1> QED
  BY <1>1, <1>2, <1>3 DEF IsPrefix

(* The constants of a request, and the numbers the handler compares.       *)
LEMMA RequestFacts ==
  ASSUME RequestTypeOK
  PROVE  /\ request.body \in Seq(Line) /\ Len(request.body) \in Nat
         /\ request.head \in Nat \ {0} /\ request.endpoint \in Endpoint
         /\ Declared \in Nat /\ got \in Nat /\ sent \in Nat /\ Total \in Nat
<1>1. request \in Requests
  BY DEF RequestTypeOK, ProgressOK
<1>2. /\ request.body \in Seq(Line) /\ request.head \in Nat \ {0}
      /\ request.endpoint \in Endpoint /\ request.lengths \in Seq(Nat \cup {Malformed})
  BY <1>1, RequestAssumption
<1>3. Len(request.body) \in Nat
  BY <1>2
<1>4. Declared \in Nat
  <2>1. CASE request.lengths = <<>>
    BY <2>1 DEF Declared, ContentLength
  <2>2. CASE request.lengths # <<>>
    <3>1. request.lengths[Len(request.lengths)] \in Nat \cup {Malformed}
      BY <1>2, <2>2
    <3> QED
      BY <3>1, <2>2 DEF Declared, ContentLength, Last
  <2> QED
    BY <2>1, <2>2
<1>5. Total \in Nat
  BY <1>2, <1>3 DEF Total
<1> QED
  BY <1>2, <1>3, <1>4, <1>5 DEF RequestTypeOK, ProgressOK

LEMMA BodyFacts ==
  ASSUME RequestTypeOK, NEW n \in Nat, request.head <= n, n <= Total
  PROVE  /\ Len(BodyUpTo(n)) = n - request.head /\ BodyUpTo(n) \in Seq(Line)
         /\ IsPrefix(BodyUpTo(n), request.body)
         /\ n = Total => BodyUpTo(n) = request.body
<1>1. n - request.head \in 0 .. Len(request.body)
  BY RequestFacts DEF Total
<1> QED
  BY <1>1, RequestFacts, PrefixFacts DEF BodyUpTo, Total

LEMMA EmptyIsPrefix == ASSUME NEW s \in Seq(Line) PROVE IsPrefix(<<>>, s)
<1>1. SubSeq(<<>>, 1, 0) = <<>> /\ SubSeq(s, 1, 0) = <<>>
  BY EmptySeq
<1> QED
  BY <1>1 DEF IsPrefix

-----------------------------------------------------------------------------
LEMMA RequestInit == Init => RequestInv
<1> SUFFICES ASSUME Init PROVE RequestInv
  OBVIOUS
<1>1. /\ request \in Requests /\ request.body \in Seq(Line) /\ request.head \in Nat \ {0}
      /\ Len(request.body) \in Nat
  BY RequestAssumption DEF Init
<1>2. RequestTypeOK
  <2>1. /\ IsPrefix(<<>>, request.body) /\ Total \in Nat
        /\ <<>> \in Seq(Line) /\ <<>> \in Seq(ServerCall) /\ <<>> \in Seq(Status)
    BY <1>1, EmptyIsPrefix DEF Total
  <2>2. ProgressOK
    <3>1. sent = 0 /\ got = 0 /\ 0 \in 0 .. Total /\ 0 \in 0 .. 0
      BY <2>1 DEF Init
    <3> QED
      BY <1>1, <3>1 DEF Init, ProgressOK
  <2>3. DataOK
    BY <2>1 DEF Init, DataOK
  <2> QED
    BY <2>2, <2>3 DEF RequestTypeOK
<1>3. BodyIsReceived /\ DispatchIsOfBody
  BY <1>1 DEF Init, BodyIsReceived, DispatchIsOfBody, NothingDone
<1> QED
  BY <1>2, <1>3 DEF RequestInv

(* Only the handler changes what the invariant says of it.                 *)
LEMMA HandlerFrame ==
  ASSUME RequestInv, UNCHANGED <<request, phase, got, body, cut, calls, status, answers>>
  PROVE  DataOK' /\ BodyIsReceived' /\ DispatchIsOfBody'
<1>1. /\ BodyUpTo(got)' = BodyUpTo(got) /\ Declared' = Declared
      /\ CallsOf(request.endpoint, body)' = CallsOf(request.endpoint, body)
  BY DEF BodyUpTo, Declared, CallsOf, CallOf, Readable
<1>2. /\ StatusFits => StatusFits'
      /\ NothingDone => NothingDone'
  BY DEF StatusFits, NothingDone
<1>3. DataOK'
  BY DEF RequestInv, RequestTypeOK, DataOK
<1> QED
  BY <1>1, <1>2, <1>3 DEF RequestInv, BodyIsReceived, DispatchIsOfBody

(* The client only adds to what has been sent.                             *)
LEMMA ClientKeeps ==
  ASSUME RequestInv, ClientSends \/ ClientEnds
  PROVE  RequestInv'
<1>1. UNCHANGED <<request, phase, got, body, cut, calls, status, answers>>
  BY DEF ClientSends, ClientEnds
<1>2. ProgressOK'
  BY RequestFacts DEF ClientSends, ClientEnds, RequestInv, RequestTypeOK, ProgressOK, Total
<1> QED
  BY <1>1, <1>2, HandlerFrame DEF RequestInv, RequestTypeOK

(* recv: what it returns was sent, and the body grows by it.               *)
LEMMA ReceiveKeeps ==
  ASSUME RequestInv, ReceiveHead \/ ReceiveBody
  PROVE  RequestInv'
<1>1. /\ UNCHANGED <<request, client, sent, cut, calls, status, answers>>
      /\ got' \in Nat /\ got < got' /\ got' <= sent /\ sent <= Total
      /\ got' \in 0 .. sent
  BY RequestFacts DEF ReceiveHead, ReceiveBody, Received, clientVars, RequestInv, RequestTypeOK, ProgressOK
<1>2. CASE got' < request.head
  <2>1. phase = "head" /\ phase' = phase /\ body' = body
    BY <1>1, <1>2, RequestFacts
       DEF ReceiveHead, ReceiveBody, RequestInv, BodyIsReceived
  <2>2. got < request.head
    BY <1>1, <1>2, RequestFacts DEF RequestInv
  <2>3. RequestTypeOK'
    <3>1. ProgressOK'
      BY <1>1, <2>1 DEF RequestInv, RequestTypeOK, Total, ProgressOK
    <3>2. DataOK'
      BY <1>1, <2>1 DEF RequestInv, RequestTypeOK, Total, DataOK
    <3> QED
      BY <3>1, <3>2 DEF RequestTypeOK
  <2>4. BodyIsReceived' /\ DispatchIsOfBody'
    BY <1>1, <1>2, <2>1, <2>2, RequestFacts
       DEF RequestInv, BodyIsReceived, DispatchIsOfBody, NothingDone
  <2> QED
    BY <2>3, <2>4 DEF RequestInv
<1>3. CASE got' >= request.head
  <2>1. body' = BodyUpTo(got') /\ phase' = "body"
    BY <1>1, <1>3, RequestFacts DEF ReceiveHead, ReceiveBody, BodyUpTo
  <2>2. NothingDone
    BY RequestFacts
       DEF ReceiveHead, ReceiveBody, RequestInv, BodyIsReceived, DispatchIsOfBody
  <2>3. IsPrefix(body', request.body) /\ body' \in Seq(Line)
    BY <1>1, <1>3, <2>1, BodyFacts, RequestFacts DEF RequestInv
  <2>4. RequestTypeOK'
    <3>1. ProgressOK'
      BY <1>1, <2>1, <2>3 DEF RequestInv, RequestTypeOK, Total, ProgressOK
    <3>2. DataOK'
      BY <1>1, <2>1, <2>3 DEF RequestInv, RequestTypeOK, Total, DataOK
    <3> QED
      BY <3>1, <3>2 DEF RequestTypeOK
  <2>5. BodyIsReceived' /\ DispatchIsOfBody'
    BY <1>1, <1>3, <2>1, <2>2, RequestFacts
       DEF RequestInv, BodyIsReceived, DispatchIsOfBody, NothingDone, BodyUpTo
  <2> QED
    BY <2>4, <2>5 DEF RequestInv
<1> QED
  BY <1>1, <1>2, <1>3, RequestFacts DEF RequestInv

(* Leaving the receive loops, dispatching, calling and answering: what has *)
(* been received no longer changes.                                        *)
LEMMA HandleKeeps ==
  ASSUME RequestInv,
         \/ HeadCut \/ BodyCut \/ BodyComplete
         \/ Healthz \/ Unknown \/ Unreadable \/ Execute
         \/ CallEnds \/ Respond \/ Close
  PROVE  RequestInv'
<1>1. UNCHANGED <<request, client, sent, got, body>>
  BY DEF HeadCut, BodyCut, BodyComplete, Healthz, Unknown, Unreadable, Execute, CallEnds,
         Respond, Close, clientVars
<1>2. /\ BodyUpTo(got)' = BodyUpTo(got) /\ Declared' = Declared
      /\ CallsOf(request.endpoint, body)' = CallsOf(request.endpoint, body)
  BY <1>1 DEF BodyUpTo, Declared, CallsOf, CallOf, Readable
<1>3. CASE HeadCut
  <2>1. got < request.head /\ NothingDone
    BY <1>3, RequestFacts DEF HeadCut, RequestInv, BodyIsReceived
  <2>2. RequestTypeOK'
    <3>1. ProgressOK'
      BY <1>1, <1>3 DEF HeadCut, RequestInv, RequestTypeOK, Total, ProgressOK
    <3>2. DataOK'
      BY <1>1, <1>3 DEF HeadCut, RequestInv, RequestTypeOK, Total, DataOK
    <3> QED
      BY <3>1, <3>2 DEF RequestTypeOK
  <2>3. BodyIsReceived' /\ DispatchIsOfBody'
    BY <1>1, <1>3, <2>1, RequestFacts
       DEF HeadCut, RequestInv, BodyIsReceived, DispatchIsOfBody, NothingDone
  <2> QED
    BY <2>2, <2>3 DEF RequestInv
<1>4. CASE BodyCut \/ BodyComplete
  <2>1. RequestTypeOK'
    <3>1. ProgressOK'
      BY <1>1, <1>4 DEF BodyCut, BodyComplete, RequestInv, RequestTypeOK, Total, ProgressOK
    <3>2. DataOK'
      BY <1>1, <1>4 DEF BodyCut, BodyComplete, RequestInv, RequestTypeOK, Total, DataOK
    <3> QED
      BY <3>1, <3>2 DEF RequestTypeOK
  <2>2. phase = "body" /\ phase' = "dispatch" /\ UNCHANGED <<calls, status, answers>>
    BY <1>4 DEF BodyCut, BodyComplete
  <2>3. cut' \/ Len(body) >= Declared
    BY <1>4 DEF BodyCut, BodyComplete
  <2>4. BodyIsReceived' /\ DispatchIsOfBody'
    BY <1>1, <1>2, <2>2, <2>3, RequestFacts
       DEF RequestInv, BodyIsReceived, DispatchIsOfBody, NothingDone
  <2> QED
    BY <2>1, <2>4 DEF RequestInv
<1>5. CASE Healthz \/ Unknown \/ Unreadable
  <2>2. /\ phase = "dispatch" /\ phase' = "respond" /\ UNCHANGED <<cut, calls, answers>>
        /\ status' \in Status
    BY <1>5 DEF Healthz, Unknown, Unreadable, Status
  <2>1. RequestTypeOK'
    <3>1. ProgressOK'
      BY <1>1, <2>2 DEF RequestInv, RequestTypeOK, ProgressOK, Total
    <3>2. DataOK'
      BY <1>1, <2>2 DEF RequestInv, RequestTypeOK, DataOK
    <3> QED
      BY <3>1, <3>2 DEF RequestTypeOK
  <2>3. NothingDone /\ got >= request.head
    BY <2>2, RequestFacts DEF RequestInv, BodyIsReceived, DispatchIsOfBody
  <2>4. CallsOf(request.endpoint, body) = <<>>
    BY <1>5 DEF Healthz, Unknown, Unreadable, CallsOf, HidEndpoint
  <2>6. StatusFits'
    BY <1>1, <1>5, <2>2, <2>3
       DEF Healthz, Unknown, Unreadable, StatusFits, NothingDone, HidEndpoint
  <2>5. BodyIsReceived' /\ DispatchIsOfBody'
    BY <1>1, <1>2, <2>2, <2>3, <2>4, <2>6, RequestFacts
       DEF RequestInv, BodyIsReceived, DispatchIsOfBody, NothingDone
  <2> QED
    BY <2>1, <2>5 DEF RequestInv
<1>6. CASE Execute
  <2>1. phase = "dispatch" /\ phase' = "call" /\ UNCHANGED <<cut, status, answers>>
    BY <1>6 DEF Execute
  <2>2. NothingDone /\ got >= request.head
    BY <2>1, RequestFacts DEF RequestInv, BodyIsReceived, DispatchIsOfBody
  <2>3. calls' = CallsOf(request.endpoint, body) /\ calls' = <<CallOf(request.endpoint, body)>>
    BY <1>6, <2>2 DEF Execute, CallsOf, NothingDone
  <2>4. RequestTypeOK'
    <3>1. calls' \in Seq(ServerCall)
      <4>1. CallOf(request.endpoint, body) \in ServerCall
        BY <1>6 DEF Execute, CallOf, ServerCall
      <4> QED
        BY <2>3, <4>1
    <3>2. ProgressOK'
      BY <1>1, <2>1 DEF RequestInv, RequestTypeOK, ProgressOK, Total
    <3>3. DataOK'
      BY <1>1, <2>1, <3>1 DEF RequestInv, RequestTypeOK, DataOK
    <3> QED
      BY <3>2, <3>3 DEF RequestTypeOK
  <2>5. BodyIsReceived' /\ DispatchIsOfBody'
    BY <1>1, <1>2, <2>1, <2>2, <2>3, RequestFacts
       DEF RequestInv, BodyIsReceived, DispatchIsOfBody, NothingDone
  <2> QED
    BY <2>4, <2>5 DEF RequestInv
<1>7. CASE CallEnds
  <2>1. RequestTypeOK'
    <3>1. ProgressOK'
      BY <1>1, <1>7 DEF CallEnds, RequestInv, RequestTypeOK, Total, Status, ProgressOK
    <3>2. DataOK'
      BY <1>1, <1>7 DEF CallEnds, RequestInv, RequestTypeOK, Total, Status, DataOK
    <3> QED
      BY <3>1, <3>2 DEF RequestTypeOK
  <2>2. /\ phase = "call" /\ phase' = "respond" /\ UNCHANGED <<cut, calls, answers>>
        /\ status' \in {200, 400}
    BY <1>7 DEF CallEnds
  <2>3. got >= request.head /\ calls # <<>>
    BY <2>2, RequestFacts DEF RequestInv, BodyIsReceived, DispatchIsOfBody
  <2>5. StatusFits'
    BY <2>2, <2>3 DEF StatusFits
  <2>4. BodyIsReceived' /\ DispatchIsOfBody'
    BY <1>1, <1>2, <2>2, <2>3, <2>5, RequestFacts
       DEF RequestInv, BodyIsReceived, DispatchIsOfBody, NothingDone
  <2> QED
    BY <2>1, <2>4 DEF RequestInv
<1>8. CASE Respond
  <2>1. phase = "respond" /\ got >= request.head /\ answers = <<>>
    BY <1>8, RequestFacts DEF Respond, RequestInv, BodyIsReceived, DispatchIsOfBody
  <2>2. StatusFits /\ status \in Status
    BY <2>1, RequestFacts
       DEF RequestInv, DispatchIsOfBody, StatusFits, Status, Endpoint, HidEndpoint
  <2>3. /\ UNCHANGED <<cut, calls, status>>
        /\ \/ answers' = <<status>> /\ phase' = "close"
           \/ answers' = <<>> /\ phase' = "killed"
    BY <1>8, <2>1 DEF Respond
  <2>4. RequestTypeOK'
    <3>1. ProgressOK'
      BY <1>1, <2>2, <2>3 DEF RequestInv, RequestTypeOK, Total, ProgressOK
    <3>2. DataOK'
      <4>1. <<status>> \in Seq(Status) /\ <<>> \in Seq(Status)
        BY <2>2
      <4>2. answers' \in Seq(Status)
        BY <2>3, <4>1
      <4> QED
        BY <1>1, <2>3, <4>2 DEF RequestInv, RequestTypeOK, DataOK
    <3> QED
      BY <3>1, <3>2 DEF RequestTypeOK
  <2>5. BodyIsReceived' /\ DispatchIsOfBody'
    BY <1>1, <1>2, <2>1, <2>2, <2>3, RequestFacts
       DEF RequestInv, BodyIsReceived, DispatchIsOfBody, StatusFits
  <2> QED
    BY <2>4, <2>5 DEF RequestInv
<1>9. CASE Close
  <2>1. /\ UNCHANGED <<cut, calls, status, answers>>
        /\ phase = "close" /\ phase' = "closed"
    BY <1>9 DEF Close
  <2>2. RequestTypeOK'
    <3>1. ProgressOK'
      BY <1>1, <2>1 DEF RequestInv, RequestTypeOK, Total, ProgressOK
    <3>2. DataOK'
      BY <1>1, <2>1 DEF RequestInv, RequestTypeOK, Total, DataOK
    <3> QED
      BY <3>1, <3>2 DEF RequestTypeOK
  <2>3. BodyIsReceived' /\ DispatchIsOfBody'
    <3>1. (NothingDone => NothingDone') /\ (StatusFits => StatusFits')
      BY <1>1, <2>1 DEF NothingDone, StatusFits
    <3> QED
      BY <1>1, <1>2, <2>1, <3>1, RequestFacts
         DEF RequestInv, BodyIsReceived, DispatchIsOfBody
  <2> QED
    BY <2>2, <2>3 DEF RequestInv
<1> QED
  BY <1>3, <1>4, <1>5, <1>6, <1>7, <1>8, <1>9

-----------------------------------------------------------------------------
(* The inductive invariant of handleClient.                                *)
THEOREM RequestInductive == Spec => []RequestInv
<1>1. RequestInv /\ [Next]_vars => RequestInv'
  <2> SUFFICES ASSUME RequestInv, [Next]_vars PROVE RequestInv'
    OBVIOUS
  <2>1. CASE Next
    BY <2>1, ClientKeeps, ReceiveKeeps, HandleKeeps DEF Next, ServerStep
  <2>2. CASE UNCHANGED vars
    <3>1. ProgressOK'
      BY <2>2 DEF vars, clientVars, RequestInv, RequestTypeOK, ProgressOK, Total
    <3>2. UNCHANGED <<request, phase, got, body, cut, calls, status, answers>>
      BY <2>2 DEF vars, clientVars
    <3> QED
      BY <3>1, <3>2, HandlerFrame DEF RequestInv, RequestTypeOK
  <2> QED
    BY <2>1, <2>2
<1> QED
  BY RequestInit, <1>1, PTL DEF Spec

(* Every variable of handleClient keeps its type.                          *)
THEOREM RequestTyped == Spec => []RequestTypeOK
<1>1. RequestInv => RequestTypeOK
  BY DEF RequestInv
<1> QED
  BY <1>1, RequestInductive, PTL

(* No call runs on part of the declared body, unless the client has ended  *)
(* the stream inside it.                                                   *)
THEOREM Whole == Spec => []WholeBody
<1>1. RequestInv => WholeBody
  BY RequestFacts
     DEF RequestInv, BodyIsReceived, DispatchIsOfBody, NothingDone, WholeBody
<1> QED
  BY <1>1, RequestInductive, PTL

(* The calls and answers of an honest request that is received whole are   *)
(* those of its body, for every way to cut its stream.                     *)
THEOREM AnySegments == Spec => []SegmentsDoNotMatter
<1>1. RequestInv => SegmentsDoNotMatter
  <2> SUFFICES ASSUME RequestInv, answers # <<>>, Honest(request), ~cut
               PROVE  /\ calls = ExpectedCalls(request)
                      /\ calls = <<>> =>
                           answers[1] = CASE request.endpoint = "healthz" -> 200
                                          [] request.endpoint = "other"        -> 404
                                          [] OTHER                             -> 400
    BY DEF SegmentsDoNotMatter
  <2>1. got >= request.head /\ body = BodyUpTo(got) /\ got <= Total
    BY RequestFacts DEF RequestInv, RequestTypeOK, ProgressOK, BodyIsReceived, NothingDone
  <2>2. phase \in {"close", "closed"} /\ answers = <<status>>
    BY <2>1 DEF RequestInv, DispatchIsOfBody
  <2>3. Len(body) >= Len(request.body)
    BY <2>1, <2>2 DEF RequestInv, DispatchIsOfBody, Honest, Declared
  <2>4. body = request.body
    <3>1. got = Total
      BY <2>1, <2>3, BodyFacts, RequestFacts DEF RequestInv, Total
    <3> QED
      BY <2>1, <3>1, BodyFacts, RequestFacts DEF RequestInv
  <2>5. calls = CallsOf(request.endpoint, request.body)
    BY <2>1, <2>2, <2>4 DEF RequestInv, DispatchIsOfBody
  <2>6. calls = ExpectedCalls(request)
    <3>1. CASE request.endpoint = "hidClick"
      BY <2>5, <3>1 DEF CallsOf, CallOf, ExpectedCalls
    <3>2. CASE request.endpoint # "hidClick"
      BY <2>5, <3>2 DEF CallsOf, CallOf, ExpectedCalls
    <3> QED
      BY <3>1, <3>2
  <2>7. StatusFits
    BY <2>1, <2>2 DEF RequestInv, DispatchIsOfBody
  <2>8. answers[1] = status /\ request.endpoint \in Endpoint
    BY <2>2, RequestFacts DEF RequestInv
  <2> QED
    BY <2>6, <2>7, <2>8 DEF StatusFits, Endpoint, HidEndpoint
<1> QED
  BY <1>1, RequestInductive, PTL

(* Every step of handleClient is one of the abstract exchange or none.     *)
THEOREM Exchanges == Spec => KeepsExchange
<1> USE DEF Exchange!vars
<1>1. Init => Exchange!Init
  BY DEF Init, Exchange!Init
<1>2. RequestInv /\ [Next]_vars => [Exchange!Next]_(Exchange!vars)
  <2> SUFFICES ASSUME RequestInv, [Next]_vars PROVE [Exchange!Next]_(Exchange!vars)
    OBVIOUS
  <2>1. CASE Execute
    <3>1. phase = "dispatch" /\ NothingDone /\ request.endpoint \in HidEndpoint
      BY <2>1, RequestFacts
         DEF Execute, RequestInv, BodyIsReceived, DispatchIsOfBody
    <3>2. calls' = <<CallOf(request.endpoint, body)>> /\ phase' = "call"
          /\ UNCHANGED <<request, answers>>
      BY <2>1, <3>1 DEF Execute, NothingDone, clientVars
    <3>3. CallOf(request.endpoint, body) \in ServerCall
      BY <3>1 DEF CallOf, ServerCall
    <3>4. ~IsHealthz(request)
      BY <3>1 DEF IsHealthz, HidEndpoint
    <3>5. ~(phase \in {"closed", "killed"}) /\ ~(phase' \in {"closed", "killed"})
      BY <3>1, <3>2
    <3>6. Exchange!Execute
      BY <3>1, <3>2, <3>3, <3>4, <3>5 DEF Exchange!Execute, NothingDone
    <3> QED
      BY <3>6 DEF Exchange!Next
  <2>2. CASE Respond
    <3>1. phase = "respond" /\ got >= request.head /\ answers = <<>>
      BY <2>2, RequestFacts DEF Respond, RequestInv, BodyIsReceived, DispatchIsOfBody
    <3>2. StatusFits /\ request.endpoint \in Endpoint
      BY <3>1, RequestFacts DEF RequestInv, DispatchIsOfBody
    <3>3. UNCHANGED <<request, calls>>
      BY <2>2 DEF Respond, clientVars
    <3>4. CASE answers' = Append(answers, status) /\ phase' = "close"
      <4>1. answers' = <<status>>
        BY <3>1, <3>4
      <4>2. /\ status \in {200, 400, 404}
            /\ status = 200 => calls # <<>> \/ IsHealthz(request)
            /\ calls # <<>> => status # 404
        BY <3>2 DEF StatusFits, IsHealthz, Endpoint, HidEndpoint
      <4> QED
        BY <3>1, <3>3, <3>4, <4>1, <4>2 DEF Exchange!Next, Exchange!Answer
    <3>5. CASE phase' = "killed" /\ UNCHANGED answers
      BY <3>1, <3>3, <3>5 DEF Exchange!Next, Exchange!End
    <3> QED
      BY <2>2, <3>4, <3>5 DEF Respond
  <2>3. CASE Close
    BY <2>3 DEF Close, clientVars, Exchange!Next, Exchange!End
  <2>4. CASE \/ ReceiveHead \/ HeadCut \/ ReceiveBody \/ BodyCut \/ BodyComplete
             \/ Healthz \/ Unknown \/ Unreadable \/ CallEnds
    <3>1. /\ UNCHANGED <<request, calls, answers>>
          /\ ~(phase \in {"closed", "killed"}) /\ ~(phase' \in {"closed", "killed"})
      BY <2>4 DEF ReceiveHead, HeadCut, ReceiveBody, BodyCut, BodyComplete, Healthz, Unknown,
                  Unreadable, CallEnds, clientVars
    <3> QED
      BY <3>1
  <2>5. CASE ClientSends \/ ClientEnds \/ UNCHANGED vars
    BY <2>5 DEF ClientSends, ClientEnds, vars, clientVars
  <2> QED
    BY <2>1, <2>2, <2>3, <2>4, <2>5 DEF Next, ServerStep
<1> QED
  BY <1>1, <1>2, RequestInductive, PTL DEF Spec, KeepsExchange, Exchange!Spec

-----------------------------------------------------------------------------
(* What recv can still wait for.                                           *)
LEMMA ReceiveEmpty ==
  ASSUME RequestInv, Received = {} PROVE got = sent
<1>1. got \in Nat /\ sent \in Nat /\ got <= sent
  BY RequestFacts DEF RequestInv, RequestTypeOK, ProgressOK
<1>2. got + 1 \notin Received
  OBVIOUS
<1> QED
  BY <1>1, <1>2, RequestAssumption DEF Received

LEMMA WaitsForClient ==
  ASSUME RequestInv, InReceive, Received = {}, ~AtEnd
  PROVE  client = "open" /\ (Honest(request) => sent < Total)
<1>1. got = sent /\ got <= Total
  BY ReceiveEmpty, RequestFacts DEF RequestInv, RequestTypeOK, ProgressOK
<1>2. client = "open"
  BY <1>1 DEF AtEnd, RequestInv, RequestTypeOK, ProgressOK
<1>3. ASSUME Honest(request), sent >= Total PROVE FALSE
  <2>1. got = Total /\ request.head <= Total
    BY <1>1, <1>3, RequestFacts DEF RequestInv, Total
  <2>2. phase = "body" /\ body = request.body
    BY <2>1, BodyFacts, RequestFacts DEF RequestInv, BodyIsReceived, InReceive
  <2>3. Len(body) < Declared
    BY <2>2 DEF InReceive
  <2> QED
    BY <1>3, <2>2, <2>3, RequestFacts DEF Honest, Declared, RequestInv
<1> QED
  BY <1>1, <1>2, <1>3, RequestFacts DEF RequestInv

LEMMA LessLeft ==
  ASSUME NEW t \in Nat, NEW g \in Nat, NEW h \in Nat, NEW p \in Nat, NEW q \in Nat,
         (g < h /\ q <= p) \/ (g = h /\ q < p)
  PROVE  t - h + q < t - g + p
OBVIOUS

LEMMA StepsShrink ==
  ASSUME RequestInv, [Next]_vars
  PROVE  /\ HandlerLeft \in Nat
         /\ <<phase, got>>' # <<phase, got>> => HandlerLeft' < HandlerLeft
<1>1. /\ got \in Nat /\ Total \in Nat /\ sent \in Nat /\ got <= Total
      /\ PlacesLeft \in Nat /\ HandlerLeft = Total - got + PlacesLeft
      /\ HandlerLeft \in Nat
  BY RequestFacts DEF RequestInv, RequestTypeOK, ProgressOK, PlacesLeft, HandlerLeft
<1>2. CASE ReceiveHead \/ ReceiveBody
  <2>1. Total' = Total /\ got' \in Nat /\ got' > got
    BY <1>1, <1>2 DEF ReceiveHead, ReceiveBody, Received, clientVars, Total
  <2>2. PlacesLeft' \in Nat /\ PlacesLeft' <= PlacesLeft
    BY <1>2 DEF ReceiveHead, ReceiveBody, PlacesLeft
  <2>3. HandlerLeft' = Total - got' + PlacesLeft'
    BY <2>1 DEF HandlerLeft
  <2>4. (got < got' /\ PlacesLeft' <= PlacesLeft) \/ (got = got' /\ PlacesLeft' < PlacesLeft)
    BY <2>1, <2>2
  <2>5. Total - got' + PlacesLeft' < Total - got + PlacesLeft
    BY <1>1, <2>1, <2>2, <2>4, LessLeft
  <2> QED
    BY <1>1, <2>3, <2>5
<1>3. CASE \/ HeadCut \/ BodyCut \/ BodyComplete \/ Healthz \/ Unknown \/ Unreadable
           \/ Execute \/ CallEnds \/ Respond \/ Close
  <2>1. Total' = Total /\ got' = got
    BY <1>3 DEF HeadCut, BodyCut, BodyComplete, Healthz, Unknown, Unreadable,
                Execute, CallEnds, Respond, Close, clientVars, Total
  <2>2. PlacesLeft' \in Nat /\ PlacesLeft' < PlacesLeft
    BY <1>3 DEF HeadCut, BodyCut, BodyComplete, Healthz, Unknown, Unreadable,
                Execute, CallEnds, Respond, Close, PlacesLeft
  <2>3. HandlerLeft' = Total - got' + PlacesLeft'
    BY <2>1 DEF HandlerLeft
  <2>4. (got < got' /\ PlacesLeft' <= PlacesLeft) \/ (got = got' /\ PlacesLeft' < PlacesLeft)
    BY <2>1, <2>2
  <2>5. Total - got' + PlacesLeft' < Total - got + PlacesLeft
    BY <1>1, <2>1, <2>2, <2>4, LessLeft
  <2> QED
    BY <1>1, <2>3, <2>5
<1>4. CASE ClientSends \/ ClientEnds \/ UNCHANGED vars
  BY <1>1, <1>4 DEF ClientSends, ClientEnds, vars
<1> QED
  BY <1>1, <1>2, <1>3, <1>4 DEF Next, ServerStep

(* Nobody but the client keeps handleClient: it has a bounded number of    *)
(* steps, and waits only where the client still owes it something.         *)
THEOREM HandlerEnds == Spec => HandlerGetsOn
<1>1. RequestInv /\ [Next]_vars =>
        [/\ HandlerLeft \in Nat
         /\ <<phase, got>>' # <<phase, got>> => HandlerLeft' < HandlerLeft
         /\ InReceive /\ Received = {} /\ ~AtEnd =>
              client = "open" /\ (Honest(request) => sent < Total)]_vars
  BY StepsShrink, WaitsForClient
<1> QED
  BY <1>1, RequestInductive, PTL DEF Spec, HandlerGetsOn
=============================================================================
