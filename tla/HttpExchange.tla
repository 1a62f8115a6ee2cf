----------------------------- MODULE HttpExchange -----------------------------
(***************************************************************************)
(* What HIDHttpApi promises the client of one connection: at most one call *)
(* on the HID server, then at most one answer, and nothing once the        *)
(* connection is closed.  A success is answered only for a call, or for a  *)
(* request that needs none.                                                *)
(***************************************************************************)
EXTENDS Sequences

CONSTANTS Request, Call, NeedsNoCall(_)

VARIABLES request, calls, answers, over
vars == <<request, calls, answers, over>>

Init == request \in Request /\ calls = <<>> /\ answers = <<>> /\ over = FALSE

Execute ==
  /\ ~over /\ calls = <<>> /\ answers = <<>>
  /\ ~NeedsNoCall(request)
  /\ \E call \in Call : calls' = <<call>>
  /\ UNCHANGED <<request, answers, over>>

Answer ==
  /\ ~over /\ answers = <<>>
  /\ \E status \in {200, 400, 404} :
       /\ status = 200 => calls # <<>> \/ NeedsNoCall(request)
       /\ calls # <<>> => status # 404
       /\ answers' = <<status>>
  /\ UNCHANGED <<request, calls, over>>

End ==
  /\ ~over /\ over' = TRUE
  /\ UNCHANGED <<request, calls, answers>>

Next == Execute \/ Answer \/ End
Spec == Init /\ [][Next]_vars
=============================================================================
