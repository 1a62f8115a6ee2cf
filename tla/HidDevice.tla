------------------------------ MODULE HidDevice ------------------------------
(***************************************************************************)
(* What one input characteristic promises the host: at most one thing is   *)
(* held down, nothing new is pressed before it is lifted, and what was     *)
(* pressed is lifted in the end.  The promise is void from the first       *)
(* signal that throws.                                                     *)
(***************************************************************************)
CONSTANTS Holds, Nothing

VARIABLES down, faulted
vars == <<down, faulted>>

Init == down = Nothing /\ faulted = FALSE

Press ==
  /\ ~faulted /\ down = Nothing
  /\ down' \in Holds
  /\ UNCHANGED faulted

Lift ==
  /\ ~faulted /\ down # Nothing
  /\ down' = Nothing
  /\ UNCHANGED faulted

Fault ==
  /\ faulted' = TRUE
  /\ UNCHANGED down

AfterFault ==
  /\ faulted
  /\ down' \in Holds \cup {Nothing}
  /\ UNCHANGED faulted

Next == Press \/ Lift \/ Fault \/ AfterFault

SafeSpec == Init /\ [][Next]_vars
Spec == SafeSpec /\ WF_vars(Lift)
=============================================================================
