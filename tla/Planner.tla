------------------------------- MODULE Planner -------------------------------
(***************************************************************************)
(* from_llm of services/planner: a loop over the steps a language model    *)
(* proposes, which leaves out those whose target holds a blocked term and  *)
(* gives up at an action it does not know.  A text is the set of the terms *)
(* it contains, whatever the case of their letters; the policy is the one  *)
(* of Policy, the patterns are those of configs/policy.yml.                *)
(***************************************************************************)
EXTENDS Integers, Sequences

CONSTANTS MaxSteps   \* bound: steps proposed

Terms == {"format", "delete", "erase", "rm -rf", "settings"}
Text == {{term} : term \in Terms} \cup {{}}
StepTypes == {"click", "type", "move"}

(* A proposed step.  A missing action is a click; every key but action and *)
(* target goes to the payload.                                             *)
Proposal == [action : {"missing", "click", "type", "scroll"}, target : Text, payload : Text]

VARIABLES
  steps,   \* proposed steps not visited yet
  idx,     \* number of the next one
  plan,    \* valid_steps
  ended    \* "no", "plan" (returned) or "error" (ValueError)

vars == <<steps, idx, plan, ended>>

Init ==
  /\ steps \in UNION {[1 .. n -> Proposal] : n \in 0 .. MaxSteps}
  /\ idx = 1 /\ plan = <<>> /\ ended = "no"

blocked == {"format", "delete"}
IsAllowed(text) == text \cap blocked = {}

NextStep == steps' = Tail(steps) /\ idx' = idx + 1

Skip ==
  /\ ended = "no" /\ steps # <<>>
  /\ ~IsAllowed(Head(steps).target)
  /\ NextStep
  /\ UNCHANGED <<plan, ended>>

ActionOf(step) == IF step.action = "missing" THEN "click" ELSE step.action

Accept ==
  /\ ended = "no" /\ steps # <<>>
  /\ LET step == Head(steps)
     IN  /\ IsAllowed(step.target)
         /\ ActionOf(step) \in StepTypes
         /\ plan' = Append(plan, [id |-> idx, type |-> ActionOf(step),
                                  target |-> step.target, payload |-> step.payload])
  /\ NextStep
  /\ UNCHANGED ended

(* StepType raises: the whole plan is lost.                                *)
UnknownAction ==
  /\ ended = "no" /\ steps # <<>>
  /\ IsAllowed(Head(steps).target)
  /\ ActionOf(Head(steps)) \notin StepTypes
  /\ ended' = "error"
  /\ UNCHANGED <<steps, idx, plan>>

ReturnPlan ==
  /\ ended = "no" /\ steps = <<>>
  /\ ended' = "plan"
  /\ UNCHANGED <<steps, idx, plan>>

Next == Skip \/ Accept \/ UnknownAction \/ ReturnPlan
Spec == Init /\ [][Next]_vars

-----------------------------------------------------------------------------
blockPatterns == {"delete", "erase", "format", "rm -rf"}

(* A plan that is returned holds no step that matches a pattern of         *)
(* configs/policy.yml, neither in its target nor in what it would type.    *)
PolicyEnforced ==
  ended = "plan" =>
    \A i \in DOMAIN plan : (plan[i].target \cup plan[i].payload) \cap blockPatterns = {}
=============================================================================
