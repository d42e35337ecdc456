----------------------------- MODULE HumanGate -----------------------------
(***************************************************************************)
(* What the human-in-the-loop flow promises, seen from outside: a          *)
(* high-risk call is requested, a person decides it once and for all, and  *)
(* the call has its effect at most once, after an approval.                *)
(***************************************************************************)
EXTENDS Naturals

CONSTANT ApprovalIds

VARIABLES decision,  \* where each request for approval stands
          effects    \* how often the approved call has had its effect

gate == <<decision, effects>>

Init ==
  /\ decision = [a \in ApprovalIds |-> "absent"]
  /\ effects = [a \in ApprovalIds |-> 0]

Ask(a) ==
  /\ decision[a] = "absent"
  /\ decision' = [decision EXCEPT ![a] = "pending"]
  /\ UNCHANGED effects

Decide(a, d) ==
  /\ decision[a] = "pending"
  /\ decision' = [decision EXCEPT ![a] = d]
  /\ UNCHANGED effects

Effect(a) ==
  /\ decision[a] = "approved" /\ effects[a] = 0
  /\ effects' = [effects EXCEPT ![a] = 1]
  /\ UNCHANGED decision

Next ==
  \E a \in ApprovalIds :
    Ask(a) \/ Decide(a, "approved") \/ Decide(a, "rejected") \/ Effect(a)

Spec == Init /\ [][Next]_gate
=============================================================================
