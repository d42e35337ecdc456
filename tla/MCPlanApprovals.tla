-------------------------- MODULE MCPlanApprovals --------------------------
(* Small instances of PlanApprovals for TLC. *)
EXTENDS PlanApprovals

CONSTANTS t1, t2, t3, t4

AllAuto == [t \in Tasks |-> "auto"]
AllResolved == [t \in Tasks |-> {}]

\* Plans that wait: one that can be run whole and one that stops after its
\* approved step.  Plans that do not: one that stops at its approved step and
\* one that stops before it.
EveryMode ==
  [t \in Tasks |-> CASE t \in {t1, t2} -> "multitool"
                     [] t = t3 -> "multi_agent"
                     [] OTHER -> "auto"]
SomeUnresolved ==
  [t \in Tasks |-> CASE t = t1 -> {} [] t = t2 -> {3} [] t = t3 -> {2}
                     [] OTHER -> {1}]
=============================================================================
