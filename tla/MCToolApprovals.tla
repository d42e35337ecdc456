-------------------------- MODULE MCToolApprovals --------------------------
(* Small instances of ToolApprovals for TLC. *)
EXTENDS ToolApprovals

CONSTANTS t1, t2

\* One task of each kind.
MixedMode == [t \in Tasks |-> IF t = t1 THEN "keyword" ELSE "graph_keyword"]
AllKeyword == [t \in Tasks |-> "keyword"]
AllGraph == [t \in Tasks |-> "graph_keyword"]
=============================================================================
