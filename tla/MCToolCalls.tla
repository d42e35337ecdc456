---------------------------- MODULE MCToolCalls ----------------------------
(* Small instances of ToolCalls for TLC. *)
EXTENDS ToolCalls

\* One tool has a retry policy, the others have none.
OneRetried ==
  LET retried == CHOOSE c \in ToolRequests : TRUE IN
  [c \in ToolRequests |-> IF c = retried THEN 1 ELSE 0]

\* No tool has.
NoneRetried == [c \in ToolRequests |-> 0]
=============================================================================
