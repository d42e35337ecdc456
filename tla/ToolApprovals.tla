--------------------------- MODULE ToolApprovals ---------------------------
(***************************************************************************)
(* The approval flow of a task that is one high-risk tool call: how the    *)
(* task and its approval come to be (AgentKernel and GraphRuntimeAdapter), *)
(* how the approval is decided (ApprovalDecisions) and how the blocked     *)
(* call is resumed, by ApprovalResumeService._resume_keyword or, for a     *)
(* task the graph runtime interrupted, by GraphResumeAdapter.              *)
(*                                                                         *)
(* calls and wins are history variables: how often the gateway ran the     *)
(* tool for an approval, and how often the tool succeeded.                 *)
(***************************************************************************)
EXTENDS ApprovalDecisions

CONSTANT Mode    \* Mode[t]: "keyword", or "graph_keyword" when
                 \* graph_runtime_enabled was set as t was created

ASSUME ModeAssumption == Mode \in [Tasks -> {"keyword", "graph_keyword"}]

VARIABLES created, calls, wins

vars == <<stores, job, faults, created, calls, wins>>

\* Histories count none, one, many.
Many == 2
Count(n) == IF n < Many THEN n + 1 ELSE Many

Init ==
  /\ DecisionsInit
  /\ created = {}
  /\ calls = [a \in ApprovalIds |-> 0]
  /\ wins = [a \in ApprovalIds |-> 0]

history == <<created, calls, wins>>

-----------------------------------------------------------------------------
(* create_task.  The kernel makes the approval while it runs; the task row *)
(* is saved only when the kernel has returned.                             *)

CreateTask(w, t) ==
  /\ At(w, "idle") /\ t \notin created
  /\ created' = created \cup {t}
  /\ PutJob(w, [NoRequest EXCEPT !.task = t, !.verdict = "waiting_approval",
                                 !.at = IF Mode[t] = "keyword"
                                        THEN "new_approval"
                                        ELSE "new_checkpoint"])
  /\ UNCHANGED <<stores, faults, calls, wins>>

\* GraphRuntimeAdapter: the interrupted checkpoint comes first, with no
\* approval id yet.
NewCheckpoint(w) ==
  /\ At(w, "new_checkpoint")
  /\ Goto(w, "new_approval")
  /\ PutCheckpoint(job[w].task,
                    [NoCheckpoint EXCEPT !.status = "interrupted"])
  /\ UNCHANGED <<approvals, tasks, audited, faults, history>>

NewApproval(w) ==
  /\ At(w, "new_approval")
  /\ \E a \in ApprovalIds :
       /\ CreateApproval(a, job[w].task, Mode[job[w].task], 1)
       /\ PutJob(w, [job[w] EXCEPT !.appr = a,
                                   !.at = IF Mode[job[w].task] = "keyword"
                                          THEN "save" ELSE "mark_pending"])
  /\ UNCHANGED <<tasks, checkpoints, audited, faults, history>>

\* mark_pending_interrupt links the checkpoint to its approval.
MarkPendingInterrupt(w) ==
  /\ At(w, "mark_pending")
  /\ Goto(w, "save")
  /\ PutCheckpoint(job[w].task,
       [checkpoints[job[w].task] EXCEPT !.status = "interrupted",
                                        !.approval = job[w].appr])
  /\ UNCHANGED <<approvals, tasks, audited, faults, history>>

\* A store call that raises makes the kernel report a failed task, whatever it
\* has stored already.
CreateFault(w) ==
  /\ job[w].at \in {"new_checkpoint", "new_approval", "mark_pending"}
  /\ PutJob(w, [job[w] EXCEPT !.at = "save", !.verdict = "failed"])
  /\ Fault
  /\ UNCHANGED <<stores, history>>

Save(w) ==
  /\ At(w, "save")
  /\ Done(w)
  /\ SaveTask(job[w].task, job[w].verdict)
  /\ UNCHANGED <<approvals, checkpoints, audited, faults, history>>

-----------------------------------------------------------------------------
(* _resume_keyword: call the tool, write the task, then consume the        *)
(* approval when the tool succeeded.                                       *)

Resume(w) ==
  /\ ResumeEntry(w, [keyword |-> "call", graph_keyword |-> "claim"])
  /\ UNCHANGED history

\* ToolGateway.call: never raises, and says whether the tool succeeded.
CallGateway(w, success) ==
  /\ calls' = [calls EXCEPT ![job[w].appr] = Count(@)]
  /\ wins' = IF success THEN [wins EXCEPT ![job[w].appr] = Count(@)] ELSE wins

\* Faulty: a status no task has.
VerdictUnknown(success) == IF success THEN "executed" ELSE "failed"

Verdict(success) == IF success THEN "completed" ELSE "failed"

CallTool(w) ==
  /\ At(w, "call")
  /\ \E success \in BOOLEAN :
       /\ CallGateway(w, success)
       /\ PutJob(w, [job[w] EXCEPT !.at = "task", !.verdict = Verdict(success),
                                   !.consumed = success])
  /\ UNCHANGED <<stores, faults, created>>

UpdateTask(w) ==
  /\ At(w, "task")
  /\ Goto(w, "payload_read")
  /\ UpdateTaskStatus(job[w].task, job[w].verdict)
  /\ UNCHANGED <<approvals, checkpoints, audited, faults, history>>

\* The except branch of _resume_keyword also catches a task store that raises
\* after the tool has run: the result says the step was not executed.
UpdateTaskFault(w) ==
  /\ At(w, "task")
  /\ PutJob(w, [job[w] EXCEPT !.at = "task_failed", !.verdict = "failed",
                              !.consumed = FALSE])
  /\ Fault
  /\ UNCHANGED <<stores, history>>

UpdateTaskFailed(w) ==
  /\ At(w, "task_failed")
  /\ Goto(w, "payload_read")
  /\ UpdateTaskStatus(job[w].task, "failed")
  /\ UNCHANGED <<approvals, checkpoints, audited, faults, history>>

-----------------------------------------------------------------------------
(* GraphResumeAdapter.resume: claim the checkpoint, call the tool, write   *)
(* the task, the checkpoint and the approval.                              *)

\* Faulty: does not look at the status.
ClaimableInAnyStatus(t, a) ==
  checkpoints[t].approval = a /\ ~checkpoints[t].consumed

Claimable(t, a) ==
  /\ checkpoints[t].status = "interrupted"
  /\ checkpoints[t].approval = a
  /\ ~checkpoints[t].consumed

\* claim_for_resume is one conditional UPDATE; a caller it turns away only
\* reads the checkpoint to explain why.
Claim(w) ==
  /\ At(w, "claim")
  /\ IF Claimable(job[w].task, job[w].appr)
     THEN /\ Goto(w, "graph_call")
          /\ PutCheckpoint(job[w].task,
               [checkpoints[job[w].task] EXCEPT !.status = "resuming"])
     ELSE Done(w) /\ UNCHANGED checkpoints
  /\ UNCHANGED <<approvals, tasks, audited, faults, history>>

\* A failed or raising tool consumes the approval as well.
GraphCallTool(w) ==
  /\ At(w, "graph_call")
  /\ \E success \in BOOLEAN :
       /\ CallGateway(w, success)
       /\ PutJob(w, [job[w] EXCEPT !.at = "graph_task",
                                   !.verdict = Verdict(success),
                                   !.consumed = TRUE])
  /\ UNCHANGED <<stores, faults, created>>

GraphUpdateTask(w) ==
  /\ At(w, "graph_task")
  /\ Goto(w, "mark_resumed")
  /\ UpdateTaskStatus(job[w].task, job[w].verdict)
  /\ UNCHANGED <<approvals, checkpoints, audited, faults, history>>

\* Faulty: leaves the consumed mark to somebody else.
MarkResumedUnconsumed(w) ==
  /\ At(w, "mark_resumed")
  /\ Goto(w, "payload_read")
  /\ PutCheckpoint(job[w].task,
                   [checkpoints[job[w].task] EXCEPT !.status = "resumed"])
  /\ UNCHANGED <<approvals, tasks, audited, faults, history>>

\* mark_resumed has no guard.
MarkResumed(w) ==
  /\ At(w, "mark_resumed")
  /\ Goto(w, "payload_read")
  /\ PutCheckpoint(job[w].task,
       [checkpoints[job[w].task] EXCEPT !.status = "resumed",
                                        !.consumed = TRUE])
  /\ UNCHANGED <<approvals, tasks, audited, faults, history>>

-----------------------------------------------------------------------------
CreateSteps(w) ==
  NewCheckpoint(w) \/ NewApproval(w) \/ MarkPendingInterrupt(w) \/ Save(w)

ResumeSteps(w) ==
  \/ Resume(w) \/ CallTool(w) \/ UpdateTask(w) \/ UpdateTaskFailed(w)
  \/ Claim(w) \/ GraphCallTool(w) \/ GraphUpdateTask(w) \/ MarkResumed(w)

\* The steps a request under way takes by itself, one at a time.
Serve(w) ==
  \/ DecisionSteps(w) /\ UNCHANGED history
  \/ CreateSteps(w)
  \/ ResumeSteps(w)

Step(w) ==
  \/ Serve(w)
  \/ DecisionRequests(w) /\ UNCHANGED history
  \/ \E t \in Tasks : CreateTask(w, t)
  \/ DecisionFaults(w) /\ UNCHANGED history
  \/ CreateFault(w)
  \/ UpdateTaskFault(w)

Next == \E w \in Workers : Step(w)

Spec == Init /\ [][Next]_vars

\* A process keeps running the request it serves; clients owe nothing.
FairSpec == Spec /\ \A w \in Workers : WF_vars(Serve(w))

-----------------------------------------------------------------------------
(* Properties.                                                             *)

Points == {"idle", "decide", "decide_select", "decide_write", "audit",
           "cancel_task", "cancel_checkpoint", "resume", "payload_read",
           "payload_write", "new_checkpoint", "new_approval", "mark_pending",
           "save", "call", "task", "task_failed", "claim", "graph_call",
           "graph_task", "mark_resumed"}

Rows == [status : RowStatus, task : Tasks \cup {NoTask},
         mode : {"none", "keyword", "graph_keyword"}, step : {0, 1},
         resumed : BOOLEAN]
CheckpointRows ==
  [status : {"absent", "interrupted", "resuming", "resumed", "cancelled"},
   approval : ApprovalIds \cup {NoApproval}, consumed : BOOLEAN]
Requests == [at : Points, appr : ApprovalIds \cup {NoApproval},
             task : Tasks \cup {NoTask}, verb : Decisions,
             verdict : TaskStatus, consumed : BOOLEAN, seen : BOOLEAN,
             step : {0}]

\* The rows of the stores and the requests under way are well formed.
TypeOK ==
  /\ approvals \in [ApprovalIds -> Rows]
  /\ tasks \in [Tasks -> TaskStatus]
  /\ checkpoints \in [Tasks -> CheckpointRows]
  /\ audited \in [ApprovalIds -> SUBSET Decisions]
  /\ job \in [Workers -> Requests]
  /\ faults \in 0..MaxFaults
  /\ created \subseteq Tasks
  /\ calls \in [ApprovalIds -> 0..Many]
  /\ wins \in [ApprovalIds -> 0..Many]

IsGraph(a) == approvals[a].mode = "graph_keyword"

\* No tool runs for an approval nobody approved, however requests interleave
\* and wherever they are cut short.
ApprovedBeforeCall ==
  \A a \in ApprovalIds : calls[a] > 0 => approvals[a].status = "approved"

\* claim_for_resume: a graph approval runs its tool at most once, whatever the
\* number of workers, retries and crashes.
GraphCallsOnce == \A a \in ApprovalIds : IsGraph(a) => calls[a] <= 1

\* Only one worker at a time is past the claim of a checkpoint.
ClaimExclusive ==
  \A w, v \in Workers :
    /\ job[w].at \in {"graph_call", "graph_task", "mark_resumed"}
    /\ job[v].at \in {"graph_call", "graph_task", "mark_resumed"}
    /\ job[w].task = job[v].task
    => w = v

\* A tool that succeeded for an approval never runs with success again for it:
\* a repeated resume does not repeat the call.
EffectOnce == \A a \in ApprovalIds : wins[a] <= 1

\* An approval is marked consumed only after its tool ran; in keyword mode only
\* after it succeeded.
ConsumedMeansRun ==
  \A a \in ApprovalIds : approvals[a].resumed =>
    calls[a] > 0 /\ (IsGraph(a) \/ wins[a] > 0)

\* A decided approval keeps its decision: the second decision of two racing
\* requests is turned away.
DecisionFinal ==
  [][\A a \in ApprovalIds : approvals[a].status \in Decisions =>
       approvals'[a].status = approvals[a].status]_vars

\* The audit log holds the decision the approval has, and no other.
AuditTellsDecision ==
  \A a \in ApprovalIds : audited[a] \subseteq {approvals[a].status}

Quiet == \A w \in Workers : At(w, "idle")

\* When no request is under way, the task and the checkpoint agree with the
\* approval: pending waits, rejected is cancelled, consumed has ended, and an
\* approval that can still be resumed has not been executed with success.
StoresAgree ==
  Quiet => \A a \in ApprovalIds : approvals[a].status # "absent" =>
    LET row == approvals[a]
        task == tasks[row.task]
        point == checkpoints[row.task].status
    IN /\ row.status = "pending" => task = "waiting_approval"
       /\ row.status = "rejected" => task = "cancelled"
       /\ row.resumed => task \in {"completed", "failed"}
       /\ row.status = "approved" /\ ~row.resumed =>
            task \in {"waiting_approval", "failed"} /\ wins[a] = 0
       /\ IsGraph(a) => point =
            CASE row.resumed -> "resumed"
              [] row.status = "rejected" -> "cancelled"
              [] OTHER -> "interrupted"

\* A claimed checkpoint does not stay "resuming": the claim is never undone
\* but by the worker that made it.
ClaimSettles ==
  \A t \in Tasks : checkpoints[t].status = "resuming" ~> checkpoints[t].consumed

\* The task of a rejected approval ends up cancelled.
RejectionCancels ==
  \A a \in ApprovalIds, t \in Tasks :
    approvals[a].status = "rejected" /\ approvals[a].task = t
      ~> tasks[t] = "cancelled"

\* A resume that was let in ends with the approval consumed, or with a failed
\* task whose approval can be resumed again.
ResumeConcludes ==
  \A a \in ApprovalIds, t \in Tasks :
    (\E w \in Workers : At(w, "resume") /\ job[w].appr = a /\ job[w].task = t
                         /\ a \notin Refused)
      ~> (approvals[a].resumed \/ tasks[t] = "failed")

\* The flow implements the gate.  The effect of a graph approval is its call,
\* of a keyword approval the call that succeeds.
Gate == INSTANCE HumanGate WITH
  decision <- [a \in ApprovalIds |-> approvals[a].status],
  effects <- [a \in ApprovalIds |-> IF IsGraph(a) THEN calls[a] ELSE wins[a]]
GateSpec == Gate!Spec
=============================================================================
