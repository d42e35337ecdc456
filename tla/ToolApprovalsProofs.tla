------------------------ MODULE ToolApprovalsProofs ------------------------
(***************************************************************************)
(* Proofs about ToolApprovals for any number of tasks, approvals, requests *)
(* and servers, on either backend.                                         *)
(*                                                                         *)
(* First with all races and faults.  Then as the application is shipped:   *)
(* one process, whose requests run to their end.                           *)
(***************************************************************************)
EXTENDS ToolApprovals, TLAPS

-----------------------------------------------------------------------------
(* Well-formedness: which approval and task a request at a given point is  *)
(* about.                                                                  *)

\* Points of a request at which its approval exists.
Bound == Points \ {"idle", "new_checkpoint", "new_approval", "save"}
GraphPoints == {"new_checkpoint", "mark_pending", "claim", "graph_call",
                "graph_task", "mark_resumed"}
KeywordPoints == {"call", "task", "task_failed"}

\* A row that exists names a task and has the mode of that task.
RowOK(a) ==
  IF approvals[a].status = "absent"
  THEN /\ approvals[a].mode = "none" /\ ~approvals[a].resumed
       /\ calls[a] = 0 /\ wins[a] = 0
  ELSE approvals[a].task \in Tasks
       /\ approvals[a].mode = Mode[approvals[a].task]

\* A request under way has its task and, once bound, its approval.
RequestOK(w) ==
  /\ job[w].at # "idle" => job[w].task \in Tasks
  /\ job[w].at \in Bound =>
       /\ job[w].appr \in ApprovalIds
       /\ approvals[job[w].appr].status # "absent"
       /\ approvals[job[w].appr].task = job[w].task
  /\ job[w].at \in GraphPoints => Mode[job[w].task] = "graph_keyword"
  /\ job[w].at \in KeywordPoints => Mode[job[w].task] = "keyword"

WellFormed ==
  /\ TypeOK
  /\ \A a \in ApprovalIds : RowOK(a)
  /\ \A w \in Workers : RequestOK(w)

\* Initially nothing exists and nobody is at work.
LEMMA WellFormedInit == Init => WellFormed
BY DecisionsAssumption, ModeAssumption
   DEF Init, DecisionsInit, WellFormed, TypeOK, RowOK, RequestOK,
   NoRow, NoCheckpoint, NoRequest, GraphPoints, KeywordPoints, Rows,
   CheckpointRows, Requests, RowStatus, TaskStatus, Decisions, Points, Bound,
   Many

\* Only the request of w may have changed.
OnlyJob(w) ==
  /\ job' \in [Workers -> Requests]
  /\ \A v \in Workers \ {w} : job'[v] = job[v]

\* PutJob changes the request of one worker, PutRow one row and PutCheckpoint
\* one checkpoint.
LEMMA JobPut ==
  ASSUME job \in [Workers -> Requests], NEW w \in Workers, NEW r \in Requests,
         PutJob(w, r)
  PROVE  OnlyJob(w) /\ job'[w] = r
BY DEF PutJob, OnlyJob

\* PutRow writes one row and leaves the others.
LEMMA RowPut ==
  ASSUME approvals \in [ApprovalIds -> Rows], NEW a \in ApprovalIds,
         NEW row \in Rows, PutRow(a, row)
  PROVE  /\ approvals' \in [ApprovalIds -> Rows] /\ approvals'[a] = row
         /\ \A b \in ApprovalIds \ {a} : approvals'[b] = approvals[b]
BY DEF PutRow

\* PutCheckpoint writes one checkpoint and leaves the others.
LEMMA CheckpointPut ==
  ASSUME checkpoints \in [Tasks -> CheckpointRows], NEW t \in Tasks,
         NEW c \in CheckpointRows, PutCheckpoint(t, c)
  PROVE  /\ checkpoints' \in [Tasks -> CheckpointRows] /\ checkpoints'[t] = c
         /\ \A u \in Tasks \ {t} : checkpoints'[u] = checkpoints[u]
BY DEF PutCheckpoint

\* Goto moves one request and changes nothing else about it.
LEMMA GotoJob ==
  ASSUME job \in [Workers -> Requests], NEW w \in Workers, NEW p \in Points,
         Goto(w, p)
  PROVE  OnlyJob(w) /\ job'[w] = [job[w] EXCEPT !.at = p] /\ job'[w].at = p
         /\ job'[w].appr = job[w].appr /\ job'[w].task = job[w].task
         /\ job'[w].consumed = job[w].consumed
<1> DEFINE r == [job[w] EXCEPT !.at = p]
<1>1. r \in Requests /\ r.at = p /\ r.appr = job[w].appr /\ r.task = job[w].task
      /\ r.consumed = job[w].consumed
  BY DEF Requests
<1>2. PutJob(w, r)
  BY DEF Goto
<1> HIDE DEF r
<1>3. OnlyJob(w) /\ job'[w] = r
  BY <1>1, <1>2, JobPut
<1> QED
  BY <1>1, <1>3 DEF r

\* Done leaves the worker idle and the others as they were.
LEMMA DoneJob ==
  ASSUME job \in [Workers -> Requests], NEW w \in Workers, Done(w)
  PROVE  OnlyJob(w) /\ job'[w] = NoRequest /\ job'[w].at = "idle"
<1>1. NoRequest \in Requests /\ NoRequest.at = "idle"
  BY DEF NoRequest, Requests, Points, Decisions, TaskStatus
<1> QED
  BY <1>1, JobPut DEF Done

\* An existing row keeps its task and mode.
RowsKept ==
  \A a \in ApprovalIds : approvals[a].status # "absent" =>
    /\ approvals'[a].status # "absent"
    /\ approvals'[a].task = approvals[a].task
    /\ approvals'[a].mode = approvals[a].mode

\* A request that arrives is about to decide or to resume.
LEMMA Requested ==
  ASSUME job \in [Workers -> Requests], NEW w \in Workers, DecisionRequests(w)
  PROVE  job'[w].at \in {"decide", "resume"} /\ UNCHANGED <<stores, faults>>
<1>1. PICK a \in ApprovalIds, p \in {"decide", "resume"}, v \in Decisions :
        Request(w, a, p, v)
  BY DEF DecisionRequests, Approve, Reject, ManualResume, Decisions
<1>2. job'[w] = [NoRequest EXCEPT !.at = p, !.appr = a, !.verb = v,
                                  !.task = approvals[a].task]
  BY <1>1 DEF Request, PutJob
<1>3. job'[w].at = p
  BY <1>2 DEF NoRequest
<1> QED
  BY <1>1, <1>3 DEF Request

\* A request that has its approval keeps it on its way to a point of any mode.
LEMMA GotoOK ==
  ASSUME job \in [Workers -> Requests], NEW w \in Workers, RequestOK(w),
         job[w].at \in Bound, RowsKept,
         NEW p \in Points \ (GraphPoints \cup KeywordPoints), Goto(w, p)
  PROVE  RequestOK(w)' /\ OnlyJob(w)
<1>1. /\ OnlyJob(w) /\ job'[w].at = p
      /\ job'[w].appr = job[w].appr /\ job'[w].task = job[w].task
  BY GotoJob
<1>2. job[w].task \in Tasks /\ job[w].appr \in ApprovalIds
      /\ approvals[job[w].appr].status # "absent"
      /\ approvals[job[w].appr].task = job[w].task
  BY DEF RequestOK, Bound
<1>3. approvals'[job[w].appr].status # "absent"
      /\ approvals'[job[w].appr].task = job[w].task
  BY <1>2 DEF RowsKept
<1> QED
  BY <1>1, <1>2, <1>3 DEF RequestOK

\* An idle worker is in order.
LEMMA DoneOK ==
  ASSUME job \in [Workers -> Requests], NEW w \in Workers, Done(w)
  PROVE  RequestOK(w)' /\ OnlyJob(w)
BY DoneJob DEF RequestOK, Bound, GraphPoints, KeywordPoints

\* What every step of worker w does.
Moved(w) == WellFormed' /\ OnlyJob(w) /\ RowsKept

\* What is left to show of a step that moves the request of one worker.
LEMMA StepOfOne ==
  ASSUME WellFormed, NEW w \in Workers, OnlyJob(w), RowsKept, RequestOK(w)',
         \A a \in ApprovalIds : RowOK(a)',
         TypeOK'
  PROVE  Moved(w)
BY DEF Moved, WellFormed, RequestOK, OnlyJob, RowsKept, Bound

\* A step that leaves the approvals and the histories of calls alone has only
\* its request and the types of the other stores to show.
LEMMA StepOfRequest ==
  ASSUME WellFormed, NEW w \in Workers, OnlyJob(w), RequestOK(w)',
         UNCHANGED <<approvals, calls, wins>>,
         tasks' \in [Tasks -> TaskStatus],
         checkpoints' \in [Tasks -> CheckpointRows],
         audited' \in [ApprovalIds -> SUBSET Decisions],
         faults' \in 0..MaxFaults, created' \subseteq Tasks
  PROVE  Moved(w)
<1>1. RowsKept
  BY DEF RowsKept
<1>2. TypeOK'
  BY DEF WellFormed, TypeOK, OnlyJob
<1>3. \A a \in ApprovalIds : RowOK(a)'
  BY DEF WellFormed, RowOK
<1> QED
  BY <1>1, <1>2, <1>3, StepOfOne

\* One more fault stays within the bound.
LEMMA FaultBound == ASSUME TypeOK, Fault PROVE faults' \in 0..MaxFaults
BY DecisionsAssumption DEF TypeOK, Fault

\* A task's status stays a status.
LEMMA TaskUpdated ==
  ASSUME TypeOK, NEW t \in Tasks, NEW s \in TaskStatus,
         UpdateTaskStatus(t, s) \/ SaveTask(t, s)
  PROVE  tasks' \in [Tasks -> TaskStatus]
BY DEF TypeOK, UpdateTaskStatus, SaveTask

\* Count stays within the range of a history.
LEMMA Counted == \A i \in 0..Many : Count(i) \in 0..Many
BY DEF Count, Many

\* Every step of a worker keeps the state well formed.
LEMMA WellFormedStep ==
  ASSUME WellFormed, NEW w \in Workers, Step(w)
  PROVE  Moved(w)
<1> USE DecisionsAssumption, ModeAssumption
<1>a. TypeOK /\ job \in [Workers -> Requests]
  BY DEF WellFormed, TypeOK
<1>b. RequestOK(w)
  BY DEF WellFormed
<1>c. ASSUME NEW a \in ApprovalIds, approvals[a].status # "absent"
      PROVE  approvals[a].task \in Tasks
             /\ approvals[a].mode = Mode[approvals[a].task]
  BY <1>c DEF WellFormed, RowOK
<1>1. CASE DecideRead(w) /\ UNCHANGED history
  <2>1. Goto(w, "decide_select") \/ Goto(w, "decide_write") \/ Done(w)
    BY <1>1 DEF DecideRead
  <2>2. RequestOK(w)' /\ OnlyJob(w)
    BY <1>1, <2>1, <1>a, <1>b, GotoJob, DoneJob
       DEF DecideRead, At, stores, NoRequest, Points, Bound, GraphPoints, KeywordPoints, RequestOK
  <2> QED
    BY <1>1, <2>2, <1>a, StepOfRequest DEF DecideRead, stores, history, TypeOK
<1>2. CASE DecideSelect(w) /\ UNCHANGED history
  <2>1. Goto(w, "decide_write") \/ Done(w)
    BY <1>2 DEF DecideSelect
  <2>2. RequestOK(w)' /\ OnlyJob(w)
    BY <1>2, <2>1, <1>a, <1>b, GotoJob, DoneJob
       DEF DecideSelect, At, stores, NoRequest, Points, Bound, GraphPoints, KeywordPoints, RequestOK
  <2> QED
    BY <1>2, <2>2, <1>a, StepOfRequest DEF DecideSelect, stores, history, TypeOK
<1>3. CASE PayloadRead(w) /\ UNCHANGED history
  <2> DEFINE r == [job[w] EXCEPT !.at = "payload_write",
                                 !.seen = approvals[job[w].appr].resumed]
  <2>1. approvals[job[w].appr].resumed \in BOOLEAN /\ job[w] \in Requests
    <3>1. job[w].appr \in ApprovalIds
      BY <1>3, <1>b DEF PayloadRead, At, RequestOK, Bound, Points
    <3> QED
      BY <3>1, <1>a DEF TypeOK, Rows
  <2>2. r \in Requests /\ r.at = "payload_write" /\ r.appr = job[w].appr
        /\ r.task = job[w].task
    BY <2>1 DEF Requests, Points
  <2>3. PutJob(w, r)
    BY <1>3 DEF PayloadRead
  <2> HIDE DEF r
  <2>4. OnlyJob(w) /\ job'[w] = r
    BY <2>2, <2>3, <1>a, JobPut
  <2>5. RequestOK(w)'
    BY <1>3, <2>2, <2>4, <1>b DEF PayloadRead, At, stores, Points, Bound, GraphPoints, KeywordPoints, RequestOK
  <2> QED
    BY <1>3, <2>4, <2>5, <1>a, StepOfRequest DEF PayloadRead, stores, history, TypeOK
<1>4. CASE Resume(w)
  <2>1. job[w].appr \in ApprovalIds /\ job[w].task \in Tasks
        /\ approvals[job[w].appr].mode = Mode[job[w].task]
    BY <1>4, <1>b, <1>c DEF Resume, ResumeEntry, At, Points, Bound, RequestOK
  <2>2. Mode[job[w].task] \in {"keyword", "graph_keyword"}
    BY <2>1
  <2>3. CASE Mode[job[w].task] = "keyword"
    <3>1. Done(w) \/ Goto(w, "call")
      BY <1>4, <2>1, <2>3 DEF Resume, ResumeEntry
    <3>2. RequestOK(w)' /\ OnlyJob(w)
      BY <1>4, <2>3, <3>1, <1>a, <1>b, GotoJob, DoneJob
         DEF Resume, ResumeEntry, At, stores, NoRequest, Points, Bound, GraphPoints, KeywordPoints, RequestOK
    <3> QED
      BY <1>4, <3>2, <1>a, StepOfRequest DEF Resume, ResumeEntry, stores, history, TypeOK
  <2>4. CASE Mode[job[w].task] = "graph_keyword"
    <3>1. Done(w) \/ Goto(w, "claim")
      BY <1>4, <2>1, <2>4 DEF Resume, ResumeEntry
    <3>2. RequestOK(w)' /\ OnlyJob(w)
      BY <1>4, <2>4, <3>1, <1>a, <1>b, GotoJob, DoneJob
         DEF Resume, ResumeEntry, At, stores, NoRequest, Points, Bound, GraphPoints, KeywordPoints, RequestOK
    <3> QED
      BY <1>4, <3>2, <1>a, StepOfRequest DEF Resume, ResumeEntry, stores, history, TypeOK
  <2> QED
    BY <2>2, <2>3, <2>4
<1>5. CASE CancelTaskFault(w) /\ UNCHANGED history
  <2>1. RequestOK(w)' /\ OnlyJob(w)
    BY <1>5, <1>a, <1>b, GotoJob DEF CancelTaskFault, At, stores, Points, Bound, GraphPoints, KeywordPoints, RequestOK
  <2> QED
    BY <1>5, <2>1, <1>a, FaultBound, StepOfRequest
       DEF CancelTaskFault, stores, history, TypeOK
<1>6. CASE Abort(w) /\ UNCHANGED history
  <2>1. RequestOK(w)' /\ OnlyJob(w)
    BY <1>6, <1>a, <1>b, DoneJob DEF Abort, Points, Bound, GraphPoints, KeywordPoints, RequestOK
  <2> QED
    BY <1>6, <2>1, <1>a, FaultBound, StepOfRequest
       DEF Abort, stores, history, TypeOK
<1>7. CASE CreateFault(w)
  <2> DEFINE r == [job[w] EXCEPT !.at = "save", !.verdict = "failed"]
  <2>1. r \in Requests /\ r.at = "save" /\ r.appr = job[w].appr
        /\ r.task = job[w].task
    <3>1. job[w] \in Requests
      BY <1>a
    <3>2. "save" \in Points /\ "failed" \in TaskStatus
      BY DEF Points, TaskStatus
    <3> QED
      BY <3>1, <3>2 DEF Requests
  <2>2. PutJob(w, r)
    BY <1>7 DEF CreateFault
  <2> HIDE DEF r
  <2>3. OnlyJob(w) /\ job'[w] = r
    BY <2>1, <2>2, <1>a, JobPut
  <2>4. RequestOK(w)'
    BY <1>7, <2>1, <2>3, <1>b DEF CreateFault, At, stores, Points, Bound, GraphPoints, KeywordPoints, RequestOK
  <2> QED
    BY <1>7, <2>3, <2>4, <1>a, FaultBound, StepOfRequest
       DEF CreateFault, stores, history, TypeOK
<1>8. CASE UpdateTaskFault(w)
  <2> DEFINE r == [job[w] EXCEPT !.at = "task_failed", !.verdict = "failed",
                                 !.consumed = FALSE]
  <2>1. r \in Requests /\ r.at = "task_failed" /\ r.appr = job[w].appr
        /\ r.task = job[w].task
    <3>1. job[w] \in Requests
      BY <1>a
    <3>2. "task_failed" \in Points /\ "failed" \in TaskStatus
      BY DEF Points, TaskStatus
    <3> QED
      BY <3>1, <3>2 DEF Requests
  <2>2. PutJob(w, r)
    BY <1>8 DEF UpdateTaskFault
  <2> HIDE DEF r
  <2>3. OnlyJob(w) /\ job'[w] = r
    BY <2>1, <2>2, <1>a, JobPut
  <2>4. RequestOK(w)'
    BY <1>8, <2>1, <2>3, <1>b DEF UpdateTaskFault, At, stores, Points, Bound, GraphPoints, KeywordPoints, RequestOK
  <2> QED
    BY <1>8, <2>3, <2>4, <1>a, FaultBound, StepOfRequest
       DEF UpdateTaskFault, stores, history, TypeOK
<1>9. CASE CancelTask(w) /\ UNCHANGED history
  <2>1. RequestOK(w)' /\ OnlyJob(w)
    BY <1>9, <1>a, <1>b, GotoJob, DoneJob
       DEF CancelTask, At, NoRequest, Points, Bound, GraphPoints, KeywordPoints, RequestOK
  <2>2. job[w].task \in Tasks /\ "cancelled" \in TaskStatus
    BY <1>9, <1>a, <1>b DEF CancelTask, At, RequestOK, Requests, TaskStatus
  <2>3. tasks' \in [Tasks -> TaskStatus]
    BY <1>9, <2>2, <1>a, TaskUpdated DEF CancelTask
  <2> QED
    BY <1>9, <2>1, <2>3, <1>a, StepOfRequest DEF CancelTask, history, TypeOK
<1>10. CASE UpdateTask(w)
  <2>1. RequestOK(w)' /\ OnlyJob(w)
    BY <1>10, <1>a, <1>b, GotoJob, DoneJob
       DEF UpdateTask, At, NoRequest, Points, Bound, GraphPoints, KeywordPoints, RequestOK
  <2>2. job[w].task \in Tasks /\ job[w].verdict \in TaskStatus
    BY <1>10, <1>a, <1>b DEF UpdateTask, At, RequestOK, Requests, TaskStatus
  <2>3. tasks' \in [Tasks -> TaskStatus]
    BY <1>10, <2>2, <1>a, TaskUpdated DEF UpdateTask
  <2> QED
    BY <1>10, <2>1, <2>3, <1>a, StepOfRequest DEF UpdateTask, history, TypeOK
<1>11. CASE UpdateTaskFailed(w)
  <2>1. RequestOK(w)' /\ OnlyJob(w)
    BY <1>11, <1>a, <1>b, GotoJob, DoneJob
       DEF UpdateTaskFailed, At, NoRequest, Points, Bound, GraphPoints, KeywordPoints, RequestOK
  <2>2. job[w].task \in Tasks /\ "failed" \in TaskStatus
    BY <1>11, <1>a, <1>b DEF UpdateTaskFailed, At, RequestOK, Requests, TaskStatus
  <2>3. tasks' \in [Tasks -> TaskStatus]
    BY <1>11, <2>2, <1>a, TaskUpdated DEF UpdateTaskFailed
  <2> QED
    BY <1>11, <2>1, <2>3, <1>a, StepOfRequest DEF UpdateTaskFailed, history, TypeOK
<1>12. CASE GraphUpdateTask(w)
  <2>1. RequestOK(w)' /\ OnlyJob(w)
    BY <1>12, <1>a, <1>b, GotoJob, DoneJob
       DEF GraphUpdateTask, At, NoRequest, Points, Bound, GraphPoints, KeywordPoints, RequestOK
  <2>2. job[w].task \in Tasks /\ job[w].verdict \in TaskStatus
    BY <1>12, <1>a, <1>b DEF GraphUpdateTask, At, RequestOK, Requests, TaskStatus
  <2>3. tasks' \in [Tasks -> TaskStatus]
    BY <1>12, <2>2, <1>a, TaskUpdated DEF GraphUpdateTask
  <2> QED
    BY <1>12, <2>1, <2>3, <1>a, StepOfRequest DEF GraphUpdateTask, history, TypeOK
<1>13. CASE Save(w)
  <2>1. RequestOK(w)' /\ OnlyJob(w)
    BY <1>13, <1>a, <1>b, GotoJob, DoneJob
       DEF Save, At, NoRequest, Points, Bound, GraphPoints, KeywordPoints, RequestOK
  <2>2. job[w].task \in Tasks /\ job[w].verdict \in TaskStatus
    BY <1>13, <1>a, <1>b DEF Save, At, RequestOK, Requests, TaskStatus
  <2>3. tasks' \in [Tasks -> TaskStatus]
    BY <1>13, <2>2, <1>a, TaskUpdated DEF Save
  <2> QED
    BY <1>13, <2>1, <2>3, <1>a, StepOfRequest DEF Save, history, TypeOK
<1>14. CASE AuditDecision(w) /\ UNCHANGED history
  <2>1. /\ At(w, "audit") /\ UNCHANGED approvals
        /\ Goto(w, "cancel_task") \/ Goto(w, "resume") \/ Done(w)
    BY <1>14 DEF AuditDecision
  <2>2. RequestOK(w)' /\ OnlyJob(w)
    <3>1. job[w].at \in Bound /\ RowsKept
      BY <2>1 DEF At, Bound, Points, RowsKept
    <3>2. {"cancel_task", "resume"} \subseteq Points \ (GraphPoints \cup KeywordPoints)
      BY DEF Points, GraphPoints, KeywordPoints
    <3> QED
      BY <2>1, <3>1, <3>2, <1>a, <1>b, GotoOK, DoneOK
  <2>3. job[w].verb \in Decisions
    BY <1>a DEF Requests
  <2>4. audited' \in [ApprovalIds -> SUBSET Decisions]
    BY <1>14, <2>3, <1>a DEF AuditDecision, TypeOK
  <2> QED
    BY <1>14, <2>2, <2>4, <1>a, StepOfRequest DEF AuditDecision, history, TypeOK
<1>15. CASE NewCheckpoint(w)
  <2> DEFINE c == [NoCheckpoint EXCEPT !.status = "interrupted"]
  <2>1. RequestOK(w)' /\ OnlyJob(w)
    <3>1. At(w, "new_checkpoint") /\ Goto(w, "new_approval") /\ UNCHANGED approvals
      BY <1>15 DEF NewCheckpoint
    <3> QED
      BY <3>1, <1>a, <1>b, GotoJob, DoneJob DEF At, NoRequest, Points, Bound, GraphPoints, KeywordPoints, RequestOK
  <2>2. job[w].task \in Tasks
    BY <1>15, <1>b DEF NewCheckpoint, At, RequestOK, Points, Bound
  <2>3. c \in CheckpointRows
    <3>1. checkpoints[job[w].task] \in CheckpointRows
      BY <2>2, <1>a DEF TypeOK
    <3> QED
      BY <2>2, <3>1 DEF CheckpointRows, NoCheckpoint
  <2>4. PutCheckpoint(job[w].task, c)
    BY <1>15 DEF NewCheckpoint
  <2> HIDE DEF c
  <2>5. checkpoints' \in [Tasks -> CheckpointRows]
    BY <2>2, <2>3, <2>4, <1>a, CheckpointPut DEF TypeOK
  <2> QED
    BY <1>15, <2>1, <2>5, <1>a, StepOfRequest DEF NewCheckpoint, history, TypeOK
<1>16. CASE MarkPendingInterrupt(w)
  <2> DEFINE c == [checkpoints[job[w].task] EXCEPT !.status = "interrupted",
                  !.approval = job[w].appr]
  <2>1. RequestOK(w)' /\ OnlyJob(w)
    <3>1. At(w, "mark_pending") /\ Goto(w, "save") /\ UNCHANGED approvals
      BY <1>16 DEF MarkPendingInterrupt
    <3> QED
      BY <3>1, <1>a, <1>b, GotoJob, DoneJob DEF At, NoRequest, Points, Bound, GraphPoints, KeywordPoints, RequestOK
  <2>2. job[w].task \in Tasks /\ job[w].appr \in ApprovalIds
    BY <1>16, <1>b DEF MarkPendingInterrupt, At, RequestOK, Points, Bound
  <2>3. c \in CheckpointRows
    <3>1. checkpoints[job[w].task] \in CheckpointRows
      BY <2>2, <1>a DEF TypeOK
    <3> QED
      BY <2>2, <3>1 DEF CheckpointRows, NoCheckpoint
  <2>4. PutCheckpoint(job[w].task, c)
    BY <1>16 DEF MarkPendingInterrupt
  <2> HIDE DEF c
  <2>5. checkpoints' \in [Tasks -> CheckpointRows]
    BY <2>2, <2>3, <2>4, <1>a, CheckpointPut DEF TypeOK
  <2> QED
    BY <1>16, <2>1, <2>5, <1>a, StepOfRequest DEF MarkPendingInterrupt, history, TypeOK
<1>17. CASE MarkResumed(w)
  <2> DEFINE c == [checkpoints[job[w].task] EXCEPT !.status = "resumed",
                  !.consumed = TRUE]
  <2>1. RequestOK(w)' /\ OnlyJob(w)
    <3>1. At(w, "mark_resumed") /\ Goto(w, "payload_read") /\ UNCHANGED approvals
      BY <1>17 DEF MarkResumed
    <3> QED
      BY <3>1, <1>a, <1>b, GotoJob, DoneJob DEF At, NoRequest, Points, Bound, GraphPoints, KeywordPoints, RequestOK
  <2>2. job[w].task \in Tasks
    BY <1>17, <1>b DEF MarkResumed, At, RequestOK, Points, Bound
  <2>3. c \in CheckpointRows
    <3>1. checkpoints[job[w].task] \in CheckpointRows
      BY <2>2, <1>a DEF TypeOK
    <3> QED
      BY <2>2, <3>1 DEF CheckpointRows, NoCheckpoint
  <2>4. PutCheckpoint(job[w].task, c)
    BY <1>17 DEF MarkResumed
  <2> HIDE DEF c
  <2>5. checkpoints' \in [Tasks -> CheckpointRows]
    BY <2>2, <2>3, <2>4, <1>a, CheckpointPut DEF TypeOK
  <2> QED
    BY <1>17, <2>1, <2>5, <1>a, StepOfRequest DEF MarkResumed, history, TypeOK
<1>18. CASE Claim(w)
  <2> DEFINE c == [checkpoints[job[w].task] EXCEPT !.status = "resuming"]
  <2>1. RequestOK(w)' /\ OnlyJob(w)
    <3>1. At(w, "claim") /\ (Goto(w, "graph_call") \/ Done(w)) /\ UNCHANGED approvals
      BY <1>18 DEF Claim
    <3> QED
      BY <3>1, <1>a, <1>b, GotoJob, DoneJob DEF At, NoRequest, Points, Bound, GraphPoints, KeywordPoints, RequestOK
  <2>2. job[w].task \in Tasks
    BY <1>18, <1>b DEF Claim, At, RequestOK, Points, Bound
  <2>3. c \in CheckpointRows
    <3>1. checkpoints[job[w].task] \in CheckpointRows
      BY <2>2, <1>a DEF TypeOK
    <3> QED
      BY <2>2, <3>1 DEF CheckpointRows, NoCheckpoint
  <2>4. PutCheckpoint(job[w].task, c) \/ UNCHANGED checkpoints
    BY <1>18 DEF Claim
  <2> HIDE DEF c
  <2>5. checkpoints' \in [Tasks -> CheckpointRows]
    BY <2>2, <2>3, <2>4, <1>a, CheckpointPut DEF TypeOK
  <2> QED
    BY <1>18, <2>1, <2>5, <1>a, StepOfRequest DEF Claim, history, TypeOK
<1>19. CASE CancelCheckpoint(w) /\ UNCHANGED history
  <2> DEFINE c == [checkpoints[job[w].task] EXCEPT !.status = "cancelled",
                  !.consumed = TRUE]
  <2>1. RequestOK(w)' /\ OnlyJob(w)
    <3>1. At(w, "cancel_checkpoint") /\ Done(w) /\ UNCHANGED approvals
      BY <1>19 DEF CancelCheckpoint
    <3> QED
      BY <3>1, <1>a, <1>b, GotoJob, DoneJob DEF At, NoRequest, Points, Bound, GraphPoints, KeywordPoints, RequestOK
  <2>2. job[w].task \in Tasks
    BY <1>19, <1>b DEF CancelCheckpoint, At, RequestOK, Points, Bound
  <2>3. c \in CheckpointRows
    <3>1. checkpoints[job[w].task] \in CheckpointRows
      BY <2>2, <1>a DEF TypeOK
    <3> QED
      BY <2>2, <3>1 DEF CheckpointRows, NoCheckpoint
  <2>4. PutCheckpoint(job[w].task, c) \/ UNCHANGED checkpoints
    BY <1>19 DEF CancelCheckpoint
  <2> HIDE DEF c
  <2>5. checkpoints' \in [Tasks -> CheckpointRows]
    BY <2>2, <2>3, <2>4, <1>a, CheckpointPut DEF TypeOK
  <2> QED
    BY <1>19, <2>1, <2>5, <1>a, StepOfRequest DEF CancelCheckpoint, history, TypeOK
<1>20. CASE DecideWrite(w) /\ UNCHANGED history
  <2> DEFINE row == [approvals[job[w].appr] EXCEPT !.status = job[w].verb]
  <2>1. OnlyJob(w) /\ job'[w].at = "audit" /\ job'[w].appr = job[w].appr
        /\ job'[w].task = job[w].task
    <3>1. Goto(w, "audit")
      BY <1>20 DEF DecideWrite
    <3> QED
      BY <3>1, <1>a, GotoJob, DoneJob DEF Points
  <2>2. job[w].appr \in ApprovalIds /\ approvals[job[w].appr].status # "absent"
    BY <1>20, <1>b DEF DecideWrite, At, RequestOK, Bound, Points
  <2>3. row \in Rows /\ row.status # "absent" /\ row.mode = approvals[job[w].appr].mode
        /\ row.task = approvals[job[w].appr].task
    <3>1. approvals[job[w].appr] \in Rows /\ job[w] \in Requests
      BY <2>2, <1>a DEF TypeOK
    <3> QED
      BY <2>2, <3>1 DEF Rows, Requests, RowStatus, Decisions
  <2>4. PutRow(job[w].appr, row) \/ UNCHANGED approvals
    BY <1>20 DEF DecideWrite
  <2> HIDE DEF row
  <2>5. approvals' \in [ApprovalIds -> Rows]
    BY <2>2, <2>3, <2>4, <1>a, RowPut DEF TypeOK
  <2>6. RowsKept /\ \A a \in ApprovalIds : approvals[a].status = "absent"
                                            => approvals'[a] = approvals[a]
    BY <2>2, <2>3, <2>4, <1>a, RowPut DEF TypeOK, RowsKept
  <2>7. \A a \in ApprovalIds : approvals'[a].mode = approvals[a].mode
    BY <2>2, <2>3, <2>4, <1>a, RowPut DEF TypeOK
  <2>8. \A a \in ApprovalIds : RowOK(a)'
    BY <1>20, <2>6, <2>7 DEF DecideWrite, history, WellFormed, RowOK, RowsKept
  <2>9. RequestOK(w)'
    <3>1. job[w].at \in Bound /\ Goto(w, "audit")
      BY <1>20 DEF DecideWrite, At, Bound, Points
    <3>2. "audit" \in Points \ (GraphPoints \cup KeywordPoints)
      BY DEF Points, GraphPoints, KeywordPoints
    <3> QED
      BY <2>6, <3>1, <3>2, <1>a, <1>b, GotoOK, DoneOK
  <2>10. TypeOK'
    BY <1>20, <2>1, <2>5, <1>a DEF DecideWrite, history, TypeOK, OnlyJob
  <2> QED
    BY <2>1, <2>6, <2>8, <2>9, <2>10, StepOfOne
<1>21. CASE PayloadWrite(w) /\ UNCHANGED history
  <2> DEFINE row == [approvals[job[w].appr] EXCEPT
                     !.resumed = job[w].consumed \/ job[w].seen]
  <2>1. OnlyJob(w) /\ job'[w].at = "idle"
    <3>1. Done(w)
      BY <1>21 DEF PayloadWrite
    <3> QED
      BY <3>1, <1>a, GotoJob, DoneJob DEF Points
  <2>2. job[w].appr \in ApprovalIds /\ approvals[job[w].appr].status # "absent"
    BY <1>21, <1>b DEF PayloadWrite, At, RequestOK, Bound, Points
  <2>3. row \in Rows /\ row.status # "absent" /\ row.mode = approvals[job[w].appr].mode
        /\ row.task = approvals[job[w].appr].task
    <3>1. approvals[job[w].appr] \in Rows /\ job[w] \in Requests
      BY <2>2, <1>a DEF TypeOK
    <3> QED
      BY <2>2, <3>1 DEF Rows, Requests, RowStatus, Decisions
  <2>4. PutRow(job[w].appr, row)
    BY <1>21 DEF PayloadWrite
  <2> HIDE DEF row
  <2>5. approvals' \in [ApprovalIds -> Rows]
    BY <2>2, <2>3, <2>4, <1>a, RowPut DEF TypeOK
  <2>6. RowsKept /\ \A a \in ApprovalIds : approvals[a].status = "absent"
                                            => approvals'[a] = approvals[a]
    BY <2>2, <2>3, <2>4, <1>a, RowPut DEF TypeOK, RowsKept
  <2>7. \A a \in ApprovalIds : approvals'[a].mode = approvals[a].mode
    BY <2>2, <2>3, <2>4, <1>a, RowPut DEF TypeOK
  <2>8. \A a \in ApprovalIds : RowOK(a)'
    BY <1>21, <2>6, <2>7 DEF PayloadWrite, history, WellFormed, RowOK, RowsKept
  <2>9. RequestOK(w)'
    <3>1. job[w].at \in Bound /\ Done(w)
      BY <1>21 DEF PayloadWrite, At, Bound, Points
    <3>2. "audit" \in Points \ (GraphPoints \cup KeywordPoints)
      BY DEF Points, GraphPoints, KeywordPoints
    <3> QED
      BY <2>6, <3>1, <3>2, <1>a, <1>b, GotoOK, DoneOK
  <2>10. TypeOK'
    BY <1>21, <2>1, <2>5, <1>a DEF PayloadWrite, history, TypeOK, OnlyJob
  <2> QED
    BY <2>1, <2>6, <2>8, <2>9, <2>10, StepOfOne
<1>22. CASE NewApproval(w)
  <2> DEFINE row(t) == [status |-> "pending", task |-> t, mode |-> Mode[t],
                        step |-> 1, resumed |-> FALSE]
             r(b) == [job[w] EXCEPT !.appr = b,
                                    !.at = IF Mode[job[w].task] = "keyword"
                                           THEN "save" ELSE "mark_pending"]
  <2>1. PICK a \in ApprovalIds :
          CreateApproval(a, job[w].task, Mode[job[w].task], 1) /\ PutJob(w, r(a))
    BY <1>22 DEF NewApproval
  <2>2. job[w].task \in Tasks /\ approvals[a].status = "absent"
    BY <1>22, <2>1, <1>b DEF NewApproval, At, RequestOK, CreateApproval
  <2>3. /\ r(a) \in Requests /\ r(a).appr = a /\ r(a).task = job[w].task
        /\ r(a).at = IF Mode[job[w].task] = "keyword"
                     THEN "save" ELSE "mark_pending"
    <3>1. job[w] \in Requests
      BY <1>a
    <3>2. (IF Mode[job[w].task] = "keyword" THEN "save" ELSE "mark_pending") \in Points
      BY DEF Points
    <3> QED
      BY <3>1, <3>2 DEF Requests
  <2>4. /\ row(job[w].task) \in Rows /\ row(job[w].task).status = "pending"
        /\ row(job[w].task).task = job[w].task
        /\ row(job[w].task).mode = Mode[job[w].task]
    BY <2>2 DEF Rows, RowStatus
  <2>5. PutRow(a, row(job[w].task))
    BY <2>1 DEF CreateApproval
  <2> HIDE DEF row, r
  <2>6. OnlyJob(w) /\ job'[w] = r(a)
    BY <2>1, <2>3, <1>a, JobPut
  <2>7. /\ approvals' \in [ApprovalIds -> Rows]
        /\ approvals'[a] = row(job[w].task)
        /\ \A b \in ApprovalIds \ {a} : approvals'[b] = approvals[b]
    BY <2>4, <2>5, <1>a, RowPut DEF TypeOK
  <2>8. RowsKept
    BY <2>2, <2>7 DEF RowsKept
  <2>9. \A b \in ApprovalIds : RowOK(b)'
    BY <1>22, <2>2, <2>4, <2>7 DEF NewApproval, history, WellFormed, RowOK
  <2>10. RequestOK(w)'
    BY <2>2, <2>3, <2>4, <2>6, <2>7 DEF Points, Bound, GraphPoints, KeywordPoints, RequestOK
  <2>11. TypeOK'
    BY <1>22, <2>6, <2>7, <1>a DEF NewApproval, history, TypeOK, OnlyJob
  <2> QED
    BY <2>6, <2>8, <2>9, <2>10, <2>11, StepOfOne
<1>23. CASE CallTool(w)
  <2> DEFINE r(b) == [job[w] EXCEPT !.at = "task", !.verdict = Verdict(b),
                                    !.consumed = b]
  <2>1. PICK success \in BOOLEAN :
          CallGateway(w, success) /\ PutJob(w, r(success))
    BY <1>23 DEF CallTool
  <2>2. /\ r(success) \in Requests /\ r(success).at = "task"
        /\ r(success).appr = job[w].appr /\ r(success).task = job[w].task
    <3>1. job[w] \in Requests
      BY <1>a
    <3>2. "task" \in Points /\ Verdict(success) \in TaskStatus
      BY DEF Points, TaskStatus, Verdict
    <3> QED
      BY <3>1, <3>2 DEF Requests
  <2> HIDE DEF r
  <2>3. OnlyJob(w) /\ job'[w] = r(success)
    BY <2>1, <2>2, <1>a, JobPut
  <2>4. job[w].appr \in ApprovalIds /\ approvals[job[w].appr].status # "absent"
    BY <1>23, <1>b DEF CallTool, At, RequestOK, Bound, Points
  <2>5. RequestOK(w)'
    BY <1>23, <2>2, <2>3, <1>b DEF CallTool, At, stores, Points, Bound, GraphPoints, KeywordPoints, RequestOK
  <2>6. calls' \in [ApprovalIds -> 0..Many] /\ wins' \in [ApprovalIds -> 0..Many]
    BY <2>1, <2>4, <1>a, Counted DEF CallGateway, TypeOK
  <2>7. RowsKept /\ \A a \in ApprovalIds : RowOK(a)'
    BY <1>23, <2>1, <2>4, <1>a DEF CallTool, CallGateway, stores, WellFormed, TypeOK,
       RowOK, RowsKept
  <2>8. TypeOK'
    BY <1>23, <2>3, <2>6, <1>a DEF CallTool, stores, TypeOK, OnlyJob
  <2> QED
    BY <2>3, <2>5, <2>7, <2>8, StepOfOne
<1>24. CASE GraphCallTool(w)
  <2> DEFINE r(b) == [job[w] EXCEPT !.at = "graph_task", !.verdict = Verdict(b),
                                    !.consumed = TRUE]
  <2>1. PICK success \in BOOLEAN :
          CallGateway(w, success) /\ PutJob(w, r(success))
    BY <1>24 DEF GraphCallTool
  <2>2. /\ r(success) \in Requests /\ r(success).at = "graph_task"
        /\ r(success).appr = job[w].appr /\ r(success).task = job[w].task
    <3>1. job[w] \in Requests
      BY <1>a
    <3>2. "graph_task" \in Points /\ Verdict(success) \in TaskStatus
      BY DEF Points, TaskStatus, Verdict
    <3> QED
      BY <3>1, <3>2 DEF Requests
  <2> HIDE DEF r
  <2>3. OnlyJob(w) /\ job'[w] = r(success)
    BY <2>1, <2>2, <1>a, JobPut
  <2>4. job[w].appr \in ApprovalIds /\ approvals[job[w].appr].status # "absent"
    BY <1>24, <1>b DEF GraphCallTool, At, RequestOK, Bound, Points
  <2>5. RequestOK(w)'
    BY <1>24, <2>2, <2>3, <1>b DEF GraphCallTool, At, stores, Points, Bound, GraphPoints, KeywordPoints, RequestOK
  <2>6. calls' \in [ApprovalIds -> 0..Many] /\ wins' \in [ApprovalIds -> 0..Many]
    BY <2>1, <2>4, <1>a, Counted DEF CallGateway, TypeOK
  <2>7. RowsKept /\ \A a \in ApprovalIds : RowOK(a)'
    BY <1>24, <2>1, <2>4, <1>a DEF GraphCallTool, CallGateway, stores, WellFormed, TypeOK,
       RowOK, RowsKept
  <2>8. TypeOK'
    BY <1>24, <2>3, <2>6, <1>a DEF GraphCallTool, stores, TypeOK, OnlyJob
  <2> QED
    BY <2>3, <2>5, <2>7, <2>8, StepOfOne
<1>25. ASSUME NEW a \in ApprovalIds, Approve(w, a), UNCHANGED history
      PROVE  Moved(w)
  <2> DEFINE p == IF approvals[a].status = "approved" THEN "resume" ELSE "decide"
             r == [NoRequest EXCEPT !.at = p, !.appr = a, !.verb = "approved",
                                    !.task = approvals[a].task]
  <2>1. PutJob(w, r) /\ UNCHANGED <<approvals, tasks, checkpoints, audited, faults>>
    BY <1>25 DEF Approve, Request, stores
  <2>2. approvals[a].status # "absent" /\ approvals[a].task \in Tasks
    BY <1>25, <1>c DEF Approve
  <2>3. /\ r \in Requests /\ r.at \in {"decide", "resume"} /\ r.appr = a
        /\ r.task = approvals[a].task
    BY <2>2 DEF NoRequest, Requests, Points, Decisions, TaskStatus
  <2> HIDE DEF r, p
  <2>4. OnlyJob(w) /\ job'[w] = r
    BY <2>1, <2>3, <1>a, JobPut
  <2>5. RequestOK(w)'
    BY <2>1, <2>2, <2>3, <2>4 DEF Points, Bound, GraphPoints, KeywordPoints, RequestOK
  <2> QED
    BY <1>25, <2>1, <2>4, <2>5, <1>a, StepOfRequest DEF history, TypeOK
<1>26. ASSUME NEW a \in ApprovalIds, Reject(w, a), UNCHANGED history
      PROVE  Moved(w)
  <2> DEFINE p == "decide"
             r == [NoRequest EXCEPT !.at = p, !.appr = a, !.verb = "rejected",
                                    !.task = approvals[a].task]
  <2>1. PutJob(w, r) /\ UNCHANGED <<approvals, tasks, checkpoints, audited, faults>>
    BY <1>26 DEF Reject, Request, stores
  <2>2. approvals[a].status # "absent" /\ approvals[a].task \in Tasks
    BY <1>26, <1>c DEF Reject
  <2>3. /\ r \in Requests /\ r.at \in {"decide", "resume"} /\ r.appr = a
        /\ r.task = approvals[a].task
    BY <2>2 DEF NoRequest, Requests, Points, Decisions, TaskStatus
  <2> HIDE DEF r, p
  <2>4. OnlyJob(w) /\ job'[w] = r
    BY <2>1, <2>3, <1>a, JobPut
  <2>5. RequestOK(w)'
    BY <2>1, <2>2, <2>3, <2>4 DEF Points, Bound, GraphPoints, KeywordPoints, RequestOK
  <2> QED
    BY <1>26, <2>1, <2>4, <2>5, <1>a, StepOfRequest DEF history, TypeOK
<1>27. ASSUME NEW a \in ApprovalIds, ManualResume(w, a), UNCHANGED history
      PROVE  Moved(w)
  <2> DEFINE p == "resume"
             r == [NoRequest EXCEPT !.at = p, !.appr = a, !.verb = "approved",
                                    !.task = approvals[a].task]
  <2>1. PutJob(w, r) /\ UNCHANGED <<approvals, tasks, checkpoints, audited, faults>>
    BY <1>27 DEF ManualResume, Request, stores
  <2>2. approvals[a].status # "absent" /\ approvals[a].task \in Tasks
    BY <1>27, <1>c DEF ManualResume
  <2>3. /\ r \in Requests /\ r.at \in {"decide", "resume"} /\ r.appr = a
        /\ r.task = approvals[a].task
    BY <2>2 DEF NoRequest, Requests, Points, Decisions, TaskStatus
  <2> HIDE DEF r, p
  <2>4. OnlyJob(w) /\ job'[w] = r
    BY <2>1, <2>3, <1>a, JobPut
  <2>5. RequestOK(w)'
    BY <2>1, <2>2, <2>3, <2>4 DEF Points, Bound, GraphPoints, KeywordPoints, RequestOK
  <2> QED
    BY <1>27, <2>1, <2>4, <2>5, <1>a, StepOfRequest DEF history, TypeOK
<1>28. ASSUME NEW t \in Tasks, CreateTask(w, t) PROVE Moved(w)
  <2> DEFINE r == [NoRequest EXCEPT !.task = t, !.verdict = "waiting_approval",
                                    !.at = IF Mode[t] = "keyword"
                                           THEN "new_approval"
                                           ELSE "new_checkpoint"]
  <2>1. PutJob(w, r)
    BY <1>28 DEF CreateTask
  <2>2. /\ r \in Requests /\ r.task = t
        /\ r.at = IF Mode[t] = "keyword" THEN "new_approval" ELSE "new_checkpoint"
    BY DEF NoRequest, Requests, Points, Decisions, TaskStatus
  <2> HIDE DEF r
  <2>3. OnlyJob(w) /\ job'[w] = r
    BY <2>1, <2>2, <1>a, JobPut
  <2>4. RequestOK(w)'
    BY <2>2, <2>3 DEF Points, Bound, GraphPoints, KeywordPoints, RequestOK
  <2> QED
    BY <1>28, <2>3, <2>4, <1>a, StepOfRequest DEF CreateTask, stores, TypeOK
<1> QED
  BY <1>1, <1>2, <1>3, <1>4, <1>5, <1>6, <1>7, <1>8, <1>9, <1>10,
     <1>11, <1>12, <1>13, <1>14, <1>15, <1>16, <1>17, <1>18, <1>19, <1>20,
     <1>21, <1>22, <1>23, <1>24, <1>25, <1>26, <1>27, <1>28
     DEF Step, Serve, DecisionSteps, CreateSteps, ResumeSteps,
         DecisionRequests, DecisionFaults

\* A stuttering step changes nothing that WellFormed speaks of.
LEMMA WellFormedStutter == WellFormed /\ UNCHANGED vars => WellFormed'
BY DEF vars, stores, WellFormed, TypeOK, RowOK, RequestOK

\* WellFormed is inductive.
LEMMA WellFormedAlways == Spec => []WellFormed
<1>1. WellFormed /\ [Next]_vars => WellFormed'
  BY WellFormedStep, WellFormedStutter DEF Next, Moved
<1> QED
  BY <1>1, WellFormedInit, PTL DEF Spec

\* The stores and the requests under way keep their types, whatever steps the
\* workers' store calls, faults and retries take.
THEOREM Typing == Spec => []TypeOK
<1>1. WellFormed => TypeOK
  BY DEF WellFormed
<1> QED
  BY <1>1, WellFormedAlways, PTL

-----------------------------------------------------------------------------
(* SQLite: a decision is final.                                            *)

\* Every decided approval keeps its decision in this step.
DecisionsKept ==
  \A a \in ApprovalIds : approvals[a].status \in Decisions =>
    approvals'[a].status = approvals[a].status

\* The only writers of a row are the UPDATE of decide_approval, which asks for
\* a pending row, update_payload, which writes no status, and create_approval,
\* which writes a row of its own.
LEMMA DecisionsKeptStep ==
  ASSUME ~Postgres, WellFormed, NEW w \in Workers, Step(w)
  PROVE  DecisionsKept
<1>a. approvals \in [ApprovalIds -> Rows] /\ job \in [Workers -> Requests]
      /\ RequestOK(w)
  BY DEF WellFormed, TypeOK
<1>1. CASE DecideWrite(w)
  <2>1. \/ approvals[job[w].appr].status = "pending"
           /\ PutRow(job[w].appr,
                [approvals[job[w].appr] EXCEPT !.status = job[w].verb])
        \/ UNCHANGED approvals
    BY <1>1 DEF DecideWrite
  <2> QED
    BY <2>1, <1>a DEF PutRow, DecisionsKept, Decisions
<1>2. CASE PayloadWrite(w)
  <2> DEFINE row == [approvals[job[w].appr] EXCEPT
                       !.resumed = job[w].consumed \/ job[w].seen]
  <2>1. job[w].appr \in ApprovalIds
    BY <1>2, <1>a DEF PayloadWrite, At, RequestOK, Bound, Points
  <2>2. row.status = approvals[job[w].appr].status
    BY <2>1, <1>a DEF Rows
  <2>3. PutRow(job[w].appr, row)
    BY <1>2 DEF PayloadWrite
  <2> HIDE DEF row
  <2> QED
    BY <2>1, <2>2, <2>3, <1>a DEF PutRow, DecisionsKept
<1>3. CASE NewApproval(w)
  <2>1. PICK a \in ApprovalIds : CreateApproval(a, job[w].task, Mode[job[w].task], 1)
    BY <1>3 DEF NewApproval
  <2>2. approvals[a].status = "absent"
        /\ \A b \in ApprovalIds \ {a} : approvals'[b] = approvals[b]
    BY <2>1, <1>a DEF CreateApproval, PutRow
  <2> QED
    BY <2>2 DEF DecisionsKept, Decisions
<1>4. CASE UNCHANGED approvals
  BY <1>4 DEF DecisionsKept
<1>5. DecisionSteps(w) => DecideWrite(w) \/ PayloadWrite(w) \/ UNCHANGED approvals
  BY DEF DecisionSteps, DecideRead, DecideSelect, AuditDecision, CancelTask,
     CancelCheckpoint, PayloadRead, stores
<1>6. CreateSteps(w) \/ ResumeSteps(w) => NewApproval(w) \/ UNCHANGED approvals
  BY DEF CreateSteps, NewCheckpoint, MarkPendingInterrupt, Save, ResumeSteps,
     Resume, ResumeEntry, CallTool, UpdateTask, UpdateTaskFailed, Claim,
     GraphCallTool, GraphUpdateTask, MarkResumed, stores
<1>7. DecisionRequests(w) \/ DecisionFaults(w) \/ CreateFault(w)
      \/ UpdateTaskFault(w) \/ (\E t \in Tasks : CreateTask(w, t))
      => UNCHANGED approvals
  BY DEF DecisionRequests, Approve, Reject, ManualResume, Request,
     DecisionFaults, CancelTaskFault, Abort, CreateFault, UpdateTaskFault,
     CreateTask, stores
<1> QED
  BY <1>1, <1>2, <1>3, <1>4, <1>5, <1>6, <1>7 DEF Step, Serve

\* On SQLiteApprovalStore a decided approval keeps its decision: of two racing
\* decide_approval calls the second changes no row.
THEOREM SQLiteDecisionFinal == ASSUME ~Postgres PROVE Spec => DecisionFinal
<1>1. WellFormed /\ [Next]_vars =>
        [\A a \in ApprovalIds : approvals[a].status \in Decisions =>
           approvals'[a].status = approvals[a].status]_vars
  BY DecisionsKeptStep DEF Next, DecisionsKept
<1> QED
  BY <1>1, WellFormedAlways, PTL DEF Spec, DecisionFinal

-----------------------------------------------------------------------------
(* SQLite: the tool runs only for an approved approval.  A request past    *)
(* the first read of resume is about an approved row, and on SQLite it     *)
(* stays approved.                                                         *)

ApprovedPoints == KeywordPoints \cup {"claim", "graph_call", "graph_task",
                                      "mark_resumed"}
HeldByApproval(w) ==
  job[w].at \in ApprovedPoints => approvals[job[w].appr].status = "approved"

ApprovedInv == (\A w \in Workers : HeldByApproval(w)) /\ ApprovedBeforeCall

\* What is left to show of a step that calls no tool: that its own request has
\* not reached a point beyond resume without an approved row.
LEMMA ApprovedRest ==
  ASSUME WellFormed, ApprovedInv, DecisionsKept, NEW w \in Workers,
         Moved(w), HeldByApproval(w)',
         \A a \in ApprovalIds : calls'[a] > 0 => approvals[a].status = "approved"
  PROVE  ApprovedInv'
<1>1. \A a \in ApprovalIds : approvals[a].status = "approved"
                               => approvals'[a].status = "approved"
  BY DEF DecisionsKept, Decisions
<1>2. ASSUME NEW v \in Workers \ {w} PROVE HeldByApproval(v)'
  <2>1. ApprovedPoints \subseteq Bound
    BY DEF ApprovedPoints, KeywordPoints, Bound, Points
  <2>2. job'[v] = job[v]
    BY DEF Moved, OnlyJob
  <2> QED
    BY <2>1, <2>2, <1>1 DEF WellFormed, RequestOK, ApprovedInv, HeldByApproval
<1> QED
  BY <1>1, <1>2 DEF ApprovedInv, ApprovedBeforeCall, HeldByApproval

\* With SQLite every step keeps the requests at or past a call approved.
LEMMA ApprovedStep ==
  ASSUME ~Postgres, WellFormed, ApprovedInv, NEW w \in Workers, Step(w)
  PROVE  ApprovedInv'
<1>a. Moved(w) /\ DecisionsKept
  BY WellFormedStep, DecisionsKeptStep
<1>b. job \in [Workers -> Requests] /\ job' \in [Workers -> Requests]
      /\ RequestOK(w) /\ HeldByApproval(w)
  BY <1>a DEF WellFormed, TypeOK, Moved, ApprovedInv
<1>c. ASSUME job'[w].at \notin ApprovedPoints, UNCHANGED calls
      PROVE  ApprovedInv'
  BY <1>a, <1>c, ApprovedRest DEF HeldByApproval, ApprovedInv, ApprovedBeforeCall
\* A request that was beyond resume stays about its own approval.
<1>d. ASSUME job[w].at \in ApprovedPoints, job'[w].appr = job[w].appr,
             \A a \in ApprovalIds \ {job[w].appr} : calls'[a] = calls[a]
      PROVE  ApprovedInv'
  <2>1. job[w].appr \in ApprovalIds /\ approvals[job[w].appr].status = "approved"
    BY <1>b, <1>d DEF ApprovedPoints, KeywordPoints, Bound, Points, RequestOK,
       HeldByApproval
  <2>2. HeldByApproval(w)'
    BY <2>1, <1>a, <1>d DEF HeldByApproval, DecisionsKept, Decisions
  <2> QED
    BY <2>1, <2>2, <1>a, <1>d, ApprovedRest DEF ApprovedInv, ApprovedBeforeCall
<1>1. CASE DecisionSteps(w) /\ UNCHANGED history
  <2>1. CASE DecideRead(w) \/ DecideSelect(w) \/ DecideWrite(w) \/ AuditDecision(w)
    <3>1. \E p \in {"decide_select", "decide_write", "audit", "cancel_task",
                    "resume"} : Goto(w, p) \/ Done(w)
      BY <2>1 DEF DecideRead, DecideSelect, DecideWrite, AuditDecision
    <3> QED
      BY <1>1, <3>1, <1>b, <1>c, GotoJob, DoneJob
         DEF history, Points, ApprovedPoints, KeywordPoints
  <2>2. CASE CancelTask(w) \/ CancelCheckpoint(w) \/ PayloadWrite(w)
    <3>1. Goto(w, "cancel_checkpoint") \/ Done(w)
      BY <2>2 DEF CancelTask, CancelCheckpoint, PayloadWrite
    <3> QED
      BY <1>1, <3>1, <1>b, <1>c, GotoJob, DoneJob
         DEF history, Points, ApprovedPoints, KeywordPoints
  <2>3. CASE PayloadRead(w)
    <3>1. job'[w].at = "payload_write"
      BY <2>3, <1>b DEF PayloadRead, PutJob, Requests
    <3> QED
      BY <1>1, <3>1, <1>c DEF history, ApprovedPoints, KeywordPoints
  <2> QED
    BY <1>1, <2>1, <2>2, <2>3 DEF DecisionSteps
<1>2. CASE CreateSteps(w)
  <2>1. CASE NewApproval(w)
    <3>1. job'[w].at \in {"save", "mark_pending"}
      BY <2>1, <1>b DEF NewApproval, PutJob, Requests
    <3> QED
      BY <2>1, <3>1, <1>c DEF NewApproval, history, ApprovedPoints, KeywordPoints
  <2>2. CASE NewCheckpoint(w) \/ MarkPendingInterrupt(w) \/ Save(w)
    <3>1. Goto(w, "new_approval") \/ Goto(w, "save") \/ Done(w)
      BY <2>2 DEF NewCheckpoint, MarkPendingInterrupt, Save
    <3>2. UNCHANGED calls
      BY <2>2 DEF NewCheckpoint, MarkPendingInterrupt, Save, history
    <3> QED
      BY <3>1, <3>2, <1>b, <1>c, GotoJob, DoneJob
         DEF Points, ApprovedPoints, KeywordPoints
  <2> QED
    BY <1>2, <2>1, <2>2 DEF CreateSteps
<1>3. CASE Resume(w)
  <2>1. approvals[job[w].appr].status = "approved" \/ Done(w)
    BY <1>3 DEF Resume, ResumeEntry
  <2>2. job'[w].at = "idle" \/ job'[w].appr = job[w].appr
    BY <1>3, <1>b, DoneJob DEF Resume, ResumeEntry, Goto, PutJob, Requests
  <2>3. HeldByApproval(w)'
    BY <1>3, <2>1, <2>2, <1>b, DoneJob
       DEF Resume, ResumeEntry, stores, HeldByApproval, ApprovedPoints, KeywordPoints
  <2> QED
    BY <1>3, <2>3, <1>a, ApprovedRest
       DEF Resume, history, ApprovedInv, ApprovedBeforeCall
<1>4. CASE CallTool(w) \/ GraphCallTool(w)
  <2>1. job[w].at \in ApprovedPoints
    BY <1>4 DEF CallTool, GraphCallTool, At, ApprovedPoints, KeywordPoints
  <2>2. job'[w].appr = job[w].appr
    BY <1>4, <1>b DEF CallTool, GraphCallTool, PutJob, Requests
  <2>3. \A a \in ApprovalIds \ {job[w].appr} : calls'[a] = calls[a]
    BY <1>4 DEF CallTool, GraphCallTool, CallGateway, WellFormed, TypeOK
  <2> QED
    BY <2>1, <2>2, <2>3, <1>d
<1>5. CASE UpdateTask(w) \/ UpdateTaskFailed(w) \/ MarkResumed(w) \/ GraphUpdateTask(w)
  <2>1. Goto(w, "payload_read") \/ Goto(w, "mark_resumed")
    BY <1>5 DEF UpdateTask, UpdateTaskFailed, MarkResumed, GraphUpdateTask
  <2>2. job'[w].appr = job[w].appr
    BY <2>1, <1>b, GotoJob DEF Points
  <2>3. job[w].at \in ApprovedPoints /\ UNCHANGED calls
    BY <1>5 DEF UpdateTask, UpdateTaskFailed, MarkResumed, GraphUpdateTask, At,
       history, ApprovedPoints, KeywordPoints
  <2> QED
    BY <2>2, <2>3, <1>d
<1>6. CASE Claim(w)
  <2>1. Goto(w, "graph_call") \/ Done(w)
    BY <1>6 DEF Claim
  <2>2. job[w].at \in ApprovedPoints /\ UNCHANGED calls
    BY <1>6 DEF Claim, At, history, ApprovedPoints
  <2> QED
    BY <2>1, <2>2, <1>b, <1>c, <1>d, GotoJob, DoneJob
       DEF Points, ApprovedPoints, KeywordPoints
<1>7. CASE DecisionRequests(w) /\ UNCHANGED history
  <2>1. job'[w].at \in {"decide", "resume"}
    BY <1>7, <1>b, Requested DEF TypeOK
  <2> QED
    BY <1>7, <2>1, <1>c DEF history, ApprovedPoints, KeywordPoints
<1>8. CASE DecisionFaults(w) /\ UNCHANGED history
  <2>1. Goto(w, "cancel_checkpoint") \/ Done(w)
    BY <1>8 DEF DecisionFaults, CancelTaskFault, Abort
  <2> QED
    BY <1>8, <2>1, <1>b, <1>c, GotoJob, DoneJob
       DEF history, Points, ApprovedPoints, KeywordPoints
<1>9. CASE CreateFault(w)
  <2>1. job'[w].at = "save"
    BY <1>9, <1>b DEF CreateFault, PutJob, Requests
  <2> QED
    BY <1>9, <2>1, <1>c DEF CreateFault, history, ApprovedPoints, KeywordPoints
<1>10. CASE UpdateTaskFault(w)
  <2>1. job'[w].appr = job[w].appr
    BY <1>10, <1>b DEF UpdateTaskFault, PutJob, Requests
  <2>2. job[w].at \in ApprovedPoints /\ UNCHANGED calls
    BY <1>10 DEF UpdateTaskFault, At, history, ApprovedPoints, KeywordPoints
  <2> QED
    BY <2>1, <2>2, <1>d
<1>11. ASSUME NEW t \in Tasks, CreateTask(w, t) PROVE ApprovedInv'
  <2>1. job'[w].at \in {"new_approval", "new_checkpoint"}
    BY <1>11, <1>b DEF CreateTask, PutJob, NoRequest
  <2> QED
    BY <1>11, <2>1, <1>c DEF CreateTask, ApprovedPoints, KeywordPoints
<1> QED
  BY <1>1, <1>2, <1>3, <1>4, <1>5, <1>6, <1>7, <1>8, <1>9, <1>10, <1>11
     DEF Step, Serve, ResumeSteps

\* So they are approved in every state.
LEMMA ApprovedAlways == ASSUME ~Postgres PROVE Spec => []ApprovedInv
<1>1. Init => ApprovedInv
  BY DEF Init, DecisionsInit, ApprovedInv, HeldByApproval, ApprovedBeforeCall,
     ApprovedPoints, KeywordPoints, NoRequest
<1>2. ApprovedInv /\ WellFormed /\ [Next]_vars => ApprovedInv'
  <2>1. ApprovedInv /\ UNCHANGED vars => ApprovedInv'
    BY DEF vars, stores, ApprovedInv, HeldByApproval, ApprovedBeforeCall
  <2> QED
    BY <2>1, ApprovedStep DEF Next
<1> QED
  BY <1>1, <1>2, WellFormedAlways, PTL DEF Spec

\* On SQLiteApprovalStore no tool runs for an approval nobody approved, with
\* any number of workers, retries, racing decisions and requests cut short.
THEOREM SQLiteApprovedBeforeCall ==
  ASSUME ~Postgres PROVE Spec => []ApprovedBeforeCall
<1>1. ApprovedInv => ApprovedBeforeCall
  BY DEF ApprovedInv
<1> QED
  BY <1>1, ApprovedAlways, PTL

-----------------------------------------------------------------------------
(* The claim of a checkpoint.  From create_checkpoint to the link made by  *)
(* mark_pending_interrupt no approval is linked, so nobody can claim; once *)
(* a worker has claimed, the checkpoint is spent and stays linked to the   *)
(* worker's approval.                                                      *)

CreatingPoints == {"new_checkpoint", "new_approval", "mark_pending"}
ClaimedPoints == {"graph_call", "graph_task", "mark_resumed"}

\* claim_for_resume turns every caller away for good.
Spent(t) == checkpoints[t].consumed \/ checkpoints[t].status # "interrupted"

Unlinked(t) == checkpoints[t].approval = NoApproval

\* Creation: one request per task, and no link before mark_pending_interrupt.
CreatingOK(w) ==
  job[w].at \in CreatingPoints => job[w].task \in created /\ Unlinked(job[w].task)
CreatedOnce ==
  \A w, v \in Workers :
    /\ job[w].at \in CreatingPoints /\ job[v].at \in CreatingPoints
    /\ job[w].task = job[v].task
    => w = v

\* Resume: whoever is past the claim holds a spent, linked checkpoint, and has
\* not called the tool before GraphCallTool.
ClaimedOK(w) ==
  job[w].at \in ClaimedPoints =>
    /\ Spent(job[w].task)
    /\ checkpoints[job[w].task].approval = job[w].appr
    /\ job[w].at = "graph_call" => calls[job[w].appr] = 0

\* A graph approval whose tool ran is linked to a spent checkpoint.
CalledOK(a) ==
  IsGraph(a) /\ calls[a] > 0 =>
    /\ Spent(approvals[a].task)
    /\ checkpoints[approvals[a].task].approval = a

ClaimInv ==
  /\ \A w \in Workers : CreatingOK(w) /\ ClaimedOK(w)
  /\ \A t \in Tasks \ created : Unlinked(t)
  /\ \A a \in ApprovalIds : CalledOK(a)
  /\ CreatedOnce
  /\ ClaimExclusive
  /\ GraphCallsOnce

\* Linked and spent checkpoints stay so, and only a creating request links.
LinksKept ==
  \A t \in Tasks : Spent(t) /\ ~Unlinked(t) =>
    Spent(t)' /\ checkpoints'[t].approval = checkpoints[t].approval
NoNewLink(w) ==
  \A t \in Tasks : Unlinked(t) =>
    Unlinked(t)' \/ (t = job[w].task /\ job[w].at \in CreatingPoints)

\* What a step of worker w must show: besides the links, that w enters creation
\* and claim alone, and that only GraphCallTool counts a call of a graph
\* approval.
ClaimKept(w) ==
  /\ LinksKept /\ NoNewLink(w)
  /\ CreatingOK(w)' /\ ClaimedOK(w)'
  /\ job'[w].at \in CreatingPoints =>
       \/ job[w].at \in CreatingPoints /\ job'[w].task = job[w].task
       \/ job'[w].task \notin created
  /\ job'[w].at \in ClaimedPoints =>
       \/ job[w].at \in ClaimedPoints /\ job'[w].task = job[w].task
       \/ ~Spent(job'[w].task)
  /\ \A a \in ApprovalIds : IsGraph(a)' /\ calls'[a] # calls[a] =>
       /\ job[w].at = "graph_call" /\ job'[w].at = "graph_task"
       /\ a = job[w].appr /\ a = job'[w].appr /\ calls'[a] = 1
  /\ created \subseteq created'

\* What a step that keeps the claims of its own worker has to show of the others.
LEMMA ClaimRest ==
  ASSUME WellFormed, ClaimInv, NEW w \in Workers, Moved(w), ClaimKept(w)
  PROVE  ClaimInv'
<1> USE DecisionsAssumption
<1>1. ASSUME NEW v \in Workers, v # w
      PROVE  job'[v] = job[v] /\ CreatingOK(v) /\ ClaimedOK(v) /\ RequestOK(v)
  BY <1>1 DEF Moved, OnlyJob, ClaimInv, WellFormed
<1>2. ASSUME NEW v \in Workers, job[v].at \in CreatingPoints \cup ClaimedPoints
      PROVE  /\ job[v].task \in Tasks
             /\ job[v].at # "new_checkpoint" /\ job[v].at # "new_approval" =>
                  /\ job[v].appr \in ApprovalIds
                  /\ approvals[job[v].appr].status # "absent"
                  /\ approvals[job[v].appr].task = job[v].task
                  /\ approvals[job[v].appr].mode = "graph_keyword"
  BY <1>2 DEF WellFormed, RequestOK, RowOK, CreatingPoints, ClaimedPoints,
     GraphPoints, Bound, Points
<1>3. ASSUME NEW v \in Workers PROVE CreatingOK(v)'
  <2>1. CASE v = w
    BY <2>1 DEF ClaimKept, LinksKept, NoNewLink
  <2>2. CASE v # w /\ job[v].at \in CreatingPoints
    BY <2>2, <1>1, <1>2 DEF ClaimKept, LinksKept, NoNewLink, ClaimInv, CreatingOK, CreatedOnce
  <2> QED
    BY <2>1, <2>2, <1>1 DEF CreatingOK
<1>4. ASSUME NEW v \in Workers PROVE ClaimedOK(v)'
  <2>1. CASE v = w
    BY <2>1 DEF ClaimKept, LinksKept, NoNewLink
  <2>2. CASE v # w /\ job[v].at \in ClaimedPoints
    <3>1. /\ job[v].appr \in ApprovalIds /\ job[v].task \in Tasks
          /\ approvals[job[v].appr].status # "absent"
          /\ approvals[job[v].appr].task = job[v].task
          /\ approvals[job[v].appr].mode = "graph_keyword"
      BY <2>2, <1>2 DEF ClaimedPoints
    <3>2. Spent(job[v].task) /\ checkpoints[job[v].task].approval = job[v].appr
          /\ ~Unlinked(job[v].task)
      BY <2>2, <3>1, <1>1 DEF ClaimedOK, Unlinked
    <3>3. Spent(job[v].task)' /\ checkpoints'[job[v].task].approval = job[v].appr
      BY <3>1, <3>2, <2>2, <1>1 DEF ClaimKept, LinksKept, NoNewLink, Spent
    <3>4. IsGraph(job[v].appr)'
      BY <3>1, <2>2, <1>1 DEF Moved, RowsKept, IsGraph
    <3>5. ASSUME job[v].at = "graph_call" PROVE calls'[job[v].appr] = 0
      <4>1. calls[job[v].appr] = 0
        BY <2>2, <3>5, <1>1 DEF ClaimedOK
      <4>2. CASE calls'[job[v].appr] # calls[job[v].appr]
        <5>1. job[w].at = "graph_call" /\ job[w].appr = job[v].appr
          BY <4>2, <3>1, <3>4, <2>2, <1>1 DEF ClaimKept, LinksKept, NoNewLink, IsGraph
        <5>2. job[w].task = job[v].task
          BY <5>1, <3>1, <1>2 DEF ClaimedPoints
        <5> QED
          BY <5>1, <5>2, <2>2 DEF ClaimInv, ClaimExclusive, ClaimedPoints
      <4> QED
        BY <4>1, <4>2
    <3> QED
      BY <3>3, <3>5, <2>2, <1>1 DEF ClaimedOK
  <2> QED
    BY <2>1, <2>2, <1>1 DEF ClaimedOK
<1>5. ASSUME NEW t \in Tasks \ created' PROVE Unlinked(t)'
  BY <1>5 DEF ClaimKept, LinksKept, NoNewLink, ClaimInv, CreatingOK
<1>6. ASSUME NEW a \in ApprovalIds PROVE CalledOK(a)' /\ (IsGraph(a)' => calls'[a] <= 1)
  <2>1. CASE calls'[a] = calls[a]
    <3>1. CASE approvals[a].status = "absent"
      BY <2>1, <3>1 DEF WellFormed, RowOK, CalledOK
    <3>2. CASE approvals[a].status # "absent"
      <4>1. IsGraph(a)' <=> IsGraph(a)
        BY <3>2 DEF Moved, RowsKept, IsGraph
      <4>2. approvals'[a].task = approvals[a].task /\ approvals[a].task \in Tasks
        BY <3>2 DEF Moved, RowsKept, WellFormed, RowOK
      <4>3. CASE IsGraph(a) /\ calls[a] > 0
        <5>1. Spent(approvals[a].task)
              /\ checkpoints[approvals[a].task].approval = a
              /\ ~Unlinked(approvals[a].task)
          BY <4>3, <4>2 DEF ClaimInv, CalledOK, Unlinked
        <5>2. Spent(approvals[a].task)'
              /\ checkpoints'[approvals[a].task].approval = a
          BY <5>1, <4>2 DEF ClaimKept, LinksKept, NoNewLink, Spent
        <5> QED
          BY <5>2, <4>2, <4>3, <2>1 DEF CalledOK, ClaimInv, GraphCallsOnce
      <4> QED
        BY <4>1, <4>3, <2>1 DEF CalledOK, ClaimInv, GraphCallsOnce
    <3> QED
      BY <3>1, <3>2
  <2>2. CASE calls'[a] # calls[a] /\ IsGraph(a)'
    <3>1. job'[w].at = "graph_task" /\ job'[w].appr = a /\ calls'[a] = 1
      BY <2>2 DEF ClaimKept, LinksKept, NoNewLink
    <3>2. approvals'[a].task = job'[w].task
      BY <3>1 DEF Moved, WellFormed, RequestOK, Bound, Points
    <3>3. Spent(approvals[a].task)' /\ checkpoints'[approvals'[a].task].approval = a
      BY <3>1, <3>2 DEF ClaimKept, LinksKept, NoNewLink, ClaimedOK, ClaimedPoints, Spent
    <3> QED
      BY <3>1, <3>3 DEF CalledOK, Spent
  <2> QED
    BY <2>1, <2>2 DEF CalledOK
<1>7. CreatedOnce'
  <2>1. ASSUME NEW v \in Workers, v # w, job[v].at \in CreatingPoints,
               job'[w].at \in CreatingPoints
        PROVE  job'[w].task # job[v].task
    BY <2>1, <1>1 DEF ClaimKept, LinksKept, NoNewLink, ClaimInv, CreatedOnce, CreatingOK
  <2> QED
    BY <2>1, <1>1 DEF CreatedOnce, ClaimInv
<1>8. ClaimExclusive'
  <2>1. ASSUME NEW v \in Workers, v # w, job[v].at \in ClaimedPoints,
               job'[w].at \in ClaimedPoints
        PROVE  job'[w].task # job[v].task
    <3>1. Spent(job[v].task)
      BY <2>1, <1>1 DEF ClaimedOK
    <3> QED
      BY <2>1, <3>1 DEF ClaimKept, LinksKept, NoNewLink, ClaimInv, ClaimExclusive, ClaimedPoints
  <2> QED
    BY <2>1, <1>1 DEF ClaimExclusive, ClaimedPoints, ClaimInv
<1> QED
  BY <1>3, <1>4, <1>5, <1>6, <1>7, <1>8 DEF ClaimInv, GraphCallsOnce

\* A step that writes no checkpoint links none.
LEMMA LinksUnchanged ==
  UNCHANGED checkpoints => LinksKept /\ \A w \in Workers : NoNewLink(w)
BY DEF LinksKept, NoNewLink, Spent, Unlinked

\* A checkpoint that is written spent, with the link it had.
LEMMA LinksSpent ==
  ASSUME NEW t \in Tasks, NEW w \in Workers,
         checkpoints'[t].consumed \/ checkpoints'[t].status # "interrupted",
         checkpoints'[t].approval = checkpoints[t].approval,
         \A u \in Tasks : u # t => checkpoints'[u] = checkpoints[u]
  PROVE  LinksKept /\ NoNewLink(w)
<1>1. ASSUME NEW u \in Tasks
      PROVE  /\ checkpoints'[u].approval = checkpoints[u].approval
             /\ Spent(u) => Spent(u)'
  <2>1. CASE u = t
    BY <2>1 DEF Spent
  <2>2. CASE u # t
    BY <2>2 DEF Spent
  <2> QED
    BY <2>1, <2>2
<1> QED
  BY <1>1 DEF LinksKept, NoNewLink, Unlinked

\* A step that leaves the checkpoints and the graph calls alone and ends
\* outside creation and claim.
LEMMA ClaimPlain ==
  ASSUME TypeOK, NEW w \in Workers, UNCHANGED <<checkpoints, created>>,
         job'[w].at \notin CreatingPoints \cup ClaimedPoints,
         \A a \in ApprovalIds : IsGraph(a)' => calls'[a] = calls[a]
  PROVE  ClaimKept(w)
<1>1. LinksKept /\ NoNewLink(w)
  BY LinksUnchanged
<1>2. CreatingOK(w)' /\ ClaimedOK(w)'
  BY DEF CreatingOK, ClaimedOK
<1> QED
  BY <1>1, <1>2 DEF ClaimKept

\* A step that writes one checkpoint.
LEMMA CheckpointWritten ==
  ASSUME WellFormed, NEW w \in Workers, job[w].task \in Tasks,
         NEW c \in CheckpointRows, PutCheckpoint(job[w].task, c)
  PROVE  /\ checkpoints'[job[w].task] = c
         /\ \A t \in Tasks : t # job[w].task => checkpoints'[t] = checkpoints[t]
BY CheckpointPut DEF WellFormed, TypeOK

\* Every step of a worker keeps the claim protocol.
LEMMA ClaimStep ==
  ASSUME WellFormed, ClaimInv, NEW w \in Workers, Step(w)
  PROVE  ClaimInv'
<1> SUFFICES ClaimKept(w)
  BY WellFormedStep, ClaimRest
<1> USE DecisionsAssumption, ModeAssumption
<1>a. TypeOK /\ job \in [Workers -> Requests] /\ RequestOK(w) /\ CreatingOK(w)
      /\ ClaimedOK(w) /\ Moved(w)
  BY WellFormedStep DEF WellFormed, TypeOK, ClaimInv
<1>b. ASSUME UNCHANGED <<checkpoints, calls, created>>,
             job'[w].at \notin CreatingPoints \cup ClaimedPoints
      PROVE  ClaimKept(w)
  BY <1>a, <1>b, ClaimPlain
<1> DEFINE T == job[w].task
<1>1. CASE DecisionSteps(w) /\ UNCHANGED history
  <2> DEFINE d == [checkpoints[T] EXCEPT !.status = "cancelled", !.consumed = TRUE]
  <2>1. CASE CancelCheckpoint(w) /\ PutCheckpoint(T, d)
    <3> DEFINE c == d
    <3>1. Done(w) /\ PutCheckpoint(T, c) /\ UNCHANGED <<created, calls>>
      BY <1>1, <2>1 DEF CancelCheckpoint, history
    <3>2. T \in Tasks
      BY <2>1, <1>a DEF CancelCheckpoint, At, RequestOK
    <3>3. checkpoints[T] \in CheckpointRows
      BY <3>2, <1>a DEF TypeOK
    <3>4. c \in CheckpointRows /\ c.consumed /\ c.approval = checkpoints[T].approval
      BY <3>3 DEF CheckpointRows
    <3> HIDE DEF d
    <3>5. checkpoints'[T] = c
          /\ \A t \in Tasks : t # T => checkpoints'[t] = checkpoints[t]
      BY <3>1, <3>2, <3>4, CheckpointWritten
    <3>6. job'[w].at = "idle"
      BY <3>1, <1>a, DoneJob
    <3> QED
      <4>1. LinksKept /\ NoNewLink(w)
        BY <3>2, <3>4, <3>5, LinksSpent
      <4> QED
        BY <3>1, <3>6, <4>1
           DEF ClaimKept, CreatingOK, ClaimedOK, CreatingPoints, ClaimedPoints
  <2>2. CASE PayloadRead(w)
    <3>1. job'[w].at = "payload_write"
      BY <2>2, <1>a DEF PayloadRead, PutJob, Requests
    <3> QED
      BY <1>1, <2>2, <3>1, <1>b
         DEF PayloadRead, history, stores, CreatingPoints, ClaimedPoints
  <2>3. CASE DecideRead(w) \/ DecideSelect(w) \/ DecideWrite(w) \/ AuditDecision(w)
    <3>1. \E p \in {"decide_select", "decide_write", "audit", "cancel_task",
                    "resume"} : Goto(w, p) \/ Done(w)
      BY <2>3 DEF DecideRead, DecideSelect, DecideWrite, AuditDecision
    <3>2. UNCHANGED checkpoints
      BY <2>3 DEF DecideRead, DecideSelect, DecideWrite, AuditDecision, stores
    <3> QED
      BY <1>1, <3>1, <3>2, <1>a, <1>b, GotoJob, DoneJob
         DEF history, Points, CreatingPoints, ClaimedPoints
  <2>4. CASE CancelTask(w) \/ PayloadWrite(w)
           \/ (CancelCheckpoint(w) /\ checkpoints' = checkpoints)
    <3>1. Goto(w, "cancel_checkpoint") \/ Done(w)
      BY <2>4 DEF CancelTask, CancelCheckpoint, PayloadWrite
    <3>2. UNCHANGED checkpoints
      BY <2>4 DEF CancelTask, PayloadWrite
    <3> QED
      BY <1>1, <3>1, <3>2, <1>a, <1>b, GotoJob, DoneJob
         DEF history, Points, CreatingPoints, ClaimedPoints
  <2>5. CancelCheckpoint(w) => PutCheckpoint(T, d) \/ checkpoints' = checkpoints
    BY DEF CancelCheckpoint
  <2> HIDE DEF d
  <2> QED
    BY <1>1, <2>1, <2>2, <2>3, <2>4, <2>5 DEF DecisionSteps
<1>2. CASE NewCheckpoint(w)
  <2> DEFINE c == [NoCheckpoint EXCEPT !.status = "interrupted"]
  <2>1. Goto(w, "new_approval") /\ PutCheckpoint(T, c) /\ UNCHANGED <<created, calls>>
        /\ job[w].at = "new_checkpoint"
    BY <1>2 DEF NewCheckpoint, history, At
  <2>2. T \in Tasks /\ T \in created /\ Unlinked(T)
    BY <2>1, <1>a DEF RequestOK, CreatingOK, CreatingPoints
  <2>3. c \in CheckpointRows /\ c.approval = NoApproval
    BY DEF CheckpointRows, NoCheckpoint
  <2> HIDE DEF c
  <2>4. checkpoints'[T] = c /\ \A t \in Tasks : t # T => checkpoints'[t] = checkpoints[t]
    BY <2>1, <2>2, <2>3, CheckpointWritten
  <2>5. job'[w].at = "new_approval" /\ job'[w].task = T
    BY <2>1, <1>a, GotoJob DEF Points
  <2>6. LinksKept /\ NoNewLink(w)
    BY <2>1, <2>2, <2>3, <2>4
       DEF LinksKept, NoNewLink, Spent, Unlinked, CreatingPoints
  <2>7. CreatingOK(w)' /\ ClaimedOK(w)'
    BY <2>1, <2>2, <2>3, <2>4, <2>5 DEF CreatingOK, ClaimedOK, Unlinked, ClaimedPoints
  <2> QED
    BY <2>1, <2>5, <2>6, <2>7 DEF ClaimKept, CreatingPoints, ClaimedPoints
<1>3. CASE NewApproval(w)
  <2>1. UNCHANGED <<checkpoints, created, calls>> /\ job[w].at = "new_approval"
    BY <1>3 DEF NewApproval, history, At
  <2>2. job'[w].at \in {"save", "mark_pending"} /\ job'[w].task = T
    BY <1>3, <1>a DEF NewApproval, PutJob, Requests
  <2>3. CreatingOK(w)' /\ ClaimedOK(w)'
    BY <2>1, <2>2, <1>a DEF CreatingOK, ClaimedOK, Unlinked, CreatingPoints, ClaimedPoints
  <2> QED
    BY <2>1, <2>2, <2>3, LinksUnchanged DEF ClaimKept, CreatingPoints, ClaimedPoints
<1>4. CASE MarkPendingInterrupt(w)
  <2> DEFINE c == [checkpoints[T] EXCEPT !.status = "interrupted",
                                         !.approval = job[w].appr]
  <2>1. Goto(w, "save") /\ PutCheckpoint(T, c) /\ UNCHANGED <<created, calls>>
        /\ job[w].at = "mark_pending"
    BY <1>4 DEF MarkPendingInterrupt, history, At
  <2>2. T \in Tasks /\ T \in created /\ Unlinked(T) /\ job[w].appr \in ApprovalIds
    BY <2>1, <1>a DEF RequestOK, CreatingOK, CreatingPoints, Bound, Points
  <2>3. checkpoints[T] \in CheckpointRows
    BY <2>2, <1>a DEF TypeOK
  <2>4. c \in CheckpointRows
    BY <2>2, <2>3 DEF CheckpointRows
  <2> HIDE DEF c
  <2>5. \A t \in Tasks : t # T => checkpoints'[t] = checkpoints[t]
    BY <2>1, <2>2, <2>4, CheckpointWritten
  <2>6. job'[w].at = "save"
    BY <2>1, <1>a, GotoJob DEF Points
  <2>7. LinksKept /\ NoNewLink(w)
    BY <2>1, <2>2, <2>5 DEF LinksKept, NoNewLink, Spent, Unlinked, CreatingPoints
  <2> QED
    BY <2>1, <2>6, <2>7
       DEF ClaimKept, CreatingOK, ClaimedOK, CreatingPoints, ClaimedPoints
<1>5. CASE Save(w)
  <2>1. job'[w].at = "idle"
    BY <1>5, <1>a, DoneJob DEF Save
  <2> QED
    BY <1>5, <2>1, <1>b DEF Save, history, CreatingPoints, ClaimedPoints
<1>6. CASE Resume(w)
  <2>1. job'[w].at \in {"idle", "call", "claim"}
    <3>1. T \in Tasks /\ approvals[job[w].appr].mode = Mode[T]
          /\ Mode[T] \in {"keyword", "graph_keyword"}
      BY <1>6, <1>a DEF Resume, ResumeEntry, At, RequestOK, Bound, Points,
         WellFormed, RowOK
    <3>2. Done(w) \/ Goto(w, "call") \/ Goto(w, "claim")
      BY <1>6, <3>1 DEF Resume, ResumeEntry
    <3> QED
      BY <3>2, <1>a, GotoJob, DoneJob DEF Points
  <2> QED
    BY <1>6, <2>1, <1>b
       DEF Resume, ResumeEntry, history, stores, CreatingPoints, ClaimedPoints
<1>7. CASE CallTool(w)
  <2>1. job'[w].at = "task" /\ job[w].at = "call"
    BY <1>7, <1>a DEF CallTool, PutJob, Requests, At
  <2>2. approvals[job[w].appr].mode = "keyword"
    BY <2>1, <1>a DEF WellFormed, RowOK, RequestOK, Bound, Points, KeywordPoints
  <2>3. \A a \in ApprovalIds : IsGraph(a)' => calls'[a] = calls[a]
    BY <1>7, <2>2, <1>a DEF CallTool, CallGateway, stores, IsGraph, TypeOK
  <2> QED
    BY <1>7, <2>1, <2>3, <1>a, ClaimPlain
       DEF CallTool, stores, CreatingPoints, ClaimedPoints
<1>8. CASE UpdateTask(w) \/ UpdateTaskFailed(w)
  <2>1. job'[w].at = "payload_read"
    BY <1>8, <1>a, GotoJob DEF UpdateTask, UpdateTaskFailed, Points
  <2> QED
    BY <1>8, <2>1, <1>b
       DEF UpdateTask, UpdateTaskFailed, history, CreatingPoints, ClaimedPoints
<1>9. CASE Claim(w) /\ Goto(w, "graph_call")
  <2> DEFINE c == [checkpoints[T] EXCEPT !.status = "resuming"]
  <2>1. /\ job[w].at = "claim" /\ UNCHANGED <<created, calls>>
        /\ job'[w].at = "graph_call" /\ job'[w].task = T /\ job'[w].appr = job[w].appr
    BY <1>9, <1>a, GotoJob DEF Claim, At, history, Points
  <2>2. Claimable(T, job[w].appr) /\ PutCheckpoint(T, c)
    <3>1. job'[w].at # "idle"
      BY <2>1
    <3>2. ~Done(w)
      BY <3>1, <1>a, DoneJob
    <3> QED
      BY <1>9, <3>2 DEF Claim
  <2>3. /\ T \in Tasks /\ job[w].appr \in ApprovalIds
        /\ approvals[job[w].appr].task = T
        /\ approvals[job[w].appr].mode = "graph_keyword"
    BY <2>1, <1>a DEF RequestOK, WellFormed, RowOK, Bound, GraphPoints, Points
  <2>4. checkpoints[T] \in CheckpointRows /\ ~Spent(T) /\ ~Unlinked(T)
    BY <2>2, <2>3, <1>a DEF TypeOK, Claimable, Spent, Unlinked
  <2>5. /\ c \in CheckpointRows /\ c.status = "resuming" /\ c.approval = job[w].appr
    BY <2>2, <2>4 DEF CheckpointRows, Claimable
  <2> HIDE DEF c
  <2>6. checkpoints'[T] = c /\ \A t \in Tasks : t # T => checkpoints'[t] = checkpoints[t]
    BY <2>2, <2>3, <2>5, CheckpointWritten
  <2>7. calls[job[w].appr] = 0
    <3>1. calls[job[w].appr] \in 0..Many
      BY <2>3, <1>a DEF TypeOK
    <3>2. ~(calls[job[w].appr] > 0)
      BY <2>3, <2>4 DEF ClaimInv, CalledOK, IsGraph
    <3> QED
      BY <3>1, <3>2 DEF Many
  <2>8. ClaimedOK(w)' /\ CreatingOK(w)'
    BY <2>1, <2>5, <2>6, <2>7 DEF ClaimedOK, CreatingOK, Spent, CreatingPoints
  <2>9. LinksKept /\ NoNewLink(w)
    BY <2>2, <2>3, <2>5, <2>6, LinksSpent DEF Claimable
  <2> QED
    BY <2>1, <2>4, <2>8, <2>9 DEF ClaimKept, CreatingPoints, ClaimedPoints
<1>10. CASE Claim(w) /\ ~Goto(w, "graph_call")
  <2>1. Done(w) /\ UNCHANGED <<checkpoints, calls, created>>
    BY <1>10 DEF Claim, history
  <2> QED
    BY <2>1, <1>a, <1>b, DoneJob DEF CreatingPoints, ClaimedPoints
<1>11. CASE GraphCallTool(w)
  <2>1. /\ job[w].at = "graph_call" /\ UNCHANGED <<checkpoints, created>>
        /\ job'[w].at = "graph_task" /\ job'[w].task = T /\ job'[w].appr = job[w].appr
        /\ calls' = [calls EXCEPT ![job[w].appr] = Count(@)]
    BY <1>11, <1>a DEF GraphCallTool, CallGateway, At, PutJob, Requests, stores
  <2>2. calls[job[w].appr] = 0 /\ Spent(T) /\ checkpoints[T].approval = job[w].appr
    BY <2>1, <1>a DEF ClaimedOK, ClaimedPoints
  <2>3. \A a \in ApprovalIds : calls'[a] # calls[a] => a = job[w].appr /\ calls'[a] = 1
    BY <2>1, <2>2, <1>a DEF TypeOK, Count, Many
  <2>4. ClaimedOK(w)' /\ CreatingOK(w)'
    BY <2>1, <2>2 DEF ClaimedOK, CreatingOK, Spent, CreatingPoints
  <2> QED
    BY <2>1, <2>3, <2>4, LinksUnchanged DEF ClaimKept, CreatingPoints, ClaimedPoints
<1>12. CASE GraphUpdateTask(w)
  <2>1. /\ job[w].at = "graph_task" /\ UNCHANGED <<checkpoints, created, calls>>
        /\ job'[w].at = "mark_resumed" /\ job'[w].task = T /\ job'[w].appr = job[w].appr
    BY <1>12, <1>a, GotoJob DEF GraphUpdateTask, At, history, Points
  <2>2. ClaimedOK(w)' /\ CreatingOK(w)'
    BY <2>1, <1>a DEF ClaimedOK, CreatingOK, Spent, CreatingPoints, ClaimedPoints
  <2> QED
    BY <2>1, <2>2, LinksUnchanged DEF ClaimKept, CreatingPoints, ClaimedPoints
<1>13. CASE MarkResumed(w)
  <2> DEFINE c == [checkpoints[T] EXCEPT !.status = "resumed", !.consumed = TRUE]
  <2>1. Goto(w, "payload_read") /\ PutCheckpoint(T, c) /\ UNCHANGED <<created, calls>>
    BY <1>13 DEF MarkResumed, history
  <2>2. T \in Tasks
    BY <1>13, <1>a DEF MarkResumed, At, RequestOK
  <2>3. checkpoints[T] \in CheckpointRows
    BY <2>2, <1>a DEF TypeOK
  <2>4. c \in CheckpointRows /\ c.consumed /\ c.approval = checkpoints[T].approval
    BY <2>3 DEF CheckpointRows
  <2> HIDE DEF c
  <2>5. checkpoints'[T] = c /\ \A t \in Tasks : t # T => checkpoints'[t] = checkpoints[t]
    BY <2>1, <2>2, <2>4, CheckpointWritten
  <2>6. job'[w].at = "payload_read"
    BY <2>1, <1>a, GotoJob DEF Points
  <2> QED
    <3>1. LinksKept /\ NoNewLink(w)
      BY <2>2, <2>4, <2>5, LinksSpent
    <3> QED
      BY <2>1, <2>6, <3>1
         DEF ClaimKept, CreatingOK, ClaimedOK, CreatingPoints, ClaimedPoints
<1>14. CASE DecisionRequests(w) /\ UNCHANGED history
  <2>1. job'[w].at \in {"decide", "resume"} /\ UNCHANGED checkpoints
    BY <1>14, <1>a, Requested DEF TypeOK, stores
  <2> QED
    BY <1>14, <2>1, <1>b DEF history, CreatingPoints, ClaimedPoints
<1>15. CASE DecisionFaults(w) /\ UNCHANGED history
  <2>1. (Goto(w, "cancel_checkpoint") \/ Done(w)) /\ UNCHANGED checkpoints
    BY <1>15 DEF DecisionFaults, CancelTaskFault, Abort, stores
  <2> QED
    BY <1>15, <2>1, <1>a, <1>b, GotoJob, DoneJob
       DEF history, Points, CreatingPoints, ClaimedPoints
<1>16. CASE CreateFault(w) \/ UpdateTaskFault(w)
  <2>1. job'[w].at \in {"save", "task_failed"}
    <3>1. CreateFault(w) => job'[w].at = "save"
      BY <1>a DEF CreateFault, PutJob, Requests
    <3>2. UpdateTaskFault(w) => job'[w].at = "task_failed"
      BY <1>a DEF UpdateTaskFault, PutJob, Requests
    <3> QED
      BY <1>16, <3>1, <3>2
  <2>2. UNCHANGED <<checkpoints, calls, created>>
    BY <1>16 DEF CreateFault, UpdateTaskFault, stores, history
  <2> QED
    BY <2>1, <2>2, <1>b DEF CreatingPoints, ClaimedPoints
<1>17. ASSUME NEW t \in Tasks, CreateTask(w, t) PROVE ClaimKept(w)
  <2>1. /\ job'[w].at \in {"new_approval", "new_checkpoint"} /\ job'[w].task = t
        /\ created' = created \cup {t} /\ UNCHANGED <<checkpoints, calls>>
        /\ t \notin created
    BY <1>17, <1>a DEF CreateTask, PutJob, NoRequest, stores
  <2>2. Unlinked(t)
    BY <1>17, <2>1 DEF ClaimInv
  <2> QED
    <3>1. CreatingOK(w)' /\ ClaimedOK(w)'
      BY <2>1, <2>2 DEF CreatingOK, ClaimedOK, Unlinked, ClaimedPoints
    <3> QED
      BY <2>1, <3>1, LinksUnchanged DEF ClaimKept, CreatingPoints, ClaimedPoints
<1> QED
  BY <1>1, <1>2, <1>3, <1>4, <1>5, <1>6, <1>7, <1>8, <1>9, <1>10, <1>11, <1>12,
     <1>13, <1>14, <1>15, <1>16, <1>17
     DEF Step, Serve, CreateSteps, ResumeSteps

\* ClaimInv is inductive beside WellFormed.
LEMMA ClaimInvAlways == Spec => []ClaimInv
<1>1. Init => ClaimInv
  BY DEF Init, DecisionsInit, ClaimInv, CreatingOK, ClaimedOK, CalledOK,
     Unlinked, CreatedOnce, ClaimExclusive, GraphCallsOnce, CreatingPoints,
     ClaimedPoints, NoRequest, NoCheckpoint
<1>2. WellFormed /\ ClaimInv /\ [Next]_vars => ClaimInv'
  <2>1. ClaimInv /\ UNCHANGED vars => ClaimInv'
    BY DEF vars, stores, ClaimInv, CreatingOK, ClaimedOK, CalledOK, Spent,
       Unlinked, IsGraph, CreatedOnce, ClaimExclusive, GraphCallsOnce
  <2> QED
    BY <2>1, ClaimStep DEF Next
<1> QED
  BY <1>1, <1>2, WellFormedAlways, PTL DEF Spec

\* A graph approval runs its tool at most once: with any number of workers, on
\* either backend, with retries and requests cut short anywhere.
THEOREM GraphCalledOnce == Spec => []GraphCallsOnce
<1>1. ClaimInv => GraphCallsOnce
  BY DEF ClaimInv
<1> QED
  BY <1>1, ClaimInvAlways, PTL

\* claim_for_resume lets one worker at a time past it for a task.
THEOREM ClaimsExclusive == Spec => []ClaimExclusive
<1>1. ClaimInv => ClaimExclusive
  BY DEF ClaimInv
<1> QED
  BY <1>1, ClaimInvAlways, PTL

-----------------------------------------------------------------------------
(* Consumption: an approval is consumed only after its tool ran.           *)

EndPoints == {"task", "task_failed", "graph_task", "mark_resumed",
              "payload_read", "payload_write"}

\* What ConsumedMeansRun asks of a consumed approval.
Ran(a) == calls[a] > 0 /\ (IsGraph(a) \/ wins[a] > 0)

\* A request that is going to consume its approval, or that read it as consumed.
ConsumingOK(w) ==
  /\ job[w].at \in EndPoints /\ job[w].consumed => Ran(job[w].appr)
  /\ job[w].at = "payload_write" /\ job[w].seen => Ran(job[w].appr)

ConsumedInv == (\A w \in Workers : ConsumingOK(w)) /\ ConsumedMeansRun

\* No step takes back that a tool ran.
LEMMA RanKept ==
  ASSUME WellFormed, NEW w \in Workers, Step(w), Moved(w), NEW a \in ApprovalIds,
         Ran(a)
  PROVE  Ran(a)'
<1>1. approvals[a].status # "absent" /\ calls[a] \in 0..Many /\ wins[a] \in 0..Many
  BY DEF WellFormed, RowOK, TypeOK, Ran
<1>2. IsGraph(a)' <=> IsGraph(a)
  BY <1>1 DEF Moved, RowsKept, IsGraph
<1>3. calls'[a] \in {calls[a], Count(calls[a])} /\ wins'[a] \in {wins[a], Count(wins[a])}
  <2>1. CASE UNCHANGED <<calls, wins>>
    BY <2>1
  <2>2. CASE CallTool(w) \/ GraphCallTool(w)
    <3>1. PICK success \in BOOLEAN : CallGateway(w, success)
      BY <2>2 DEF CallTool, GraphCallTool
    <3>2. calls \in [ApprovalIds -> 0..Many] /\ wins \in [ApprovalIds -> 0..Many]
      BY DEF WellFormed, TypeOK
    <3> QED
      BY <3>1, <3>2 DEF CallGateway
  <2>3. CreateSteps(w) => UNCHANGED <<calls, wins>>
    BY DEF CreateSteps, NewCheckpoint, NewApproval, MarkPendingInterrupt, Save, history
  <2>4. ResumeSteps(w) => CallTool(w) \/ GraphCallTool(w) \/ UNCHANGED <<calls, wins>>
    BY DEF ResumeSteps, Resume, UpdateTask, UpdateTaskFailed, Claim,
       GraphUpdateTask, MarkResumed, history
  <2> QED
    BY <2>1, <2>2, <2>3, <2>4
       DEF Step, Serve, CreateFault, UpdateTaskFault, CreateTask, history
<1> QED
  BY <1>1, <1>2, <1>3 DEF Ran, Count, Many

\* What is left to show: the request of w, and the row it may have consumed.
LEMMA ConsumedRest ==
  ASSUME WellFormed, ConsumedInv, NEW w \in Workers, Step(w), Moved(w),
         ConsumingOK(w)',
         \A a \in ApprovalIds : approvals'[a].resumed => approvals[a].resumed \/ Ran(a)
  PROVE  ConsumedInv'
<1>1. \A a \in ApprovalIds : Ran(a) => Ran(a)'
  BY RanKept
<1>2. ASSUME NEW v \in Workers, v # w PROVE ConsumingOK(v)'
  <2>1. job'[v] = job[v] /\ ConsumingOK(v) /\ RequestOK(v)
    BY <1>2 DEF Moved, OnlyJob, ConsumedInv, WellFormed
  <2>2. job[v].at \in EndPoints => job[v].appr \in ApprovalIds
    BY <2>1 DEF EndPoints, RequestOK, Bound, Points
  <2>3. job[v].at \in EndPoints /\ Ran(job[v].appr) => Ran(job[v].appr)'
    BY <2>1, <2>2, <1>1 DEF Ran, IsGraph
  <2>4. "payload_write" \in EndPoints
    BY DEF EndPoints
  <2> QED
    BY <2>1, <2>3, <2>4 DEF ConsumingOK
<1>3. ASSUME NEW a \in ApprovalIds, approvals'[a].resumed PROVE Ran(a)'
  BY <1>1, <1>3 DEF ConsumedInv, ConsumedMeansRun, Ran
<1> QED
  BY <1>2, <1>3 DEF ConsumedInv, ConsumedMeansRun, Ran, IsGraph

\* Every step of a worker keeps consumed approvals those whose tool ran.
LEMMA ConsumedStep ==
  ASSUME WellFormed, ConsumedInv, NEW w \in Workers, Step(w)
  PROVE  ConsumedInv'
<1>a. Moved(w) /\ job \in [Workers -> Requests] /\ RequestOK(w) /\ ConsumingOK(w)
      /\ approvals \in [ApprovalIds -> Rows]
  BY WellFormedStep DEF WellFormed, TypeOK, ConsumedInv
<1>b. ASSUME job'[w].at \notin EndPoints, UNCHANGED approvals PROVE ConsumedInv'
  <2>1. ConsumingOK(w)'
    BY <1>b DEF ConsumingOK, EndPoints
  <2> QED
    BY <2>1, <1>a, <1>b, ConsumedRest
\* A request that moves on to its end with the result it has.
<1>c. ASSUME job[w].at \in EndPoints, UNCHANGED approvals, NEW p \in EndPoints,
             Goto(w, p), p # "payload_write"
      PROVE  ConsumedInv'
  <2>1. /\ job'[w].at = p /\ job'[w].appr = job[w].appr
        /\ job'[w].consumed = job[w].consumed
    BY <1>a, <1>c, GotoJob DEF EndPoints, Points
  <2>2. job[w].appr \in ApprovalIds
    BY <1>a, <1>c DEF EndPoints, RequestOK, Bound, Points
  <2>3. job[w].consumed => Ran(job[w].appr)'
    <3>1. job[w].consumed => Ran(job[w].appr)
      BY <1>a, <1>c DEF ConsumingOK
    <3>2. \A a \in ApprovalIds : Ran(a) => Ran(a)'
      BY <1>a, RanKept
    <3> QED
      BY <3>1, <3>2, <2>1, <2>2 DEF Ran, IsGraph
  <2>4. ConsumingOK(w)'
    BY <2>1, <2>3, <1>c DEF ConsumingOK
  <2> QED
    BY <2>4, <1>a, <1>c, ConsumedRest
<1>1. CASE DecisionSteps(w) /\ UNCHANGED history
  <2>1. CASE DecideRead(w) \/ DecideSelect(w) \/ AuditDecision(w)
    <3>1. \E p \in {"decide_select", "decide_write", "cancel_task", "resume"} :
            Goto(w, p) \/ Done(w)
      BY <2>1 DEF DecideRead, DecideSelect, AuditDecision
    <3>2. UNCHANGED approvals
      BY <2>1 DEF DecideRead, DecideSelect, AuditDecision, stores
    <3> QED
      BY <3>1, <3>2, <1>a, <1>b, GotoJob, DoneJob DEF Points, EndPoints
  <2>2. CASE CancelTask(w) \/ CancelCheckpoint(w)
    <3>1. (Goto(w, "cancel_checkpoint") \/ Done(w)) /\ UNCHANGED approvals
      BY <2>2 DEF CancelTask, CancelCheckpoint
    <3> QED
      BY <3>1, <1>a, <1>b, GotoJob, DoneJob DEF Points, EndPoints
  <2>3. CASE DecideWrite(w)
    <3> DEFINE row == [approvals[job[w].appr] EXCEPT !.status = job[w].verb]
    <3>1. Goto(w, "audit") /\ (PutRow(job[w].appr, row) \/ UNCHANGED approvals)
      BY <2>3 DEF DecideWrite
    <3>2. job[w].appr \in ApprovalIds
      BY <2>3, <1>a DEF DecideWrite, At, RequestOK, Bound, Points
    <3>3. row.resumed = approvals[job[w].appr].resumed
      BY <3>2, <1>a DEF Rows
    <3> HIDE DEF row
    <3>4. \A a \in ApprovalIds : approvals'[a].resumed => approvals[a].resumed
      BY <3>1, <3>2, <3>3, <1>a DEF PutRow
    <3>5. job'[w].at = "audit"
      BY <3>1, <1>a, GotoJob DEF Points
    <3>6. ConsumingOK(w)'
      BY <3>5 DEF ConsumingOK, EndPoints
    <3> QED
      BY <3>4, <3>6, <1>a, ConsumedRest
  <2>4. CASE PayloadRead(w)
    <3>1. /\ job[w].at = "payload_read" /\ UNCHANGED approvals
          /\ job'[w].at = "payload_write" /\ job'[w].appr = job[w].appr
          /\ job'[w].consumed = job[w].consumed
          /\ job'[w].seen = approvals[job[w].appr].resumed
      BY <2>4, <1>a DEF PayloadRead, PutJob, Requests, At, stores
    <3>2. job[w].appr \in ApprovalIds
      BY <3>1, <1>a DEF RequestOK, Bound, Points
    <3>3. job[w].consumed \/ approvals[job[w].appr].resumed => Ran(job[w].appr)
      BY <3>1, <3>2, <1>a
         DEF ConsumingOK, EndPoints, ConsumedInv, ConsumedMeansRun, Ran
    <3>4. Ran(job[w].appr) => Ran(job[w].appr)'
      <4>1. \A a \in ApprovalIds : Ran(a) => Ran(a)'
        BY <1>a, RanKept
      <4> QED
        BY <4>1, <3>1, <3>2 DEF Ran, IsGraph
    <3>5. ConsumingOK(w)'
      BY <3>1, <3>3, <3>4 DEF ConsumingOK, Ran, IsGraph
    <3> QED
      BY <3>1, <3>5, <1>a, ConsumedRest
  <2>5. CASE PayloadWrite(w)
    <3> DEFINE row == [approvals[job[w].appr] EXCEPT
                         !.resumed = job[w].consumed \/ job[w].seen]
    <3>1. Done(w) /\ PutRow(job[w].appr, row) /\ job[w].at = "payload_write"
      BY <2>5 DEF PayloadWrite, At
    <3>2. job[w].appr \in ApprovalIds
      BY <3>1, <1>a DEF RequestOK, Bound, Points
    <3>3. row.resumed => job[w].consumed \/ job[w].seen
      BY <3>2, <1>a DEF Rows
    <3> HIDE DEF row
    <3>4. job[w].consumed \/ job[w].seen => Ran(job[w].appr)
      BY <3>1, <1>a DEF ConsumingOK, EndPoints
    <3>5. \A a \in ApprovalIds : approvals'[a].resumed => approvals[a].resumed \/ Ran(a)
      BY <3>1, <3>2, <3>3, <3>4, <1>a DEF PutRow
    <3>6. ConsumingOK(w)'
      BY <3>1, <1>a, DoneJob DEF ConsumingOK, EndPoints
    <3> QED
      BY <3>5, <3>6, <1>a, ConsumedRest
  <2> QED
    BY <1>1, <2>1, <2>2, <2>3, <2>4, <2>5 DEF DecisionSteps
<1>2. CASE NewCheckpoint(w) \/ MarkPendingInterrupt(w) \/ Save(w)
  <2>1. (Goto(w, "new_approval") \/ Goto(w, "save") \/ Done(w)) /\ UNCHANGED approvals
    BY <1>2 DEF NewCheckpoint, MarkPendingInterrupt, Save
  <2> QED
    BY <2>1, <1>a, <1>b, GotoJob, DoneJob DEF Points, EndPoints
<1>3. CASE NewApproval(w)
  <2>1. PICK a \in ApprovalIds : CreateApproval(a, job[w].task, Mode[job[w].task], 1)
    BY <1>3 DEF NewApproval
  <2>2. \A b \in ApprovalIds : approvals'[b].resumed => approvals[b].resumed
    BY <2>1, <1>a DEF CreateApproval, PutRow
  <2>3. job'[w].at \in {"save", "mark_pending"}
    BY <1>3, <1>a DEF NewApproval, PutJob, Requests
  <2>4. ConsumingOK(w)'
    BY <2>3 DEF ConsumingOK, EndPoints
  <2> QED
    BY <2>2, <2>4, <1>a, ConsumedRest
<1>4. CASE Resume(w)
  <2>1. job'[w].at \in {"idle", "call", "claim"}
    <3>1. /\ approvals[job[w].appr].mode = Mode[job[w].task]
          /\ Mode[job[w].task] \in {"keyword", "graph_keyword"}
      BY <1>4, <1>a, ModeAssumption DEF Resume, ResumeEntry, At, RequestOK, Bound,
         Points, WellFormed, RowOK
    <3>2. Done(w) \/ Goto(w, "call") \/ Goto(w, "claim")
      BY <1>4, <3>1 DEF Resume, ResumeEntry
    <3> QED
      BY <3>2, <1>a, GotoJob, DoneJob DEF Points
  <2> QED
    BY <1>4, <2>1, <1>b DEF Resume, ResumeEntry, stores, EndPoints
<1>5. CASE CallTool(w)
  <2>1. PICK success \in BOOLEAN :
          CallGateway(w, success)
          /\ PutJob(w, [job[w] EXCEPT !.at = "task", !.verdict = Verdict(success),
                                      !.consumed = success])
    BY <1>5 DEF CallTool
  <2>2. /\ job'[w].at = "task" /\ job'[w].appr = job[w].appr
        /\ job'[w].consumed = success
    BY <2>1, <1>a DEF PutJob, Requests
  <2>3. job[w].appr \in ApprovalIds /\ UNCHANGED approvals
    BY <1>5, <1>a DEF CallTool, At, stores, RequestOK, Bound, Points
  <2>4. calls[job[w].appr] \in 0..Many /\ wins[job[w].appr] \in 0..Many
    BY <2>3 DEF WellFormed, TypeOK
  <2>5. success => Ran(job[w].appr)'
    BY <2>1, <2>2, <2>3, <2>4 DEF CallGateway, Ran, Count, Many, WellFormed, TypeOK
  <2>6. ConsumingOK(w)'
    BY <2>2, <2>5 DEF ConsumingOK
  <2> QED
    BY <2>3, <2>6, <1>a, ConsumedRest
<1>6. CASE GraphCallTool(w)
  <2>1. PICK success \in BOOLEAN :
          CallGateway(w, success)
          /\ PutJob(w, [job[w] EXCEPT !.at = "graph_task",
                                      !.verdict = Verdict(success),
                                      !.consumed = TRUE])
    BY <1>6 DEF GraphCallTool
  <2>2. job'[w].at = "graph_task" /\ job'[w].appr = job[w].appr
    BY <2>1, <1>a DEF PutJob, Requests
  <2>3. job[w].appr \in ApprovalIds /\ UNCHANGED approvals /\ IsGraph(job[w].appr)
    BY <1>6, <1>a DEF GraphCallTool, At, stores, RequestOK, Bound, Points,
       GraphPoints, IsGraph, WellFormed, RowOK
  <2>4. calls[job[w].appr] \in 0..Many
    BY <2>3 DEF WellFormed, TypeOK
  <2>5. Ran(job[w].appr)'
    BY <2>1, <2>2, <2>3, <2>4
       DEF CallGateway, Ran, IsGraph, Count, Many, WellFormed, TypeOK
  <2>6. ConsumingOK(w)'
    BY <2>2, <2>5 DEF ConsumingOK
  <2> QED
    BY <2>3, <2>6, <1>a, ConsumedRest
<1>7. CASE UpdateTask(w) \/ UpdateTaskFailed(w) \/ GraphUpdateTask(w) \/ MarkResumed(w)
  <2>1. (Goto(w, "payload_read") \/ Goto(w, "mark_resumed")) /\ UNCHANGED approvals
        /\ job[w].at \in EndPoints
    BY <1>7 DEF UpdateTask, UpdateTaskFailed, GraphUpdateTask, MarkResumed, At,
       EndPoints
  <2> QED
    BY <2>1, <1>c DEF EndPoints
<1>8. CASE Claim(w)
  <2>1. (Goto(w, "graph_call") \/ Done(w)) /\ UNCHANGED approvals
    BY <1>8 DEF Claim
  <2> QED
    BY <2>1, <1>a, <1>b, GotoJob, DoneJob DEF Points, EndPoints
<1>9. CASE DecisionRequests(w) /\ UNCHANGED history
  <2>1. job'[w].at \in {"decide", "resume"} /\ UNCHANGED approvals
    BY <1>9, <1>a, Requested DEF TypeOK, stores
  <2> QED
    BY <2>1, <1>b DEF EndPoints
<1>10. CASE DecisionFaults(w) /\ UNCHANGED history
  <2>1. (Goto(w, "cancel_checkpoint") \/ Done(w)) /\ UNCHANGED approvals
    BY <1>10 DEF DecisionFaults, CancelTaskFault, Abort, stores
  <2> QED
    BY <2>1, <1>a, <1>b, GotoJob, DoneJob DEF Points, EndPoints
<1>11. CASE CreateFault(w)
  <2>1. job'[w].at = "save" /\ UNCHANGED approvals
    BY <1>11, <1>a DEF CreateFault, PutJob, Requests, stores
  <2> QED
    BY <2>1, <1>b DEF EndPoints
<1>12. CASE UpdateTaskFault(w)
  <2>1. job'[w].at = "task_failed" /\ job'[w].consumed = FALSE /\ UNCHANGED approvals
    BY <1>12, <1>a DEF UpdateTaskFault, PutJob, Requests, stores
  <2>2. ConsumingOK(w)'
    BY <2>1 DEF ConsumingOK
  <2> QED
    BY <2>1, <2>2, <1>a, ConsumedRest
<1>13. ASSUME NEW t \in Tasks, CreateTask(w, t) PROVE ConsumedInv'
  <2>1. job'[w].at \in {"new_approval", "new_checkpoint"} /\ UNCHANGED approvals
    BY <1>13, <1>a DEF CreateTask, PutJob, NoRequest, stores
  <2> QED
    BY <2>1, <1>b DEF EndPoints
<1> QED
  BY <1>1, <1>2, <1>3, <1>4, <1>5, <1>6, <1>7, <1>8, <1>9, <1>10, <1>11, <1>12,
     <1>13
     DEF Step, Serve, CreateSteps, ResumeSteps

\* An approval is marked consumed only after its tool ran, in keyword mode only
\* after it succeeded, on either backend and whatever cuts requests short.
THEOREM ConsumedAfterRun == Spec => []ConsumedMeansRun
<1>1. Init => ConsumedInv
  BY DEF Init, DecisionsInit, ConsumedInv, ConsumingOK, ConsumedMeansRun,
     EndPoints, NoRequest, NoRow
<1>2. WellFormed /\ ConsumedInv /\ [Next]_vars => ConsumedInv'
  <2>1. ConsumedInv /\ UNCHANGED vars => ConsumedInv'
    BY DEF vars, stores, ConsumedInv, ConsumingOK, ConsumedMeansRun, Ran, IsGraph
  <2> QED
    BY <2>1, ConsumedStep DEF Next
<1>3. ConsumedInv => ConsumedMeansRun
  BY DEF ConsumedInv
<1> QED
  BY <1>1, <1>2, <1>3, WellFormedAlways, PTL DEF Spec

-----------------------------------------------------------------------------
(* Refinement: with the graph runtime on SQLite the flow is a human gate.  *)

AllGraphTasks == \A t \in Tasks : Mode[t] = "graph_keyword"

\* Every approval that exists is a graph approval, and none has ever made a
\* call in keyword mode.
LEMMA GraphEffects ==
  ASSUME AllGraphTasks, WellFormed
  PROVE  \A a \in ApprovalIds :
           (IF IsGraph(a) THEN calls[a] ELSE wins[a]) = calls[a]
BY DEF WellFormed, RowOK, IsGraph, AllGraphTasks

\* Initially the gate has not been asked.
LEMMA GateInit == Init => Gate!Init
BY DEF Init, DecisionsInit, Gate!Init, IsGraph, NoRow

\* A step of the flow is a step of the gate or leaves it alone.
LEMMA GateStep ==
  ASSUME ~Postgres, AllGraphTasks, WellFormed, ApprovedInv, ClaimInv,
         NEW w \in Workers, Step(w)
  PROVE  [Gate!Next]_(Gate!gate)
<1> DEFINE status == [a \in ApprovalIds |-> approvals[a].status]
           effects == [a \in ApprovalIds |-> IF IsGraph(a) THEN calls[a] ELSE wins[a]]
<1>a. approvals \in [ApprovalIds -> Rows] /\ job \in [Workers -> Requests]
      /\ calls \in [ApprovalIds -> 0..Many]
      /\ RequestOK(w) /\ ClaimedOK(w) /\ HeldByApproval(w) /\ Moved(w)
  BY WellFormedStep DEF WellFormed, TypeOK, ClaimInv, ApprovedInv
<1>b. effects = [a \in ApprovalIds |-> calls[a]]
      /\ effects' = [a \in ApprovalIds |-> calls'[a]]
  <2>1. AllGraphTasks' /\ WellFormed'
    BY <1>a DEF AllGraphTasks, Moved
  <2>2. \A a \in ApprovalIds :
          (IF IsGraph(a)' THEN calls'[a] ELSE wins'[a]) = calls'[a]
    BY <2>1 DEF WellFormed, RowOK, IsGraph, AllGraphTasks
  <2> QED
    BY <2>2, GraphEffects DEF IsGraph
\* A step that changes neither a status nor a call stutters.
<1>c. ASSUME \A a \in ApprovalIds : approvals'[a].status = approvals[a].status,
             UNCHANGED calls
      PROVE  [Gate!Next]_(Gate!gate)
  <2>1. status' = status /\ effects' = effects
    BY <1>b, <1>c
  <2> QED
    BY <2>1 DEF Gate!gate
<1>1. CASE UNCHANGED <<approvals, calls>>
  BY <1>1, <1>c
<1>2. CASE DecideWrite(w) /\ UNCHANGED history
  <2>0. PICK b \in ApprovalIds, d \in Decisions : b = job[w].appr /\ d = job[w].verb
    BY <1>2, <1>a DEF DecideWrite, At, RequestOK, Bound, Points, Requests
  <2> DEFINE row == [approvals[b] EXCEPT !.status = d]
  <2>1. UNCHANGED calls /\ (\/ approvals[b].status = "pending" /\ PutRow(b, row)
                            \/ UNCHANGED approvals)
    BY <1>2, <2>0 DEF DecideWrite, history
  <2>3. CASE approvals[b].status = "pending" /\ PutRow(b, row)
    <3>1. row.status = d
      BY <1>a DEF Rows
    <3>2. approvals' = [approvals EXCEPT ![b] = row]
      BY <2>3 DEF PutRow
    <3> HIDE DEF row
    <3>3. status' = [status EXCEPT ![b] = d]
      BY <3>1, <3>2, <2>0, <1>a
    <3>4. effects' = effects
      BY <2>1, <1>b
    <3>5. Gate!Decide(b, d)
      BY <3>3, <3>4, <2>0, <2>3 DEF Gate!Decide
    <3> QED
      BY <3>5 DEF Gate!Next, Decisions
  <2> QED
    BY <2>1, <2>3, <1>1
<1>3. CASE PayloadWrite(w) /\ UNCHANGED history
  <2> DEFINE row == [approvals[job[w].appr] EXCEPT
                       !.resumed = job[w].consumed \/ job[w].seen]
  <2>1. job[w].appr \in ApprovalIds
    BY <1>3, <1>a DEF PayloadWrite, At, RequestOK, Bound, Points
  <2>2. row.status = approvals[job[w].appr].status
    BY <2>1, <1>a DEF Rows
  <2>3. PutRow(job[w].appr, row) /\ UNCHANGED calls
    BY <1>3 DEF PayloadWrite, history
  <2> HIDE DEF row
  <2>4. \A a \in ApprovalIds : approvals'[a].status = approvals[a].status
    BY <2>1, <2>2, <2>3, <1>a DEF PutRow
  <2> QED
    BY <2>3, <2>4, <1>c
<1>4. CASE NewApproval(w)
  <2>1. PICK b \in ApprovalIds : CreateApproval(b, job[w].task, Mode[job[w].task], 1)
    BY <1>4 DEF NewApproval
  <2>2. approvals[b].status = "absent" /\ approvals'[b].status = "pending"
        /\ \A a \in ApprovalIds \ {b} : approvals'[a] = approvals[a]
    BY <2>1, <1>a DEF CreateApproval, PutRow
  <2>3. status' = [status EXCEPT ![b] = "pending"]
    BY <2>2
  <2>4. effects' = effects
    BY <1>4, <1>b DEF NewApproval, history
  <2>5. Gate!Ask(b)
    BY <2>2, <2>3, <2>4 DEF Gate!Ask
  <2> QED
    BY <2>5 DEF Gate!Next
<1>5. CASE CallTool(w)
  BY <1>5, <1>a DEF CallTool, At, RequestOK, KeywordPoints, AllGraphTasks
<1>6. CASE GraphCallTool(w)
  <2>0. PICK b \in ApprovalIds : b = job[w].appr
    BY <1>6, <1>a DEF GraphCallTool, At, RequestOK, Bound, Points
  <2>1. /\ job[w].at = "graph_call" /\ UNCHANGED approvals
        /\ calls' = [calls EXCEPT ![b] = Count(@)]
    BY <1>6, <2>0 DEF GraphCallTool, CallGateway, At, stores
  <2>2. calls[b] = 0 /\ approvals[b].status = "approved"
    BY <2>0, <2>1, <1>a DEF RequestOK, Bound, Points, ClaimedOK, ClaimedPoints,
       HeldByApproval, ApprovedPoints
  <2>3. calls' = [calls EXCEPT ![b] = 1]
    BY <2>1, <2>2, <1>a DEF Count, Many
  <2>4. status' = status
    BY <2>1
  <2>5. effects[b] = 0 /\ effects' = [effects EXCEPT ![b] = 1]
    BY <1>b, <2>2, <2>3, <1>a
  <2>6. status[b] = "approved"
    BY <2>2
  <2>7. Gate!Effect(b)
    BY <2>4, <2>5, <2>6 DEF Gate!Effect
  <2> QED
    BY <2>7 DEF Gate!Next
<1>7. DecisionSteps(w) /\ UNCHANGED history =>
        \/ (DecideWrite(w) \/ PayloadWrite(w)) /\ UNCHANGED history
        \/ UNCHANGED <<approvals, calls>>
  BY DEF DecisionSteps, DecideRead, DecideSelect, AuditDecision, CancelTask,
     CancelCheckpoint, PayloadRead, stores, history
<1>8. CreateSteps(w) \/ ResumeSteps(w) =>
        \/ NewApproval(w) \/ CallTool(w) \/ GraphCallTool(w)
        \/ UNCHANGED <<approvals, calls>>
  BY DEF CreateSteps, NewCheckpoint, MarkPendingInterrupt, Save, ResumeSteps,
     Resume, ResumeEntry, UpdateTask, UpdateTaskFailed, Claim,
     GraphUpdateTask, MarkResumed, stores, history
<1>9. \/ DecisionRequests(w) /\ UNCHANGED history
      \/ DecisionFaults(w) /\ UNCHANGED history
      \/ CreateFault(w) \/ UpdateTaskFault(w) \/ (\E t \in Tasks : CreateTask(w, t))
      => UNCHANGED <<approvals, calls>>
  BY DEF DecisionRequests, Approve, Reject, ManualResume, Request,
     DecisionFaults, CancelTaskFault, Abort, CreateFault, UpdateTaskFault,
     CreateTask, stores, history
<1> QED
  BY <1>1, <1>2, <1>3, <1>4, <1>5, <1>6, <1>7, <1>8, <1>9 DEF Step, Serve

\* With the graph runtime on for every task and SQLite behind it, the flow
\* implements the gate: a person decides once and for all, and the approved
\* call is made at most once, after the approval.
THEOREM GraphImplementsGate ==
  ASSUME ~Postgres, AllGraphTasks PROVE Spec => GateSpec
<1>1. WellFormed /\ ApprovedInv /\ ClaimInv /\ [Next]_vars => [Gate!Next]_(Gate!gate)
  <2>1. UNCHANGED vars => UNCHANGED Gate!gate
    BY DEF vars, stores, Gate!gate, IsGraph
  <2> QED
    BY <2>1, GateStep DEF Next
<1> QED
  BY <1>1, GateInit, WellFormedAlways, ApprovedAlways, ClaimInvAlways, PTL
     DEF Spec, GateSpec, Gate!Spec

-----------------------------------------------------------------------------
(* As it is shipped: one process, whose requests run to their end.         *)

Asked(a) == approvals[a].status # "absent"
PointOf(a) == checkpoints[approvals[a].task].status
TaskOf(a) == tasks[approvals[a].task]

\* Task and checkpoint agree with the approval.
Agree(a) ==
  LET row == approvals[a] IN
  /\ row.status = "pending" => TaskOf(a) = "waiting_approval" /\ wins[a] = 0
  /\ row.status = "rejected" => TaskOf(a) = "cancelled"
  /\ row.resumed => TaskOf(a) \in {"completed", "failed"}
  /\ row.status = "approved" /\ ~row.resumed =>
       TaskOf(a) \in {"waiting_approval", "failed"} /\ wins[a] = 0
  /\ IsGraph(a) =>
       /\ row.resumed => PointOf(a) = "resumed"
       /\ ~row.resumed /\ row.status = "rejected" => PointOf(a) = "cancelled"
       /\ ~row.resumed /\ row.status # "rejected" => PointOf(a) = "interrupted"

\* The approval has the decision s, and its tool has not run with success.
Decided(a, s) ==
  approvals[a].status = s /\ ~approvals[a].resumed /\ wins[a] = 0
Resuming(a) == approvals[a].status = "approved" /\ ~approvals[a].resumed
Interrupted(a) == IsGraph(a) => PointOf(a) = "interrupted"
Ended(a) == TaskOf(a) \in {"completed", "failed"}

\* What the stores say of the approval a request is about, at each point.
DecidingOK(w, a) ==
  LET at == job[w].at IN
  /\ at \in {"decide", "resume"} => Agree(a)
  /\ at \in {"decide_select", "decide_write"} =>
       approvals[a].status = "pending" /\ Agree(a)
  /\ at = "audit" =>
       /\ Decided(a, job[w].verb) /\ TaskOf(a) = "waiting_approval"
       /\ Interrupted(a)
  /\ at = "cancel_task" =>
       /\ Decided(a, "rejected") /\ TaskOf(a) = "waiting_approval"
       /\ Interrupted(a)
  /\ at = "cancel_checkpoint" =>
       Decided(a, "rejected") /\ TaskOf(a) = "cancelled"

CallingOK(w, a) ==
  LET at == job[w].at IN
  /\ at \in {"call", "claim"} => Resuming(a) /\ Agree(a)
  /\ at = "graph_call" => Decided(a, "approved") /\ TaskOf(a) # "absent"
  /\ at = "task" =>
       /\ Resuming(a) /\ TaskOf(a) # "absent"
       /\ job[w].verdict \in {"completed", "failed"}
       /\ ~job[w].consumed => job[w].verdict = "failed" /\ wins[a] = 0
  /\ at = "graph_task" =>
       /\ Resuming(a) /\ TaskOf(a) # "absent" /\ job[w].consumed
       /\ job[w].verdict \in {"completed", "failed"}
  /\ at = "mark_resumed" => Resuming(a) /\ Ended(a) /\ job[w].consumed
  /\ at \in {"payload_read", "payload_write"} =>
       /\ Resuming(a) /\ Ended(a)
       /\ IsGraph(a) => PointOf(a) = "resumed" /\ job[w].consumed
       /\ ~job[w].consumed => TaskOf(a) = "failed" /\ wins[a] = 0
  /\ at = "payload_write" => ~job[w].seen
  /\ at # "task_failed"

AskingOK(w, a) ==
  job[w].at \in {"mark_pending", "save"} =>
    /\ approvals[a].status = "pending" /\ ~approvals[a].resumed /\ wins[a] = 0
    /\ approvals[a].task = job[w].task
    /\ job[w].at = "save" => Interrupted(a)

NewTaskOK(w) ==
  /\ job[w].at \in {"new_checkpoint", "new_approval"} =>
       \A a \in ApprovalIds : Asked(a) => approvals[a].task # job[w].task
  /\ job[w].at = "new_approval" /\ Mode[job[w].task] = "graph_keyword" =>
       checkpoints[job[w].task].status = "interrupted"
  /\ job[w].at \in CreatingPoints \cup {"save"} =>
       job[w].verdict = "waiting_approval" /\ job[w].task \in created
  /\ job[w].at = "save" => job[w].appr \in ApprovalIds

PhaseOK(w) ==
  /\ \A a \in ApprovalIds : job[w].appr = a =>
       DecidingOK(w, a) /\ CallingOK(w, a) /\ AskingOK(w, a)
  /\ NewTaskOK(w)

\* A task has one approval, which it gets after it has been created.
OneApproval ==
  /\ \A a, b \in ApprovalIds :
       Asked(a) /\ Asked(b) /\ approvals[a].task = approvals[b].task => a = b
  /\ \A a \in ApprovalIds : Asked(a) => approvals[a].task \in created

OthersAgree(w) ==
  \A a \in ApprovalIds :
    Asked(a) /\ (At(w, "idle") \/ approvals[a].task # job[w].task) => Agree(a)

OneAtATime(w) ==
  /\ AuditTellsDecision /\ EffectOnce
  /\ OneApproval
  /\ OthersAgree(w)
  /\ PhaseOK(w)

\* Where a request is about an approval that it did not just create.
Settled == Bound \ {"mark_pending"}

\* A step of w concerns approval a and task t only, and is about them still.
Touches(w, a, t) ==
  /\ \A b \in ApprovalIds \ {a} : /\ approvals'[b] = approvals[b]
                                  /\ wins'[b] = wins[b]
                                  /\ audited'[b] = audited[b]
  /\ \A u \in Tasks \ {t} : tasks'[u] = tasks[u] /\ checkpoints'[u] = checkpoints[u]
  /\ approvals'[a].task = approvals[a].task
  /\ approvals'[a].status # "absent"
  /\ created' = created
  /\ job'[w].at # "idle" => job'[w].appr = a /\ job'[w].task = t

-----------------------------------------------------------------------------
(* What a step leaves alone.                                               *)

\* Initially there are no approvals to disagree with.
LEMMA OneAtATimeInit == ASSUME NEW w \in Workers, Init PROVE OneAtATime(w)
BY DecisionsAssumption
   DEF Init, DecisionsInit, OneAtATime, AuditTellsDecision, EffectOnce,
   OneApproval, OthersAgree, PhaseOK, NewTaskOK, Asked, At, NoRow, NoRequest,
   CreatingPoints

\* An approval whose row, calls, task and checkpoint are what they were agrees
\* with them as before.
LEMMA AgreeKept ==
  ASSUME NEW a \in ApprovalIds, Agree(a), approvals'[a] = approvals[a],
         wins'[a] = wins[a], NEW t \in Tasks, approvals[a].task = t,
         tasks'[t] = tasks[t], checkpoints'[t] = checkpoints[t]
  PROVE  Agree(a)'
BY DEF Agree, TaskOf, PointOf, IsGraph

\* What is left to show of a step of a request about an approval.
LEMMA SubjectRest ==
  ASSUME WellFormed, NEW w \in Workers, OneAtATime(w),
         NEW a \in ApprovalIds, NEW t \in Tasks, Asked(a),
         approvals[a].task = t, job[w].task = t, job[w].at # "idle",
         Touches(w, a, t),
         audited'[a] \subseteq {approvals'[a].status}, wins'[a] <= 1,
         \/ job'[w] = NoRequest /\ Agree(a)'
         \/ /\ job'[w].at \in Settled
            /\ DecidingOK(w, a)' /\ CallingOK(w, a)'
  PROVE  OneAtATime(w)'
<1>1. AuditTellsDecision' /\ EffectOnce'
  BY DEF OneAtATime, AuditTellsDecision, EffectOnce, Touches
<1>2. OneApproval'
  BY DEF OneAtATime, OneApproval, Touches, Asked
<1>3. ASSUME NEW b \in ApprovalIds, Asked(b)', approvals'[b].task # t
      PROVE  Agree(b)'
  <2>1. b # a
    BY <1>3 DEF Touches
  <2>2. Asked(b) /\ approvals'[b] = approvals[b] /\ wins'[b] = wins[b]
    BY <1>3, <2>1 DEF Touches, Asked
  <2>3. Agree(b) /\ approvals[b].task \in Tasks
    BY <1>3, <2>2 DEF OneAtATime, OthersAgree, WellFormed, RowOK, Asked
  <2> QED
    BY <1>3, <2>2, <2>3, AgreeKept DEF Touches
<1>4. \A b \in ApprovalIds : Asked(b)' /\ approvals'[b].task = t => b = a
  BY <1>2 DEF OneApproval, Touches, Asked
<1>5. CASE job'[w] = NoRequest /\ Agree(a)'
  <2>1. job'[w].at = "idle" /\ \A b \in ApprovalIds : job'[w].appr # b
    BY <1>5, DecisionsAssumption DEF NoRequest
  <2>2. OthersAgree(w)'
    BY <1>3, <1>4, <1>5 DEF OthersAgree
  <2>3. PhaseOK(w)'
    BY <2>1 DEF PhaseOK, NewTaskOK, CreatingPoints
  <2> QED
    BY <1>1, <1>2, <2>2, <2>3 DEF OneAtATime
<1>6. CASE /\ job'[w].at \in Settled
           /\ DecidingOK(w, a)' /\ CallingOK(w, a)'
  <2>1. job'[w].at \notin {"idle", "new_checkpoint", "new_approval",
                           "mark_pending", "save"}
    BY <1>6 DEF Settled, Bound
  <2>2. job'[w].appr = a /\ job'[w].task = t
    BY <2>1 DEF Touches
  <2>3. OthersAgree(w)'
    BY <1>3, <2>1, <2>2 DEF OthersAgree, At
  <2>4. AskingOK(w, a)' /\ NewTaskOK(w)'
    BY <2>1 DEF AskingOK, NewTaskOK, CreatingPoints
  <2>5. PhaseOK(w)'
    BY <1>6, <2>2, <2>4 DEF PhaseOK
  <2> QED
    BY <1>1, <1>2, <2>3, <2>5 DEF OneAtATime
<1> QED
  BY <1>5, <1>6

\* The same for a step that writes no store: the request moves to another point
\* or ends.
LEMMA SubjectMoves ==
  ASSUME WellFormed, NEW w \in Workers, OneAtATime(w),
         NEW a \in ApprovalIds, NEW t \in Tasks, Asked(a),
         approvals[a].task = t, job[w].task = t, job[w].appr = a,
         job[w].at # "idle",
         UNCHANGED <<stores, history>>,
         \/ Done(w) /\ Agree(a)
         \/ \E p \in Settled : /\ Goto(w, p)
                               /\ DecidingOK(w, a)' /\ CallingOK(w, a)'
  PROVE  OneAtATime(w)'
<1>a. job \in [Workers -> Requests]
  BY DEF WellFormed, TypeOK
<1>1. audited'[a] \subseteq {approvals'[a].status} /\ wins'[a] <= 1
  BY DEF OneAtATime, AuditTellsDecision, EffectOnce, stores, history
<1>2. CASE Done(w) /\ Agree(a)
  <2>1. job'[w] = NoRequest /\ job'[w].at = "idle"
    BY <1>a, <1>2, DoneJob
  <2>2. Touches(w, a, t)
    BY <2>1 DEF Touches, stores, history, Asked
  <2>3. Agree(a)'
    BY <1>2, AgreeKept DEF stores, history
  <2> QED
    BY <1>1, <2>1, <2>2, <2>3, SubjectRest
<1>3. ASSUME NEW p \in Settled, Goto(w, p), DecidingOK(w, a)', CallingOK(w, a)'
      PROVE  OneAtATime(w)'
  <2>1. job'[w].at = p /\ job'[w].appr = a /\ job'[w].task = t
    BY <1>a, <1>3, GotoJob DEF Settled, Bound
  <2>2. Touches(w, a, t)
    BY <2>1 DEF Touches, stores, history, Asked
  <2> QED
    BY <1>1, <1>3, <2>1, <2>2, SubjectRest
<1> QED
  BY <1>2, <1>3

-----------------------------------------------------------------------------
(* The steps of a request that decides an approval.                        *)

\* What is known of a request about an approval.
LEMMA SubjectKnown ==
  ASSUME WellFormed, NEW w \in Workers, OneAtATime(w), job[w].at \in Settled
  PROVE  \E a \in ApprovalIds, t \in Tasks :
           /\ job[w].appr = a /\ job[w].task = t /\ approvals[a].task = t
           /\ Asked(a) /\ DecidingOK(w, a) /\ CallingOK(w, a)
           /\ approvals[a] \in Rows /\ job[w] \in Requests
           /\ approvals[a].mode = Mode[t]
           /\ audited[a] \subseteq {approvals[a].status} /\ wins[a] \in {0, 1}
<1>1. /\ job[w].appr \in ApprovalIds /\ job[w].task \in Tasks
      /\ Asked(job[w].appr) /\ approvals[job[w].appr].task = job[w].task
  BY DEF WellFormed, RequestOK, Settled, Bound, Asked
<1> DEFINE a == job[w].appr
           t == job[w].task
<1>2. approvals[a] \in Rows /\ job[w] \in Requests /\ wins[a] \in 0..Many
  BY <1>1 DEF WellFormed, TypeOK
<1>3. approvals[a].mode = Mode[t]
  BY <1>1 DEF WellFormed, RowOK, Asked
<1>4. DecidingOK(w, a) /\ CallingOK(w, a)
  BY <1>1 DEF OneAtATime, PhaseOK
<1>5. audited[a] \subseteq {approvals[a].status} /\ wins[a] <= 1
  BY <1>1 DEF OneAtATime, AuditTellsDecision, EffectOnce
<1>6. wins[a] \in {0, 1}
  BY <1>2, <1>5 DEF Many
<1> QED
  BY <1>1, <1>2, <1>3, <1>4, <1>5, <1>6

\* Goto keeps the rest of the request.
LEMMA GotoFields ==
  ASSUME job \in [Workers -> Requests], NEW w \in Workers, NEW p, Goto(w, p)
  PROVE  /\ job'[w].at = p /\ job'[w].appr = job[w].appr
         /\ job'[w].task = job[w].task /\ job'[w].verb = job[w].verb
         /\ job'[w].verdict = job[w].verdict
         /\ job'[w].consumed = job[w].consumed /\ job'[w].seen = job[w].seen
<1>1. job'[w] = [job[w] EXCEPT !.at = p]
  BY DEF Goto, PutJob
<1>2. job[w] \in Requests
  OBVIOUS
<1> QED
  BY <1>1, <1>2 DEF Requests

\* Reading the row of decide_approval.
LEMMA ReadsStep ==
  ASSUME WellFormed, NEW w \in Workers, OneAtATime(w), UNCHANGED history,
         DecideRead(w) \/ DecideSelect(w)
  PROVE  OneAtATime(w)'
<1>1. job[w].at \in {"decide", "decide_select"} /\ UNCHANGED <<stores, history>>
  BY DEF DecideRead, DecideSelect, At
<1>2. job[w].at \in Settled
  BY <1>1 DEF Settled, Bound, Points
<1>3. PICK a \in ApprovalIds, t \in Tasks :
        /\ job[w].appr = a /\ job[w].task = t /\ approvals[a].task = t
        /\ Asked(a) /\ DecidingOK(w, a) /\ CallingOK(w, a)
  BY <1>2, SubjectKnown
<1>4. Agree(a) /\ Agree(a)'
  <2>1. Agree(a)
    BY <1>1, <1>3 DEF DecidingOK
  <2> QED
    BY <1>1, <1>3, <2>1, AgreeKept DEF stores, history
<1>5. CASE Done(w)
  BY <1>1, <1>3, <1>4, <1>5, SubjectMoves
<1>6. ASSUME NEW p \in {"decide_select", "decide_write"}, Goto(w, p),
             approvals[a].status = "pending"
      PROVE  OneAtATime(w)'
  <2>1. job'[w].at = p
    BY <1>6, GotoFields DEF WellFormed, TypeOK
  <2>2. DecidingOK(w, a)' /\ CallingOK(w, a)'
    BY <1>1, <1>4, <1>6, <2>1 DEF DecidingOK, CallingOK, stores
  <2>3. p \in Settled
    BY DEF Settled, Bound, Points
  <2> QED
    BY <1>1, <1>3, <1>6, <2>2, <2>3, SubjectMoves
<1> QED
  BY <1>3, <1>5, <1>6 DEF DecideRead, DecideSelect

\* The decision is written.
LEMMA DecideWriteStep ==
  ASSUME WellFormed, NEW w \in Workers, OneAtATime(w), UNCHANGED history,
         DecideWrite(w)
  PROVE  OneAtATime(w)'
<1>1. job[w].at = "decide_write" /\ job[w].at \in Settled
  BY DEF DecideWrite, At, Settled, Bound, Points
<1>2. PICK a \in ApprovalIds, t \in Tasks :
        /\ job[w].appr = a /\ job[w].task = t /\ approvals[a].task = t
        /\ Asked(a) /\ DecidingOK(w, a) /\ approvals[a] \in Rows
        /\ job[w] \in Requests
        /\ audited[a] \subseteq {approvals[a].status} /\ wins[a] \in {0, 1}
  BY <1>1, SubjectKnown
<1>3. approvals[a].status = "pending" /\ Agree(a)
  BY <1>1, <1>2 DEF DecidingOK
<1>4. ~approvals[a].resumed /\ wins[a] = 0 /\ TaskOf(a) = "waiting_approval"
      /\ (IsGraph(a) => PointOf(a) = "interrupted")
  BY <1>2, <1>3 DEF Agree, Rows
<1> DEFINE row == [approvals[a] EXCEPT !.status = job[w].verb]
<1>5. PutRow(a, row) /\ Goto(w, "audit")
      /\ UNCHANGED <<tasks, checkpoints, audited, faults, history>>
  BY <1>2, <1>3 DEF DecideWrite
<1>6. /\ row \in Rows /\ row.status = job[w].verb /\ row.task = t
      /\ row.mode = approvals[a].mode /\ row.resumed = approvals[a].resumed
      /\ row.status \in Decisions
  BY <1>2 DEF Rows, Requests, RowStatus, Decisions
<1> HIDE DEF row
<1>7. approvals'[a] = row /\ \A b \in ApprovalIds \ {a} : approvals'[b] = approvals[b]
  BY <1>5, <1>6, RowPut DEF WellFormed, TypeOK
<1>8. /\ job'[w].at = "audit" /\ job'[w].appr = a /\ job'[w].task = t
      /\ job'[w].verb = job[w].verb
  BY <1>2, <1>5, GotoFields DEF WellFormed, TypeOK
<1>9. Touches(w, a, t)
  BY <1>2, <1>5, <1>6, <1>7, <1>8 DEF Touches, history, Decisions
<1>10. audited'[a] = {} /\ wins'[a] <= 1
  <2>1. audited[a] \subseteq Decisions
    BY DEF WellFormed, TypeOK
  <2> QED
    BY <1>2, <1>3, <1>4, <1>5, <2>1 DEF history, Decisions
<1>11. DecidingOK(w, a)'
  BY <1>2, <1>4, <1>5, <1>6, <1>7, <1>8
     DEF DecidingOK, Decided, TaskOf, Interrupted, PointOf, IsGraph, history
<1>12. CallingOK(w, a)' /\ job'[w].at \in Settled
  BY <1>8 DEF CallingOK, Settled, Bound, Points
<1> QED
  BY <1>1, <1>2, <1>9, <1>10, <1>11, <1>12, SubjectRest

\* The decision is put down in the audit log.
LEMMA AuditStep ==
  ASSUME WellFormed, NEW w \in Workers, OneAtATime(w), UNCHANGED history,
         AuditDecision(w)
  PROVE  OneAtATime(w)'
<1>1. job[w].at = "audit" /\ job[w].at \in Settled
  BY DEF AuditDecision, At, Settled, Bound, Points
<1>2. PICK a \in ApprovalIds, t \in Tasks :
        /\ job[w].appr = a /\ job[w].task = t /\ approvals[a].task = t
        /\ Asked(a) /\ DecidingOK(w, a)
        /\ audited[a] \subseteq {approvals[a].status} /\ wins[a] \in {0, 1}
  BY <1>1, SubjectKnown
<1>3. Decided(a, job[w].verb) /\ TaskOf(a) = "waiting_approval" /\ Interrupted(a)
  BY <1>1, <1>2 DEF DecidingOK
<1>4. UNCHANGED <<approvals, tasks, checkpoints, history>>
  BY DEF AuditDecision
<1>5. /\ audited'[a] \subseteq {approvals'[a].status}
      /\ \A b \in ApprovalIds \ {a} : audited'[b] = audited[b]
  BY <1>2, <1>3, <1>4 DEF AuditDecision, Decided, WellFormed, TypeOK
<1>6. job[w].verb = "approved" => Agree(a)'
  BY <1>3, <1>4 DEF Decided, Agree, TaskOf, Interrupted, PointOf, IsGraph, history
<1>7. CASE job[w].verb = "approved" /\ Done(w)
  <2>1. job'[w] = NoRequest /\ job'[w].at = "idle"
    BY <1>7, DoneJob DEF WellFormed, TypeOK
  <2>2. Touches(w, a, t)
    BY <1>2, <1>4, <1>5, <2>1 DEF Touches, Asked, history
  <2> QED
    BY <1>1, <1>2, <1>4, <1>5, <1>6, <1>7, <2>1, <2>2, SubjectRest DEF history
<1>8. ASSUME NEW p \in {"cancel_task", "resume"}, Goto(w, p),
             p = "resume" => job[w].verb = "approved",
             p = "cancel_task" => job[w].verb = "rejected"
      PROVE  OneAtATime(w)'
  <2>1. job'[w].at = p /\ job'[w].appr = a /\ job'[w].task = t
    BY <1>2, <1>8, GotoFields DEF WellFormed, TypeOK
  <2>2. Touches(w, a, t)
    BY <1>2, <1>4, <1>5, <2>1 DEF Touches, Asked, history
  <2>3. DecidingOK(w, a)'
    BY <1>3, <1>4, <1>6, <1>8, <2>1
       DEF DecidingOK, Decided, TaskOf, Interrupted, PointOf, IsGraph, history
  <2>4. CallingOK(w, a)' /\ job'[w].at \in Settled
    BY <2>1 DEF CallingOK, Settled, Bound, Points
  <2> QED
    BY <1>1, <1>2, <1>4, <1>5, <2>2, <2>3, <2>4, SubjectRest DEF history
<1> QED
  BY <1>7, <1>8 DEF AuditDecision

\* The task of a rejected approval is cancelled.
LEMMA CancelTaskStep ==
  ASSUME WellFormed, NEW w \in Workers, OneAtATime(w), UNCHANGED history,
         CancelTask(w)
  PROVE  OneAtATime(w)'
<1>1. job[w].at = "cancel_task" /\ job[w].at \in Settled
  BY DEF CancelTask, At, Settled, Bound, Points
<1>2. PICK a \in ApprovalIds, t \in Tasks :
        /\ job[w].appr = a /\ job[w].task = t /\ approvals[a].task = t
        /\ Asked(a) /\ DecidingOK(w, a)
        /\ audited[a] \subseteq {approvals[a].status} /\ wins[a] \in {0, 1}
  BY <1>1, SubjectKnown
<1>3. Decided(a, "rejected") /\ TaskOf(a) = "waiting_approval"
  BY <1>1, <1>2 DEF DecidingOK
<1>4. UNCHANGED <<approvals, checkpoints, audited, history>>
  BY DEF CancelTask
<1>5. tasks'[t] = "cancelled" /\ \A u \in Tasks \ {t} : tasks'[u] = tasks[u]
  BY <1>2, <1>3 DEF CancelTask, UpdateTaskStatus, TaskOf, WellFormed, TypeOK
<1>6. job'[w].at = "cancel_checkpoint" /\ job'[w].appr = a /\ job'[w].task = t
  BY <1>2, GotoFields DEF CancelTask, WellFormed, TypeOK
<1>7. Touches(w, a, t)
  BY <1>2, <1>4, <1>5, <1>6 DEF Touches, Asked, history
<1>8. DecidingOK(w, a)'
  BY <1>2, <1>3, <1>4, <1>5, <1>6 DEF DecidingOK, Decided, TaskOf, history
<1>9. CallingOK(w, a)' /\ job'[w].at \in Settled
  BY <1>6 DEF CallingOK, Settled, Bound, Points
<1> QED
  BY <1>1, <1>2, <1>4, <1>7, <1>8, <1>9, SubjectRest DEF history

\* The checkpoint of a rejected approval is cancelled, if it has one.
LEMMA CancelCheckpointStep ==
  ASSUME WellFormed, NEW w \in Workers, OneAtATime(w), UNCHANGED history,
         CancelCheckpoint(w)
  PROVE  OneAtATime(w)'
<1>1. job[w].at = "cancel_checkpoint" /\ job[w].at \in Settled
  BY DEF CancelCheckpoint, At, Settled, Bound, Points
<1>2. PICK a \in ApprovalIds, t \in Tasks :
        /\ job[w].appr = a /\ job[w].task = t /\ approvals[a].task = t
        /\ Asked(a) /\ DecidingOK(w, a)
        /\ audited[a] \subseteq {approvals[a].status} /\ wins[a] \in {0, 1}
  BY <1>1, SubjectKnown
<1>3. Decided(a, "rejected") /\ TaskOf(a) = "cancelled"
  BY <1>1, <1>2 DEF DecidingOK
<1>4. UNCHANGED <<approvals, tasks, audited, history>>
  BY DEF CancelCheckpoint
<1>5. /\ IsGraph(a) => checkpoints'[t].status = "cancelled"
      /\ \A u \in Tasks \ {t} : checkpoints'[u] = checkpoints[u]
  <2>1. checkpoints \in [Tasks -> CheckpointRows]
    BY DEF WellFormed, TypeOK
  <2> DEFINE c == [checkpoints[t] EXCEPT !.status = "cancelled",
                                         !.consumed = TRUE]
  <2>2. c \in CheckpointRows /\ c.status = "cancelled"
    BY <1>2, <2>1 DEF CheckpointRows
  <2>3. IF IsGraph(a) THEN PutCheckpoint(t, c) ELSE UNCHANGED checkpoints
    BY <1>2 DEF CancelCheckpoint, IsGraph
  <2> HIDE DEF c
  <2> QED
    BY <1>2, <2>1, <2>2, <2>3, CheckpointPut
<1>6. job'[w] = NoRequest /\ job'[w].at = "idle"
  BY DoneJob DEF CancelCheckpoint, WellFormed, TypeOK
<1>7. Touches(w, a, t)
  BY <1>2, <1>4, <1>5, <1>6 DEF Touches, Asked, history
<1>8. Agree(a)'
  BY <1>2, <1>3, <1>4, <1>5 DEF Decided, Agree, TaskOf, PointOf, IsGraph, history
<1> QED
  BY <1>1, <1>2, <1>4, <1>6, <1>7, <1>8, SubjectRest DEF history

-----------------------------------------------------------------------------
(* The steps of a resume.                                                  *)

\* The entry of a resume, and its claim in graph mode.
LEMMA EntryStep ==
  ASSUME WellFormed, NEW w \in Workers, OneAtATime(w), Resume(w)
  PROVE  OneAtATime(w)'
<1>1. job[w].at = "resume" /\ job[w].at \in Settled
      /\ UNCHANGED <<stores, history>>
  BY DEF Resume, ResumeEntry, At, Settled, Bound, Points
<1>2. PICK a \in ApprovalIds, t \in Tasks :
        /\ job[w].appr = a /\ job[w].task = t /\ approvals[a].task = t
        /\ Asked(a) /\ DecidingOK(w, a) /\ approvals[a].mode = Mode[t]
  BY <1>1, SubjectKnown
<1>3. Agree(a) /\ Agree(a)'
  <2>1. Agree(a)
    BY <1>1, <1>2 DEF DecidingOK
  <2> QED
    BY <1>1, <1>2, <2>1, AgreeKept DEF stores, history
<1>4. CASE Done(w)
  BY <1>1, <1>2, <1>3, <1>4, SubjectMoves
<1>5. ASSUME NEW p \in {"call", "claim"}, Goto(w, p), Resuming(a)
      PROVE  OneAtATime(w)'
  <2>1. job'[w].at = p
    BY <1>5, GotoFields DEF WellFormed, TypeOK
  <2>2. DecidingOK(w, a)' /\ CallingOK(w, a)'
    BY <1>1, <1>3, <1>5, <2>1 DEF DecidingOK, CallingOK, stores, Resuming
  <2>3. p \in Settled
    BY DEF Settled, Bound, Points
  <2> QED
    BY <1>1, <1>2, <1>5, <2>2, <2>3, SubjectMoves
<1>6. Mode[t] \in {"keyword", "graph_keyword"}
  BY <1>2, ModeAssumption
<1>7. Done(w) \/ (Resuming(a) /\ (Goto(w, "call") \/ Goto(w, "claim")))
  <2>1. CASE Mode[t] = "keyword"
    BY <1>2, <2>1 DEF Resume, ResumeEntry, Resuming
  <2>2. CASE Mode[t] = "graph_keyword"
    BY <1>2, <2>2 DEF Resume, ResumeEntry, Resuming
  <2> QED
    BY <1>6, <2>1, <2>2
<1> QED
  BY <1>4, <1>5, <1>7

\* A claim that is turned away ends the request, one that is not leaves the
\* checkpoint resuming.
LEMMA ClaimedStep ==
  ASSUME WellFormed, NEW w \in Workers, OneAtATime(w), Claim(w)
  PROVE  OneAtATime(w)'
<1>1. job[w].at = "claim" /\ job[w].at \in Settled
      /\ UNCHANGED <<approvals, tasks, audited, history>>
  BY DEF Claim, At, Settled, Bound, Points
<1>2. PICK a \in ApprovalIds, t \in Tasks :
        /\ job[w].appr = a /\ job[w].task = t /\ approvals[a].task = t
        /\ Asked(a) /\ CallingOK(w, a)
        /\ audited[a] \subseteq {approvals[a].status} /\ wins[a] \in {0, 1}
  BY <1>1, SubjectKnown
<1>3. Resuming(a) /\ Agree(a)
  BY <1>1, <1>2 DEF CallingOK
<1>4. CASE Done(w) /\ UNCHANGED checkpoints
  BY <1>1, <1>2, <1>3, <1>4, SubjectMoves DEF stores
<1>5. CASE /\ Goto(w, "graph_call")
           /\ PutCheckpoint(t, [checkpoints[t] EXCEPT !.status = "resuming"])
  <2>1. job'[w].at = "graph_call" /\ job'[w].appr = a /\ job'[w].task = t
    BY <1>2, <1>5, GotoFields DEF WellFormed, TypeOK
  <2>2. \A u \in Tasks \ {t} : checkpoints'[u] = checkpoints[u]
    BY <1>5 DEF PutCheckpoint, WellFormed, TypeOK
  <2>3. Touches(w, a, t)
    BY <1>1, <1>2, <2>1, <2>2 DEF Touches, Asked, history
  <2>4. CallingOK(w, a)'
    BY <1>1, <1>3, <2>1 DEF CallingOK, Resuming, Decided, Agree, TaskOf, history
  <2>5. DecidingOK(w, a)' /\ job'[w].at \in Settled
    BY <2>1 DEF DecidingOK, Settled, Bound, Points
  <2> QED
    BY <1>1, <1>2, <2>3, <2>4, <2>5, SubjectRest DEF history
<1> QED
  BY <1>2, <1>4, <1>5 DEF Claim

\* What a tool call does to the histories.
LEMMA CallCounts ==
  ASSUME WellFormed, NEW a \in ApprovalIds, wins[a] = 0, NEW w \in Workers,
         job[w].appr = a, NEW success \in BOOLEAN, CallGateway(w, success)
  PROVE  /\ wins'[a] = IF success THEN 1 ELSE 0
         /\ \A b \in ApprovalIds \ {a} : wins'[b] = wins[b]
<1>1. wins \in [ApprovalIds -> 0..Many] /\ Count(0) = 1
  BY DEF WellFormed, TypeOK, Count, Many
<1> QED
  BY <1>1 DEF CallGateway

\* The call of the tool, in keyword mode and in graph mode: it has not run with
\* success before.
LEMMA CalledStep ==
  ASSUME WellFormed, NEW w \in Workers, OneAtATime(w), CallTool(w) \/ GraphCallTool(w)
  PROVE  OneAtATime(w)'
<1>1. job[w].at \in {"call", "graph_call"} /\ job[w].at \in Settled
      /\ UNCHANGED <<stores, created>>
  BY DEF CallTool, GraphCallTool, At, Settled, Bound, Points
<1>2. PICK a \in ApprovalIds, t \in Tasks :
        /\ job[w].appr = a /\ job[w].task = t /\ approvals[a].task = t
        /\ Asked(a) /\ CallingOK(w, a) /\ job[w] \in Requests
        /\ audited[a] \subseteq {approvals[a].status} /\ wins[a] \in {0, 1}
  BY <1>1, SubjectKnown
<1>3. Resuming(a) /\ wins[a] = 0 /\ TaskOf(a) # "absent"
  BY <1>1, <1>2 DEF CallingOK, Resuming, Decided, Agree
<1>4. PICK success \in BOOLEAN, p \in {"task", "graph_task"}, c \in BOOLEAN :
        /\ CallGateway(w, success)
        /\ PutJob(w, [job[w] EXCEPT !.at = p, !.verdict = Verdict(success),
                                    !.consumed = c])
        /\ p = "graph_task" => c = TRUE
        /\ p = "task" => c = success
  BY DEF CallTool, GraphCallTool
<1>5. /\ wins'[a] = IF success THEN 1 ELSE 0
      /\ \A b \in ApprovalIds \ {a} : wins'[b] = wins[b]
  BY <1>2, <1>3, <1>4, CallCounts
<1>6. /\ job'[w].at = p /\ job'[w].appr = a /\ job'[w].task = t
      /\ job'[w].verdict = Verdict(success) /\ job'[w].consumed = c
  BY <1>2, <1>4 DEF PutJob, Requests, WellFormed, TypeOK
<1>7. Touches(w, a, t)
  BY <1>1, <1>2, <1>5, <1>6 DEF Touches, Asked, stores
<1>8. /\ approvals' = approvals /\ TaskOf(a)' = TaskOf(a)
      /\ audited'[a] \subseteq {approvals'[a].status} /\ wins'[a] <= 1
  BY <1>1, <1>2, <1>5 DEF stores, TaskOf
<1>9. CallingOK(w, a)'
  BY <1>3, <1>4, <1>5, <1>6, <1>8 DEF CallingOK, Resuming, Verdict
<1>10. DecidingOK(w, a)' /\ job'[w].at \in Settled
  BY <1>6 DEF DecidingOK, Settled, Bound, Points
<1> QED
  BY <1>1, <1>2, <1>7, <1>8, <1>9, <1>10, SubjectRest

\* The task is written after the call.
LEMMA TaskWrittenStep ==
  ASSUME WellFormed, NEW w \in Workers, OneAtATime(w),
         UpdateTask(w) \/ GraphUpdateTask(w)
  PROVE  OneAtATime(w)'
<1>1. /\ job[w].at \in {"task", "graph_task"} /\ job[w].at \in Settled
      /\ UNCHANGED <<approvals, checkpoints, audited, history>>
  BY DEF UpdateTask, GraphUpdateTask, At, Settled, Bound, Points
<1>2. PICK a \in ApprovalIds, t \in Tasks :
        /\ job[w].appr = a /\ job[w].task = t /\ approvals[a].task = t
        /\ Asked(a) /\ CallingOK(w, a) /\ approvals[a].mode = Mode[t]
        /\ audited[a] \subseteq {approvals[a].status} /\ wins[a] \in {0, 1}
  BY <1>1, SubjectKnown
<1>3. /\ Resuming(a) /\ TaskOf(a) # "absent"
      /\ job[w].verdict \in {"completed", "failed"}
      /\ job[w].at = "graph_task" => job[w].consumed
      /\ ~job[w].consumed => job[w].verdict = "failed" /\ wins[a] = 0
  BY <1>1, <1>2 DEF CallingOK
<1>4. tasks'[t] = job[w].verdict /\ \A u \in Tasks \ {t} : tasks'[u] = tasks[u]
  BY <1>2, <1>3 DEF UpdateTask, GraphUpdateTask, UpdateTaskStatus, TaskOf,
     WellFormed, TypeOK
<1>5. job[w].at = "task" => ~IsGraph(a)
  BY <1>2 DEF WellFormed, RequestOK, KeywordPoints, IsGraph
<1>6. PICK p \in {"payload_read", "mark_resumed"} :
        /\ Goto(w, p)
        /\ p = "payload_read" => job[w].at = "task"
        /\ p = "mark_resumed" => job[w].at = "graph_task"
  BY DEF UpdateTask, GraphUpdateTask, At
<1>7. /\ job'[w].at = p /\ job'[w].appr = a /\ job'[w].task = t
      /\ job'[w].consumed = job[w].consumed
  BY <1>2, <1>6, GotoFields DEF WellFormed, TypeOK
<1>8. Touches(w, a, t)
  BY <1>1, <1>2, <1>4, <1>7 DEF Touches, Asked, history
<1>9. CallingOK(w, a)'
  BY <1>1, <1>2, <1>3, <1>4, <1>5, <1>6, <1>7
     DEF CallingOK, Resuming, Ended, TaskOf, IsGraph, history
<1>10. DecidingOK(w, a)' /\ job'[w].at \in Settled
  BY <1>7 DEF DecidingOK, Settled, Bound, Points
<1> QED
  BY <1>1, <1>2, <1>8, <1>9, <1>10, SubjectRest DEF history

\* The checkpoint is marked resumed.
LEMMA MarkResumedStep ==
  ASSUME WellFormed, NEW w \in Workers, OneAtATime(w), MarkResumed(w)
  PROVE  OneAtATime(w)'
<1>1. /\ job[w].at = "mark_resumed" /\ job[w].at \in Settled
      /\ UNCHANGED <<approvals, tasks, audited, history>>
  BY DEF MarkResumed, At, Settled, Bound, Points
<1>2. PICK a \in ApprovalIds, t \in Tasks :
        /\ job[w].appr = a /\ job[w].task = t /\ approvals[a].task = t
        /\ Asked(a) /\ CallingOK(w, a)
        /\ audited[a] \subseteq {approvals[a].status} /\ wins[a] \in {0, 1}
  BY <1>1, SubjectKnown
<1>3. Resuming(a) /\ Ended(a) /\ job[w].consumed
  BY <1>1, <1>2 DEF CallingOK
<1>4. /\ checkpoints'[t].status = "resumed"
      /\ \A u \in Tasks \ {t} : checkpoints'[u] = checkpoints[u]
  <2> DEFINE c == [checkpoints[t] EXCEPT !.status = "resumed",
                                         !.consumed = TRUE]
  <2>1. checkpoints \in [Tasks -> CheckpointRows]
    BY DEF WellFormed, TypeOK
  <2>2. c \in CheckpointRows /\ c.status = "resumed"
    BY <1>2, <2>1 DEF CheckpointRows
  <2>3. PutCheckpoint(t, c)
    BY <1>2 DEF MarkResumed
  <2> HIDE DEF c
  <2> QED
    BY <2>1, <2>2, <2>3, CheckpointPut
<1>5. /\ job'[w].at = "payload_read" /\ job'[w].appr = a /\ job'[w].task = t
      /\ job'[w].consumed = job[w].consumed
  BY <1>2, GotoFields DEF MarkResumed, WellFormed, TypeOK
<1>6. Touches(w, a, t)
  BY <1>1, <1>2, <1>4, <1>5 DEF Touches, Asked, history
<1>7. CallingOK(w, a)'
  BY <1>1, <1>2, <1>3, <1>4, <1>5
     DEF CallingOK, Resuming, Ended, TaskOf, PointOf, IsGraph
<1>8. DecidingOK(w, a)' /\ job'[w].at \in Settled
  BY <1>5 DEF DecidingOK, Settled, Bound, Points
<1> QED
  BY <1>1, <1>2, <1>6, <1>7, <1>8, SubjectRest DEF history

\* The payload is read: nobody has consumed the approval meanwhile.
LEMMA PayloadReadStep ==
  ASSUME WellFormed, NEW w \in Workers, OneAtATime(w), UNCHANGED history,
         PayloadRead(w)
  PROVE  OneAtATime(w)'
<1>1. /\ job[w].at = "payload_read" /\ job[w].at \in Settled
      /\ UNCHANGED <<stores, history>>
  BY DEF PayloadRead, At, Settled, Bound, Points
<1>2. PICK a \in ApprovalIds, t \in Tasks :
        /\ job[w].appr = a /\ job[w].task = t /\ approvals[a].task = t
        /\ Asked(a) /\ CallingOK(w, a) /\ job[w] \in Requests
        /\ audited[a] \subseteq {approvals[a].status} /\ wins[a] \in {0, 1}
  BY <1>1, SubjectKnown
<1>3. /\ Resuming(a) /\ Ended(a)
      /\ IsGraph(a) => PointOf(a) = "resumed" /\ job[w].consumed
      /\ ~job[w].consumed => TaskOf(a) = "failed" /\ wins[a] = 0
  BY <1>1, <1>2 DEF CallingOK
<1>4. /\ job'[w].at = "payload_write" /\ job'[w].appr = a /\ job'[w].task = t
      /\ job'[w].consumed = job[w].consumed
      /\ job'[w].seen = approvals[a].resumed
  BY <1>2 DEF PayloadRead, PutJob, Requests, WellFormed, TypeOK
<1>5. Touches(w, a, t)
  BY <1>1, <1>2, <1>4 DEF Touches, Asked, stores, history
<1>6. CallingOK(w, a)'
  BY <1>1, <1>3, <1>4
     DEF CallingOK, Resuming, Ended, TaskOf, PointOf, IsGraph, stores, history
<1>7. DecidingOK(w, a)' /\ job'[w].at \in Settled
  BY <1>4 DEF DecidingOK, Settled, Bound, Points
<1> QED
  BY <1>1, <1>2, <1>5, <1>6, <1>7, SubjectRest DEF stores, history

\* The payload is written, with the approval consumed if the tool succeeded or
\* the task is a graph's.
LEMMA PayloadWriteStep ==
  ASSUME WellFormed, NEW w \in Workers, OneAtATime(w), UNCHANGED history,
         PayloadWrite(w)
  PROVE  OneAtATime(w)'
<1>1. /\ job[w].at = "payload_write" /\ job[w].at \in Settled
      /\ UNCHANGED <<tasks, checkpoints, audited, history>>
  BY DEF PayloadWrite, At, Settled, Bound, Points
<1>2. PICK a \in ApprovalIds, t \in Tasks :
        /\ job[w].appr = a /\ job[w].task = t /\ approvals[a].task = t
        /\ Asked(a) /\ CallingOK(w, a) /\ approvals[a] \in Rows
        /\ job[w] \in Requests
        /\ audited[a] \subseteq {approvals[a].status} /\ wins[a] \in {0, 1}
  BY <1>1, SubjectKnown
<1>3. /\ Resuming(a) /\ Ended(a) /\ ~job[w].seen
      /\ IsGraph(a) => PointOf(a) = "resumed" /\ job[w].consumed
      /\ ~job[w].consumed => TaskOf(a) = "failed" /\ wins[a] = 0
  BY <1>1, <1>2 DEF CallingOK
<1> DEFINE row == [approvals[a] EXCEPT !.resumed = job[w].consumed \/ job[w].seen]
<1>4. PutRow(a, row)
  BY <1>2 DEF PayloadWrite
<1>5. /\ row \in Rows /\ row.status = approvals[a].status /\ row.task = t
      /\ row.mode = approvals[a].mode /\ row.resumed = job[w].consumed
  BY <1>2, <1>3 DEF Rows, Requests
<1> HIDE DEF row
<1>6. approvals'[a] = row /\ \A b \in ApprovalIds \ {a} : approvals'[b] = approvals[b]
  BY <1>4, <1>5, RowPut DEF WellFormed, TypeOK
<1>7. job'[w] = NoRequest /\ job'[w].at = "idle"
  BY DoneJob DEF PayloadWrite, WellFormed, TypeOK
<1>8. Touches(w, a, t)
  BY <1>1, <1>2, <1>5, <1>6, <1>7 DEF Touches, Asked, history
<1>9. Agree(a)'
  BY <1>1, <1>2, <1>3, <1>5, <1>6
     DEF Agree, Resuming, Ended, TaskOf, PointOf, IsGraph, history
<1>10. audited'[a] \subseteq {approvals'[a].status} /\ wins'[a] <= 1
  BY <1>1, <1>2, <1>5, <1>6 DEF history
<1> QED
  BY <1>1, <1>2, <1>7, <1>8, <1>9, <1>10, SubjectRest

-----------------------------------------------------------------------------
(* The steps of a creation, and the arrival of a request.                  *)

\* A request arrives and finds the stores in agreement.
LEMMA ArrivalStep ==
  ASSUME WellFormed, NEW w \in Workers, OneAtATime(w), UNCHANGED history,
         DecisionRequests(w)
  PROVE  OneAtATime(w)'
<1>1. PICK a \in ApprovalIds, p \in {"decide", "resume"}, v \in Decisions :
        Request(w, a, p, v) /\ Asked(a)
  BY DEF DecisionRequests, Approve, Reject, ManualResume, Decisions, Asked
<1>2. /\ job[w].at = "idle" /\ UNCHANGED <<stores, history>>
      /\ job'[w].at = p /\ job'[w].appr = a
      /\ job'[w].task = approvals[a].task
  BY <1>1 DEF Request, At, PutJob, NoRequest, WellFormed, TypeOK
<1>3. ASSUME NEW b \in ApprovalIds, Asked(b)
      PROVE  Agree(b)'
  <2>1. Agree(b) /\ approvals[b].task \in Tasks
    BY <1>2, <1>3 DEF OneAtATime, OthersAgree, At, WellFormed, RowOK, Asked
  <2> QED
    BY <1>2, <2>1, AgreeKept DEF stores, history
<1>4. AuditTellsDecision' /\ EffectOnce' /\ OneApproval'
  BY <1>2 DEF OneAtATime, AuditTellsDecision, EffectOnce, OneApproval, Asked,
     stores, history
<1>5. OthersAgree(w)'
  BY <1>2, <1>3 DEF OthersAgree, Asked, stores
<1>6. DecidingOK(w, a)' /\ CallingOK(w, a)' /\ AskingOK(w, a)' /\ NewTaskOK(w)'
  BY <1>1, <1>2, <1>3
     DEF DecidingOK, CallingOK, AskingOK, NewTaskOK, CreatingPoints
<1>7. PhaseOK(w)'
  BY <1>2, <1>6 DEF PhaseOK
<1> QED
  BY <1>4, <1>5, <1>7 DEF OneAtATime

\* A task is created: nothing has been asked for it yet.
LEMMA CreateTaskStep ==
  ASSUME WellFormed, NEW w \in Workers, OneAtATime(w), NEW t \in Tasks,
         CreateTask(w, t)
  PROVE  OneAtATime(w)'
<1>1. job[w].at = "idle" /\ t \notin created
      /\ created' = created \cup {t} /\ UNCHANGED <<stores, calls, wins>>
  BY DEF CreateTask, At
<1>2. PICK p \in {"new_approval", "new_checkpoint"} :
        /\ job'[w].at = p /\ job'[w].appr = NoApproval /\ job'[w].task = t
        /\ job'[w].verdict = "waiting_approval"
        /\ p = "new_approval" => Mode[t] = "keyword"
  BY DEF CreateTask, PutJob, NoRequest, WellFormed, TypeOK
<1>3. ASSUME NEW b \in ApprovalIds, Asked(b)
      PROVE  Agree(b)' /\ approvals[b].task # t
  <2>1. Agree(b) /\ approvals[b].task \in Tasks /\ approvals[b].task \in created
    BY <1>1, <1>3 DEF OneAtATime, OthersAgree, OneApproval, At, WellFormed,
       RowOK, Asked
  <2> QED
    BY <1>1, <2>1, AgreeKept DEF stores
<1>4. AuditTellsDecision' /\ EffectOnce' /\ OneApproval'
  BY <1>1 DEF OneAtATime, AuditTellsDecision, EffectOnce, OneApproval, Asked,
     stores
<1>5. OthersAgree(w)'
  BY <1>1, <1>3 DEF OthersAgree, Asked, stores
<1>6. NewTaskOK(w)'
  BY <1>1, <1>2, <1>3 DEF NewTaskOK, CreatingPoints, Asked, stores
<1>7. PhaseOK(w)'
  BY <1>2, <1>6, DecisionsAssumption DEF PhaseOK
<1> QED
  BY <1>4, <1>5, <1>7 DEF OneAtATime

\* What a step of a creation leaves to show: only task t is touched, which has at
\* most the one approval of the request.
LEMMA CreationRest ==
  ASSUME WellFormed, NEW w \in Workers, OneAtATime(w), NEW t \in Tasks,
         job[w].at # "idle", job[w].task = t, job'[w].task = t, job'[w].at # "idle",
         \A b \in ApprovalIds : Asked(b) => approvals'[b] = approvals[b],
         \A b, c \in ApprovalIds :
           Asked(b)' /\ Asked(c)' /\ approvals'[b].task = t
                     /\ approvals'[c].task = t => b = c,
         \A b \in ApprovalIds :
           ~Asked(b) => ~Asked(b)' \/ approvals'[b].task = t,
         \A u \in Tasks \ {t} : tasks'[u] = tasks[u] /\ checkpoints'[u] = checkpoints[u],
         UNCHANGED <<audited, created, wins>>, t \in created,
         PhaseOK(w)'
  PROVE  OneAtATime(w)'
<1>1. AuditTellsDecision'
  BY DEF OneAtATime, AuditTellsDecision, Asked, WellFormed, TypeOK, Decisions
<1>2. EffectOnce'
  BY DEF OneAtATime, EffectOnce
<1>3. OneApproval'
  <2>1. \A b \in ApprovalIds : Asked(b)' => approvals'[b].task \in created
    BY DEF OneAtATime, OneApproval
  <2>2. ASSUME NEW b \in ApprovalIds, NEW c \in ApprovalIds, Asked(b)', Asked(c)',
               approvals'[b].task = approvals'[c].task
        PROVE  b = c
    <3>1. CASE approvals'[b].task = t
      BY <2>2, <3>1
    <3>2. CASE approvals'[b].task # t
      BY <2>2, <3>2 DEF OneAtATime, OneApproval
    <3> QED
      BY <3>1, <3>2
  <2> QED
    BY <2>1, <2>2 DEF OneApproval
<1>4. OthersAgree(w)'
  <2> SUFFICES ASSUME NEW b \in ApprovalIds, Asked(b)', approvals'[b].task # t
               PROVE  Agree(b)'
    BY DEF OthersAgree, At
  <2>1. Asked(b) /\ approvals'[b] = approvals[b]
    OBVIOUS
  <2>2. Agree(b) /\ approvals[b].task \in Tasks
    BY <2>1 DEF OneAtATime, OthersAgree, WellFormed, RowOK, Asked
  <2> QED
    BY <2>1, <2>2, AgreeKept
<1> QED
  BY <1>1, <1>2, <1>3, <1>4 DEF OneAtATime

\* The interrupted checkpoint is written before there is an approval.
LEMMA NewCheckpointStep ==
  ASSUME WellFormed, NEW w \in Workers, OneAtATime(w), NewCheckpoint(w)
  PROVE  OneAtATime(w)'
<1>1. job[w].at = "new_checkpoint" /\ UNCHANGED <<approvals, tasks, audited, history>>
  BY DEF NewCheckpoint, At
<1>2. PICK t \in Tasks : job[w].task = t
  BY <1>1 DEF WellFormed, RequestOK
<1>3. /\ \A b \in ApprovalIds : Asked(b) => approvals[b].task # t
      /\ job[w].verdict = "waiting_approval" /\ t \in created
  BY <1>1, <1>2 DEF OneAtATime, PhaseOK, NewTaskOK, CreatingPoints
<1>4. checkpoints'[t].status = "interrupted"
      /\ \A u \in Tasks \ {t} : checkpoints'[u] = checkpoints[u]
  BY <1>2 DEF NewCheckpoint, PutCheckpoint, NoCheckpoint, WellFormed, TypeOK
<1>5. /\ job'[w].at = "new_approval" /\ job'[w].task = t
      /\ job'[w].verdict = "waiting_approval"
  BY <1>2, <1>3, GotoFields DEF NewCheckpoint, WellFormed, TypeOK
<1>6. NewTaskOK(w)'
  BY <1>1, <1>3, <1>4, <1>5 DEF NewTaskOK, CreatingPoints, Asked, history
<1>7. PhaseOK(w)'
  BY <1>5, <1>6 DEF PhaseOK, DecidingOK, CallingOK, AskingOK
<1> QED
  BY <1>1, <1>2, <1>3, <1>4, <1>5, <1>7, CreationRest DEF Asked, history

\* The approval is created: the first of its task.
LEMMA NewApprovalStep ==
  ASSUME WellFormed, NEW w \in Workers, OneAtATime(w), NewApproval(w)
  PROVE  OneAtATime(w)'
<1>1. /\ job[w].at = "new_approval"
      /\ UNCHANGED <<tasks, checkpoints, audited, history>>
  BY DEF NewApproval, At
<1>2. PICK t \in Tasks : job[w].task = t
  BY <1>1 DEF WellFormed, RequestOK
<1>3. /\ \A b \in ApprovalIds : Asked(b) => approvals[b].task # t
      /\ job[w].verdict = "waiting_approval" /\ t \in created
  BY <1>1, <1>2 DEF OneAtATime, PhaseOK, NewTaskOK, CreatingPoints
<1>4. Mode[t] \in {"keyword", "graph_keyword"}
  BY ModeAssumption
<1>5. PICK a \in ApprovalIds, p \in {"save", "mark_pending"} :
        /\ CreateApproval(a, t, Mode[t], 1)
        /\ PutJob(w, [job[w] EXCEPT !.appr = a, !.at = p])
        /\ p = "save" => Mode[t] = "keyword"
  BY <1>2 DEF NewApproval
<1>6. /\ ~Asked(a) /\ wins[a] = 0
      /\ approvals'[a].status = "pending" /\ approvals'[a].task = t
      /\ approvals'[a].mode = Mode[t] /\ ~approvals'[a].resumed
      /\ \A b \in ApprovalIds \ {a} : approvals'[b] = approvals[b]
  BY <1>5 DEF CreateApproval, PutRow, Asked, WellFormed, TypeOK, RowOK
<1>7. /\ job'[w].at = p /\ job'[w].appr = a /\ job'[w].task = t
      /\ job'[w].verdict = "waiting_approval"
  BY <1>2, <1>3, <1>5 DEF PutJob, Requests, WellFormed, TypeOK
<1>8. \A b \in ApprovalIds \ {a} : Asked(b)' => Asked(b) /\ approvals'[b].task # t
  BY <1>3, <1>6 DEF Asked
<1>9. AskingOK(w, a)'
  BY <1>1, <1>5, <1>6, <1>7 DEF AskingOK, Interrupted, IsGraph, history
<1>10. DecidingOK(w, a)' /\ CallingOK(w, a)'
  BY <1>7 DEF DecidingOK, CallingOK
<1>11. NewTaskOK(w)'
  BY <1>1, <1>3, <1>7 DEF NewTaskOK, CreatingPoints, history
<1>12. PhaseOK(w)'
  BY <1>7, <1>9, <1>10, <1>11 DEF PhaseOK
<1>13. \A b \in ApprovalIds : Asked(b) => approvals'[b] = approvals[b]
  BY <1>6 DEF Asked
<1>14. \A b, c \in ApprovalIds :
         Asked(b)' /\ Asked(c)' /\ approvals'[b].task = t
                   /\ approvals'[c].task = t => b = c
  BY <1>8
<1>15. \A b \in ApprovalIds : ~Asked(b) => ~Asked(b)' \/ approvals'[b].task = t
  BY <1>6 DEF Asked
<1> QED
  BY <1>1, <1>2, <1>3, <1>7, <1>12, <1>13, <1>14, <1>15, CreationRest DEF history

\* The checkpoint is linked to its approval and interrupted still.
LEMMA MarkPendingStep ==
  ASSUME WellFormed, NEW w \in Workers, OneAtATime(w), MarkPendingInterrupt(w)
  PROVE  OneAtATime(w)'
<1>1. /\ job[w].at = "mark_pending"
      /\ UNCHANGED <<approvals, tasks, audited, history>>
  BY DEF MarkPendingInterrupt, At
<1>2. PICK a \in ApprovalIds, t \in Tasks :
        job[w].appr = a /\ job[w].task = t /\ approvals[a].task = t /\ Asked(a)
  BY <1>1 DEF WellFormed, RequestOK, Bound, Points, Asked
<1>3. /\ approvals[a].status = "pending" /\ ~approvals[a].resumed /\ wins[a] = 0
      /\ job[w].verdict = "waiting_approval" /\ t \in created
  BY <1>1, <1>2 DEF OneAtATime, PhaseOK, AskingOK, NewTaskOK, CreatingPoints
<1>4. /\ checkpoints'[t].status = "interrupted"
      /\ \A u \in Tasks \ {t} : checkpoints'[u] = checkpoints[u]
  <2> DEFINE c == [checkpoints[t] EXCEPT !.status = "interrupted", !.approval = a]
  <2>1. checkpoints \in [Tasks -> CheckpointRows]
    BY DEF WellFormed, TypeOK
  <2>2. c \in CheckpointRows /\ c.status = "interrupted"
    BY <1>2, <2>1 DEF CheckpointRows
  <2>3. PutCheckpoint(t, c)
    BY <1>2 DEF MarkPendingInterrupt
  <2> HIDE DEF c
  <2> QED
    BY <2>1, <2>2, <2>3, CheckpointPut
<1>5. /\ job'[w].at = "save" /\ job'[w].task = t /\ job'[w].appr = a
      /\ job'[w].verdict = "waiting_approval"
  BY <1>2, <1>3, GotoFields DEF MarkPendingInterrupt, WellFormed, TypeOK
<1>6. AskingOK(w, a)'
  BY <1>1, <1>2, <1>3, <1>4, <1>5 DEF AskingOK, Interrupted, PointOf, IsGraph, history
<1>7. NewTaskOK(w)' /\ DecidingOK(w, a)' /\ CallingOK(w, a)'
  BY <1>1, <1>3, <1>5 DEF NewTaskOK, DecidingOK, CallingOK, CreatingPoints, history
<1>8. PhaseOK(w)'
  BY <1>5, <1>6, <1>7 DEF PhaseOK
<1>9. \A b, c \in ApprovalIds :
        Asked(b)' /\ Asked(c)' /\ approvals'[b].task = t
                  /\ approvals'[c].task = t => b = c
  BY <1>1 DEF OneAtATime, OneApproval, Asked
<1> QED
  BY <1>1, <1>2, <1>3, <1>4, <1>5, <1>8, <1>9, CreationRest DEF Asked, history

\* The task is saved waiting for the approval that was created for it.
LEMMA SaveStep ==
  ASSUME WellFormed, NEW w \in Workers, OneAtATime(w), Save(w)
  PROVE  OneAtATime(w)'
<1>1. /\ job[w].at = "save" /\ job[w].task \in Tasks
      /\ UNCHANGED <<approvals, checkpoints, audited, history>>
  BY DEF Save, At, WellFormed, RequestOK
<1>2. PICK a \in ApprovalIds : job[w].appr = a
  BY <1>1 DEF OneAtATime, PhaseOK, NewTaskOK
<1>3. PICK t \in Tasks : job[w].task = t
  BY <1>1
<1>4. /\ approvals[a].status = "pending" /\ ~approvals[a].resumed /\ wins[a] = 0
      /\ approvals[a].task = t /\ Interrupted(a)
      /\ job[w].verdict = "waiting_approval"
  BY <1>1, <1>2, <1>3 DEF OneAtATime, PhaseOK, AskingOK, NewTaskOK
<1>5. tasks'[t] = "waiting_approval" /\ \A u \in Tasks \ {t} : tasks'[u] = tasks[u]
  BY <1>3, <1>4 DEF Save, SaveTask, WellFormed, TypeOK
<1>6. job'[w] = NoRequest /\ job'[w].at = "idle"
  BY DoneJob DEF Save, WellFormed, TypeOK
<1>7. Touches(w, a, t)
  BY <1>1, <1>4, <1>5, <1>6 DEF Touches, history
<1>8. Agree(a)'
  BY <1>1, <1>4, <1>5 DEF Agree, Interrupted, TaskOf, PointOf, IsGraph, history
<1>9. audited'[a] \subseteq {approvals'[a].status} /\ wins'[a] <= 1
  BY <1>1, <1>4 DEF OneAtATime, AuditTellsDecision, history
<1> QED
  BY <1>1, <1>3, <1>4, <1>6, <1>7, <1>8, <1>9, SubjectRest DEF Asked

-----------------------------------------------------------------------------
(* The theorems.                                                           *)

\* Without faults every step keeps the invariant.
LEMMA OneAtATimeStep ==
  ASSUME MaxFaults = 0, WellFormed, NEW w \in Workers, OneAtATime(w), Step(w)
  PROVE  OneAtATime(w)'
<1>1. ~Fault
  BY DEF Fault, WellFormed, TypeOK
<1>2. ASSUME DecisionSteps(w), UNCHANGED history
      PROVE  OneAtATime(w)'
  BY <1>2, ReadsStep, DecideWriteStep, AuditStep, CancelTaskStep,
     CancelCheckpointStep, PayloadReadStep, PayloadWriteStep DEF DecisionSteps
<1>3. ASSUME CreateSteps(w) PROVE OneAtATime(w)'
  BY <1>3, NewCheckpointStep, NewApprovalStep, MarkPendingStep, SaveStep
     DEF CreateSteps
<1>4. ~UpdateTaskFailed(w)
  <2> SUFFICES ASSUME job[w].at = "task_failed" PROVE FALSE
    BY DEF UpdateTaskFailed, At
  <2>1. job[w].at \in Settled
    BY DEF Settled, Bound, Points
  <2> QED
    BY <2>1, SubjectKnown DEF CallingOK
<1>5. ASSUME ResumeSteps(w) PROVE OneAtATime(w)'
  BY <1>4, <1>5, EntryStep, CalledStep, TaskWrittenStep, ClaimedStep,
     MarkResumedStep DEF ResumeSteps
<1>6. ~CreateFault(w) /\ ~UpdateTaskFault(w) /\ ~DecisionFaults(w)
  BY <1>1 DEF CreateFault, UpdateTaskFault, DecisionFaults, CancelTaskFault, Abort
<1> QED
  BY <1>2, <1>3, <1>5, <1>6, ArrivalStep, CreateTaskStep DEF Step, Serve

\* With one process, and no store that raises, the stores agree but for the
\* approval the request under way is about, and of that one is known what is
\* still to be written.
LEMMA OneAtATimeAlways ==
  ASSUME NEW w \in Workers, Workers = {w}, MaxFaults = 0
  PROVE  Spec => []OneAtATime(w)
<1>1. Init => OneAtATime(w)
  BY OneAtATimeInit
<1>2. WellFormed /\ OneAtATime(w) /\ [Next]_vars => OneAtATime(w)'
  <2> SUFFICES ASSUME WellFormed, OneAtATime(w), [Next]_vars
               PROVE  OneAtATime(w)'
    OBVIOUS
  <2>1. CASE Next
    BY <2>1, OneAtATimeStep DEF Next
  <2>2. CASE UNCHANGED vars
    <3>1. UNCHANGED <<approvals, tasks, checkpoints, audited, job, created, wins>>
      BY <2>2 DEF vars, stores
    <3>2. \A a \in ApprovalIds :
            /\ Asked(a)' = Asked(a) /\ Agree(a)' = Agree(a)
            /\ Resuming(a)' = Resuming(a) /\ Interrupted(a)' = Interrupted(a)
      BY <3>1 DEF Asked, Agree, Resuming, Interrupted, Decided, Ended, TaskOf, PointOf, IsGraph
    <3>3. AuditTellsDecision' /\ EffectOnce'
      BY <3>1 DEF OneAtATime, AuditTellsDecision, EffectOnce
    <3>4. OneApproval' /\ OthersAgree(w)'
      BY <3>1, <3>2 DEF OneAtATime, OneApproval, OthersAgree, At
    <3>5. ASSUME NEW a \in ApprovalIds, job'[w].appr = a
          PROVE  DecidingOK(w, a)' /\ CallingOK(w, a)' /\ AskingOK(w, a)'
      <4>1. DecidingOK(w, a) /\ CallingOK(w, a) /\ AskingOK(w, a)
        BY <3>1, <3>5 DEF OneAtATime, PhaseOK
      <4>2. DecidingOK(w, a)'
        BY <3>1, <3>2, <4>1 DEF DecidingOK, Decided, Ended, TaskOf, PointOf, IsGraph
      <4>3. CallingOK(w, a)' /\ AskingOK(w, a)'
        BY <3>1, <3>2, <4>1 DEF CallingOK, AskingOK, Decided, Ended, TaskOf, PointOf, IsGraph
      <4> QED
        BY <4>2, <4>3
    <3>6. NewTaskOK(w)'
      BY <3>1, <3>2 DEF OneAtATime, PhaseOK, NewTaskOK
    <3> QED
      BY <3>3, <3>4, <3>5, <3>6 DEF OneAtATime, PhaseOK
  <2> QED
    BY <2>1, <2>2
<1> QED
  BY <1>1, <1>2, WellFormedAlways, PTL DEF Spec

\* With one process and no fault, the tool of an approval succeeds at most once:
\* a resume that is repeated does not repeat the call.
THEOREM ShippedEffectOnce ==
  ASSUME NEW w \in Workers, Workers = {w}, MaxFaults = 0
  PROVE  Spec => []EffectOnce
<1>1. OneAtATime(w) => EffectOnce
  BY DEF OneAtATime
<1> QED
  BY <1>1, OneAtATimeAlways, PTL

\* With one process and no fault, the audit log holds of an approval only the
\* decision it has.
THEOREM ShippedAuditTellsDecision ==
  ASSUME NEW w \in Workers, Workers = {w}, MaxFaults = 0
  PROVE  Spec => []AuditTellsDecision
<1>1. OneAtATime(w) => AuditTellsDecision
  BY DEF OneAtATime
<1> QED
  BY <1>1, OneAtATimeAlways, PTL

\* With one process and no fault, the task and the checkpoint of every approval
\* agree with it whenever no request is under way.
THEOREM ShippedStoresAgree ==
  ASSUME NEW w \in Workers, Workers = {w}, MaxFaults = 0
  PROVE  Spec => []StoresAgree
<1>1. ASSUME OneAtATime(w) PROVE StoresAgree
  <2> SUFFICES ASSUME At(w, "idle"), NEW a \in ApprovalIds, Asked(a)
               PROVE  LET row == approvals[a]
                          task == tasks[row.task]
                          point == checkpoints[row.task].status
                      IN /\ row.status = "pending" => task = "waiting_approval"
                         /\ row.status = "rejected" => task = "cancelled"
                         /\ row.resumed => task \in {"completed", "failed"}
                         /\ row.status = "approved" /\ ~row.resumed =>
                              task \in {"waiting_approval", "failed"} /\ wins[a] = 0
                         /\ IsGraph(a) => point =
                              CASE row.resumed -> "resumed"
                                [] row.status = "rejected" -> "cancelled"
                                [] OTHER -> "interrupted"
    BY DEF StoresAgree, Quiet, Asked
  <2>1. Agree(a)
    BY <1>1 DEF OneAtATime, OthersAgree
  <2>2. ASSUME IsGraph(a)
        PROVE  PointOf(a) =
                 CASE approvals[a].resumed -> "resumed"
                   [] approvals[a].status = "rejected" -> "cancelled"
                   [] OTHER -> "interrupted"
    <3>1. CASE approvals[a].resumed
      <4>1. approvals[a].status # "rejected"
        BY <2>1, <3>1 DEF Agree
      <4> QED
        BY <2>1, <2>2, <3>1, <4>1 DEF Agree
    <3>2. CASE ~approvals[a].resumed
      BY <2>1, <2>2, <3>2 DEF Agree
    <3> QED
      BY <3>1, <3>2
  <2> QED
    BY <2>1, <2>2 DEF Agree, TaskOf, PointOf
<1> QED
  BY <1>1, OneAtATimeAlways, PTL

-----------------------------------------------------------------------------
(* The gate.                                                               *)

\* What HumanGate sees of an approval as its effect.
EffectOf(a) == IF IsGraph(a) THEN calls[a] ELSE wins[a]

\* A step that changes no status and no effect is a stutter of the gate.
LEMMA GateStutters ==
  ASSUME \A a \in ApprovalIds : /\ approvals'[a].status = approvals[a].status
                                /\ EffectOf(a)' = EffectOf(a)
  PROVE  [Gate!Next]_(Gate!gate)
BY DEF Gate!gate, EffectOf, IsGraph

\* Of an approval whose row and calls stay, the effect stays.
LEMMA EffectKept ==
  ASSUME NEW a \in ApprovalIds, approvals'[a].mode = approvals[a].mode,
         calls'[a] = calls[a], wins'[a] = wins[a]
  PROVE  EffectOf(a)' = EffectOf(a)
BY DEF EffectOf, IsGraph

\* The write of a decision is the decision of the gate: the row is pending.
LEMMA GateDecides ==
  ASSUME WellFormed, NEW w \in Workers, OneAtATime(w), UNCHANGED history,
         DecideWrite(w)
  PROVE  [Gate!Next]_(Gate!gate)
<1>1. job[w].at = "decide_write" /\ job[w].at \in Settled
  BY DEF DecideWrite, At, Settled, Bound, Points
<1>2. PICK a \in ApprovalIds :
        /\ job[w].appr = a /\ DecidingOK(w, a) /\ approvals[a] \in Rows
        /\ job[w] \in Requests
  BY <1>1, SubjectKnown
<1>3. approvals[a].status = "pending"
  BY <1>1, <1>2 DEF DecidingOK
<1>4. PICK d \in Decisions : job[w].verb = d
  BY <1>2 DEF Requests
<1> DEFINE row == [approvals[a] EXCEPT !.status = d]
<1>5. PutRow(a, row)
  BY <1>2, <1>3, <1>4 DEF DecideWrite
<1>6. row \in Rows /\ row.status = d /\ row.mode = approvals[a].mode
  BY <1>2 DEF Rows, RowStatus, Decisions
<1> HIDE DEF row
<1>7. approvals'[a] = row /\ \A b \in ApprovalIds \ {a} : approvals'[b] = approvals[b]
  BY <1>5, <1>6, RowPut DEF WellFormed, TypeOK
<1>8. \A b \in ApprovalIds : EffectOf(b)' = EffectOf(b)
  BY <1>6, <1>7, EffectKept DEF history
<1>9. Gate!Decide(a, d)
  BY <1>3, <1>6, <1>7, <1>8 DEF Gate!Decide, EffectOf, IsGraph
<1> QED
  BY <1>9 DEF Gate!Next, Decisions

\* The write of the payload changes neither status nor effect.
LEMMA GateConsumes ==
  ASSUME WellFormed, NEW w \in Workers, UNCHANGED history, PayloadWrite(w)
  PROVE  [Gate!Next]_(Gate!gate)
<1>1. PICK a \in ApprovalIds : job[w].appr = a
  BY DEF WellFormed, RequestOK, PayloadWrite, At, Bound, Points
<1>2. approvals[a] \in Rows /\ job[w] \in Requests
  BY DEF WellFormed, TypeOK
<1> DEFINE row == [approvals[a] EXCEPT !.resumed = job[w].consumed \/ job[w].seen]
<1>3. PutRow(a, row)
  BY <1>1 DEF PayloadWrite
<1>4. /\ row \in Rows /\ row.status = approvals[a].status
      /\ row.mode = approvals[a].mode
  BY <1>2 DEF Rows, Requests
<1> HIDE DEF row
<1>5. approvals'[a] = row /\ \A b \in ApprovalIds \ {a} : approvals'[b] = approvals[b]
  BY <1>3, <1>4, RowPut DEF WellFormed, TypeOK
<1>6. \A b \in ApprovalIds : /\ approvals'[b].status = approvals[b].status
                             /\ approvals'[b].mode = approvals[b].mode
  BY <1>4, <1>5
<1> QED
  BY <1>6, EffectKept, GateStutters DEF history

\* The creation of an approval is the request of the gate.
LEMMA GateAsks ==
  ASSUME WellFormed, NEW w \in Workers, NewApproval(w)
  PROVE  [Gate!Next]_(Gate!gate)
<1>1. PICK a \in ApprovalIds :
        CreateApproval(a, job[w].task, Mode[job[w].task], 1)
  BY DEF NewApproval
<1>2. /\ approvals[a].status = "absent" /\ approvals'[a].status = "pending"
      /\ \A b \in ApprovalIds \ {a} : approvals'[b] = approvals[b]
  BY <1>1 DEF CreateApproval, PutRow, WellFormed, TypeOK
<1>3. calls[a] = 0 /\ wins[a] = 0 /\ UNCHANGED <<calls, wins>>
  BY <1>2 DEF WellFormed, RowOK, NewApproval, history
<1>4. \A b \in ApprovalIds : EffectOf(b)' = EffectOf(b)
  <2>1. EffectOf(a)' = EffectOf(a)
    BY <1>3 DEF EffectOf
  <2> QED
    BY <1>2, <1>3, <2>1, EffectKept
<1>5. Gate!Ask(a)
  BY <1>2, <1>4 DEF Gate!Ask, EffectOf, IsGraph
<1> QED
  BY <1>5 DEF Gate!Next

\* The call is the effect of the gate: of a keyword approval if it succeeds, of a
\* graph approval in any case; it is approved and has not had its effect.
LEMMA GateHasEffect ==
  ASSUME WellFormed, ClaimInv, NEW w \in Workers, OneAtATime(w),
         CallTool(w) \/ GraphCallTool(w)
  PROVE  [Gate!Next]_(Gate!gate)
<1>1. job[w].at \in {"call", "graph_call"} /\ job[w].at \in Settled
      /\ UNCHANGED approvals
  BY DEF CallTool, GraphCallTool, At, Settled, Bound, Points, stores
<1>2. PICK a \in ApprovalIds, t \in Tasks :
        /\ job[w].appr = a /\ job[w].task = t /\ CallingOK(w, a)
        /\ approvals[a].mode = Mode[t]
  BY <1>1, SubjectKnown
<1>3. approvals[a].status = "approved" /\ wins[a] = 0
  BY <1>1, <1>2 DEF CallingOK, Resuming, Decided, Agree
<1>4. /\ job[w].at = "call" => ~IsGraph(a)
      /\ job[w].at = "graph_call" => IsGraph(a) /\ calls[a] = 0
  BY <1>2 DEF WellFormed, RequestOK, KeywordPoints, GraphPoints, IsGraph,
     ClaimInv, ClaimedOK, ClaimedPoints
<1>5. PICK success \in BOOLEAN : CallGateway(w, success)
  BY DEF CallTool, GraphCallTool
<1>6. \A b \in ApprovalIds \ {a} : calls'[b] = calls[b] /\ wins'[b] = wins[b]
  BY <1>2, <1>5 DEF CallGateway, WellFormed, TypeOK
<1>7. \A b \in ApprovalIds \ {a} : EffectOf(b)' = EffectOf(b)
  BY <1>1, <1>6, EffectKept
<1>8. EffectOf(a) = 0 /\ EffectOf(a)' \in {0, 1}
  <2>1. CASE job[w].at = "call"
    BY <1>1, <1>2, <1>3, <1>4, <1>5, <2>1, CallCounts DEF EffectOf, IsGraph
  <2>2. CASE job[w].at = "graph_call"
    <3>1. calls'[a] = 1
      BY <1>2, <1>4, <1>5, <2>2 DEF CallGateway, Count, Many, WellFormed, TypeOK
    <3> QED
      BY <1>1, <1>4, <2>2, <3>1 DEF EffectOf, IsGraph
  <2> QED
    BY <1>1, <2>1, <2>2
<1>9. CASE EffectOf(a)' = 0
  BY <1>1, <1>7, <1>8, <1>9, GateStutters
<1>10. CASE EffectOf(a)' = 1
  <2>1. Gate!Effect(a)
    BY <1>1, <1>3, <1>7, <1>8, <1>10 DEF Gate!Effect, EffectOf, IsGraph
  <2> QED
    BY <2>1 DEF Gate!Next
<1> QED
  BY <1>8, <1>9, <1>10

\* Every step of the only process is a step of the gate or leaves it alone.
LEMMA ShippedGateStep ==
  ASSUME MaxFaults = 0, WellFormed, ClaimInv, NEW w \in Workers, OneAtATime(w),
         Step(w)
  PROVE  [Gate!Next]_(Gate!gate)
<1>1. CASE UNCHANGED <<approvals, calls, wins>>
  BY <1>1, EffectKept, GateStutters
<1>2. DecisionSteps(w) /\ UNCHANGED history =>
        \/ (DecideWrite(w) \/ PayloadWrite(w)) /\ UNCHANGED history
        \/ UNCHANGED <<approvals, calls, wins>>
  BY DEF DecisionSteps, DecideRead, DecideSelect, AuditDecision, CancelTask,
     CancelCheckpoint, PayloadRead, stores, history
<1>3. CreateSteps(w) \/ ResumeSteps(w) =>
        \/ NewApproval(w) \/ CallTool(w) \/ GraphCallTool(w)
        \/ UNCHANGED <<approvals, calls, wins>>
  BY DEF CreateSteps, NewCheckpoint, MarkPendingInterrupt, Save, ResumeSteps,
     Resume, ResumeEntry, UpdateTask, UpdateTaskFailed, Claim,
     GraphUpdateTask, MarkResumed, stores, history
<1>4. \/ DecisionRequests(w) /\ UNCHANGED history
      \/ DecisionFaults(w) /\ UNCHANGED history
      \/ CreateFault(w) \/ UpdateTaskFault(w) \/ (\E t \in Tasks : CreateTask(w, t))
      => UNCHANGED <<approvals, calls, wins>>
  BY DEF DecisionRequests, Approve, Reject, ManualResume, Request,
     DecisionFaults, CancelTaskFault, Abort, CreateFault, UpdateTaskFault,
     CreateTask, stores, history
<1> QED
  BY <1>1, <1>2, <1>3, <1>4, GateDecides, GateConsumes, GateAsks, GateHasEffect
     DEF Step, Serve

\* With one process and no fault, the flow implements the gate for tasks of
\* every mode and with either store: a person decides once and for all, and the
\* approved call has its effect at most once, after the approval.
THEOREM ShippedImplementsGate ==
  ASSUME NEW w \in Workers, Workers = {w}, MaxFaults = 0
  PROVE  Spec => GateSpec
<1>1. WellFormed /\ ClaimInv /\ OneAtATime(w) /\ [Next]_vars
        => [Gate!Next]_(Gate!gate)
  <2>1. UNCHANGED vars => UNCHANGED Gate!gate
    BY DEF vars, stores, Gate!gate, IsGraph
  <2> QED
    BY <2>1, ShippedGateStep DEF Next
<1> QED
  BY <1>1, GateInit, WellFormedAlways, ClaimInvAlways, OneAtATimeAlways, PTL
     DEF Spec, GateSpec, Gate!Spec

=============================================================================
