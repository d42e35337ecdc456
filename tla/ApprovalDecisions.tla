------------------------- MODULE ApprovalDecisions -------------------------
(***************************************************************************)
(* The shared stores of the human-in-the-loop flow (approvals, tasks and   *)
(* graph checkpoints) and the HTTP handlers that decide an approval.       *)
(*                                                                         *)
(* A worker is an application process that serves one request at a time:   *)
(* the handlers are "async def" without an await, so inside a process a    *)
(* request runs to its end.  Processes interleave at the granularity of    *)
(* one store call (each opens its own connection and commits), and a       *)
(* request may be cut short between two store calls.                       *)
(*                                                                         *)
(* This module stops where a request enters ApprovalResumeService.resume   *)
(* (at = "resume"); ToolApprovals and PlanApprovals go on from there.      *)
(***************************************************************************)
EXTENDS Naturals, FiniteSets

CONSTANTS
  Workers,       \* application processes sharing the stores
  Tasks,         \* task ids a client may create
  ApprovalIds,   \* approval ids create_approval may hand out
  Postgres,      \* TRUE: PostgresApprovalStore, FALSE: SQLiteApprovalStore
  Refused,       \* approvals whose payload the injection guard or the
                 \* integrity check turns down at resume
  MaxFaults,     \* bound: requests cut short and store calls that raise
  NoTask, NoApproval

ASSUME DecisionsAssumption ==
  /\ Postgres \in BOOLEAN
  /\ Refused \subseteq ApprovalIds
  /\ MaxFaults \in Nat
  /\ NoTask \notin Tasks
  /\ NoApproval \notin ApprovalIds

VARIABLES
  approvals,   \* rows of the approvals table, payload included
  tasks,       \* status column of the tasks table, "absent" without a row
  checkpoints, \* the "execute" row a task has in graph_run_states
  audited,     \* decision events the audit log holds for an approval
  job,         \* the request each worker is serving
  faults       \* faults so far

stores == <<approvals, tasks, checkpoints, audited>>

Decisions == {"approved", "rejected"}
RowStatus == {"absent", "pending"} \cup Decisions
TaskStatus == {"absent", "waiting_approval", "completed", "failed", "cancelled"}

NoRow == [status |-> "absent", task |-> NoTask, mode |-> "none",
          step |-> 0, resumed |-> FALSE]
NoCheckpoint ==
  [status |-> "absent", approval |-> NoApproval, consumed |-> FALSE]

\* A request: the store call it makes next (at), the approval and task it is
\* about, the decision it asks for, the task status it is going to write, the
\* approval_consumed of its resume result, the "resumed" flag update_payload
\* has read, and the plan position it has reached.
NoRequest == [at |-> "idle", appr |-> NoApproval, task |-> NoTask,
              verb |-> "approved", verdict |-> "failed", consumed |-> FALSE,
              seen |-> FALSE, step |-> 0]

DecisionsInit ==
  /\ approvals = [a \in ApprovalIds |-> NoRow]
  /\ tasks = [t \in Tasks |-> "absent"]
  /\ checkpoints = [t \in Tasks |-> NoCheckpoint]
  /\ audited = [a \in ApprovalIds |-> {}]
  /\ job = [w \in Workers |-> NoRequest]
  /\ faults = 0

At(w, p) == job[w].at = p
PutJob(w, r) == job' = [job EXCEPT ![w] = r]
Goto(w, p) == PutJob(w, [job[w] EXCEPT !.at = p])
Done(w) == PutJob(w, NoRequest)
PutRow(a, row) == approvals' = [approvals EXCEPT ![a] = row]
PutCheckpoint(t, c) == checkpoints' = [checkpoints EXCEPT ![t] = c]
Fault == faults < MaxFaults /\ faults' = faults + 1

-----------------------------------------------------------------------------
(* Store calls.                                                            *)

\* update_task_status: a missing row is left missing, and the caller gets None
\* but never looks at it.
UpdateTaskStatus(t, status) ==
  tasks' = IF tasks[t] = "absent" THEN tasks ELSE [tasks EXCEPT ![t] = status]

\* save_task inserts or replaces, whatever the row said.
SaveTask(t, status) == tasks' = [tasks EXCEPT ![t] = status]

\* create_approval: from here on every worker sees the row.
CreateApproval(a, t, mode, step) ==
  /\ approvals[a].status = "absent"
  /\ PutRow(a, [status |-> "pending", task |-> t, mode |-> mode,
                step |-> step, resumed |-> FALSE])

-----------------------------------------------------------------------------
(* Requests.  The arrival of a request and its first read are one step; a  *)
(* request that answers from that read alone changes nothing.              *)

Request(w, a, p, verb) ==
  /\ At(w, "idle")
  /\ PutJob(w, [NoRequest EXCEPT !.at = p, !.appr = a, !.verb = verb,
                                 !.task = approvals[a].task])
  /\ UNCHANGED <<stores, faults>>

\* approve_approval up to decide_approval.  An approved and not yet consumed
\* approval goes straight to a new resume when the caller wants one.
Approve(w, a) ==
  /\ approvals[a].status # "absent" /\ ~approvals[a].resumed
  /\ Request(w, a, IF approvals[a].status = "approved"
                   THEN "resume" ELSE "decide", "approved")

\* reject_approval up to decide_approval.
Reject(w, a) ==
  /\ approvals[a].status # "absent"
  /\ Request(w, a, "decide", "rejected")

\* manual_resume_approval of the approval console.
ManualResume(w, a) ==
  /\ approvals[a].status = "approved" /\ ~approvals[a].resumed
  /\ Request(w, a, "resume", "approved")

-----------------------------------------------------------------------------
(* decide_approval.  SQLite reads the row, then updates it WHERE status =  *)
(* 'pending' and never looks at how many rows changed.  PostgreSQL reads,  *)
(* then selects the pending row in a session, then flushes an UPDATE by    *)
(* primary key alone.                                                      *)

\* First read of decide_approval: a decided approval is answered at once.
DecideRead(w) ==
  /\ At(w, "decide")
  /\ IF approvals[job[w].appr].status # "pending" THEN Done(w)
     ELSE Goto(w, IF Postgres THEN "decide_select" ELSE "decide_write")
  /\ UNCHANGED <<stores, faults>>

\* The select of the PostgreSQL session; for a row no longer pending the store
\* answers None and the handler fails on None.get.
DecideSelect(w) ==
  /\ At(w, "decide_select")
  /\ IF approvals[job[w].appr].status = "pending"
     THEN Goto(w, "decide_write") ELSE Done(w)
  /\ UNCHANGED <<stores, faults>>

\* Faulty: the update without WHERE status = 'pending'.
DecideWriteBlind(w) ==
  /\ At(w, "decide_write")
  /\ Goto(w, "audit")
  /\ PutRow(job[w].appr, [approvals[job[w].appr] EXCEPT !.status = job[w].verb])
  /\ UNCHANGED <<tasks, checkpoints, audited, faults>>

\* Faulty: approves whatever was decided.
DecideWriteApproves(w) ==
  /\ At(w, "decide_write")
  /\ Goto(w, "audit")
  /\ PutRow(job[w].appr, [approvals[job[w].appr] EXCEPT !.status = "approved"])
  /\ UNCHANGED <<tasks, checkpoints, audited, faults>>

\* The update and commit.  Either way the caller gets a row without the
\* already_decided mark and goes on as the one who decided.
DecideWrite(w) ==
  /\ At(w, "decide_write")
  /\ Goto(w, "audit")
  /\ LET row == approvals[job[w].appr] IN
     IF Postgres \/ row.status = "pending"
     THEN PutRow(job[w].appr, [row EXCEPT !.status = job[w].verb])
     ELSE UNCHANGED approvals
  /\ UNCHANGED <<tasks, checkpoints, audited, faults>>

\* Faulty: a rejection ends with its audit event.
AuditDecisionOnly(w) ==
  /\ At(w, "audit")
  /\ audited' = [audited EXCEPT ![job[w].appr] = @ \cup {job[w].verb}]
  /\ (job[w].verb = "approved" /\ Goto(w, "resume")) \/ Done(w)
  /\ UNCHANGED <<approvals, tasks, checkpoints, faults>>

\* The audit event of the decision, then auto_resume or the cancellation.  (That
\* _record_audit swallows what the audit store raises, and the handler goes on
\* without the event, is left out.)
AuditDecision(w) ==
  /\ At(w, "audit")
  /\ audited' = [audited EXCEPT ![job[w].appr] = @ \cup {job[w].verb}]
  /\ \/ job[w].verb = "rejected" /\ Goto(w, "cancel_task")
     \/ job[w].verb = "approved" /\ Goto(w, "resume")
     \/ job[w].verb = "approved" /\ Done(w)
  /\ UNCHANGED <<approvals, tasks, checkpoints, faults>>

\* Faulty: forgets the checkpoint.
CancelTaskOnly(w) ==
  /\ At(w, "cancel_task")
  /\ Done(w)
  /\ UpdateTaskStatus(job[w].task, "cancelled")
  /\ UNCHANGED <<approvals, checkpoints, audited, faults>>

\* _cancel_task.
CancelTask(w) ==
  /\ At(w, "cancel_task")
  /\ Goto(w, "cancel_checkpoint")
  /\ UpdateTaskStatus(job[w].task, "cancelled")
  /\ UNCHANGED <<approvals, checkpoints, audited, faults>>

\* _cancel_task swallows what the store raises.
CancelTaskFault(w) ==
  /\ At(w, "cancel_task")
  /\ Goto(w, "cancel_checkpoint")
  /\ Fault
  /\ UNCHANGED stores

\* _cancel_graph_checkpoint_if_needed: mark_cancelled has no guard.
CancelCheckpoint(w) ==
  /\ At(w, "cancel_checkpoint")
  /\ Done(w)
  /\ IF approvals[job[w].appr].mode = "graph_keyword"
     THEN PutCheckpoint(job[w].task,
            [checkpoints[job[w].task] EXCEPT !.status = "cancelled",
                                             !.consumed = TRUE])
     ELSE UNCHANGED checkpoints
  /\ UNCHANGED <<approvals, tasks, audited, faults>>

\* The process dies, or a store call raises where the handler only answers an
\* error: the rest of the request never happens.
Abort(w) ==
  /\ ~At(w, "idle")
  /\ Done(w)
  /\ Fault
  /\ UNCHANGED stores

-----------------------------------------------------------------------------
(* Entry and end of ApprovalResumeService.resume, common to every mode.    *)

\* Faulty: trusts the handler about the decision.
ResumeEntryTrusting(w, first) ==
  /\ At(w, "resume")
  /\ LET row == approvals[job[w].appr] IN
     IF row.resumed \/ job[w].appr \in Refused
     THEN Done(w) ELSE Goto(w, first[row.mode])
  /\ UNCHANGED <<stores, faults>>

\* Its first read: only an approved and unconsumed approval goes on, to the
\* first store or gateway call of its mode.
ResumeEntry(w, first) ==
  /\ At(w, "resume")
  /\ LET row == approvals[job[w].appr] IN
     IF row.status # "approved" \/ row.resumed \/ job[w].appr \in Refused
     THEN Done(w) ELSE Goto(w, first[row.mode])
  /\ UNCHANGED <<stores, faults>>

\* update_payload reads the whole payload ...
PayloadRead(w) ==
  /\ At(w, "payload_read")
  /\ PutJob(w, [job[w] EXCEPT !.at = "payload_write",
                              !.seen = approvals[job[w].appr].resumed])
  /\ UNCHANGED <<stores, faults>>

\* Faulty: the result of the resume is not merged in.
PayloadWriteForgets(w) ==
  /\ At(w, "payload_write")
  /\ Done(w)
  /\ PutRow(job[w].appr, [approvals[job[w].appr] EXCEPT !.resumed = job[w].seen])
  /\ UNCHANGED <<tasks, checkpoints, audited, faults>>

\* Faulty: a failed resume consumes the approval too.
PayloadWriteConsumes(w) ==
  /\ At(w, "payload_write")
  /\ Done(w)
  /\ PutRow(job[w].appr, [approvals[job[w].appr] EXCEPT !.resumed = TRUE])
  /\ UNCHANGED <<tasks, checkpoints, audited, faults>>

\* ... and writes the whole payload back, its own fields merged in.
PayloadWrite(w) ==
  /\ At(w, "payload_write")
  /\ Done(w)
  /\ PutRow(job[w].appr, [approvals[job[w].appr] EXCEPT
                            !.resumed = job[w].consumed \/ job[w].seen])
  /\ UNCHANGED <<tasks, checkpoints, audited, faults>>

\* What a worker does on its own account once a request is under way.
DecisionSteps(w) ==
  \/ DecideRead(w) \/ DecideSelect(w) \/ DecideWrite(w)
  \/ AuditDecision(w) \/ CancelTask(w) \/ CancelCheckpoint(w)
  \/ PayloadRead(w) \/ PayloadWrite(w)

DecisionRequests(w) ==
  \E a \in ApprovalIds : Approve(w, a) \/ Reject(w, a) \/ ManualResume(w, a)

DecisionFaults(w) == CancelTaskFault(w) \/ Abort(w)
=============================================================================
