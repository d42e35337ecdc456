------------------------ MODULE PlanApprovalsProofs ------------------------
(***************************************************************************)
(* Proofs about PlanApprovals for every set of workers, tasks and          *)
(* approvals, every plan, both approval stores and every bound on faults.  *)
(***************************************************************************)
EXTENDS PlanApprovals, TLAPS

-----------------------------------------------------------------------------
(* Well-formedness: which approval, task and step a request is about.      *)

\* Points of a request at which its approval exists.
Bound == Points \ {"idle", "plan", "save"}

\* A row that exists asks for a high-risk step of the plan of its task.
RowOK(a) ==
  IF Asked(a) THEN /\ approvals[a].task \in Tasks
                   /\ approvals[a].mode = "multitool"
                   /\ approvals[a].step \in HighRisk
  ELSE approvals[a] = NoRow

\* A request under way has its task and, once bound, its approval; one that
\* works through a plan is at a step of it or at its end.
RequestOK(w) ==
  /\ ~At(w, "idle") => job[w].task \in Tasks
  /\ job[w].at \in Bound =>
       /\ job[w].appr \in ApprovalIds /\ Asked(job[w].appr)
       /\ approvals[job[w].appr].task = job[w].task
  /\ job[w].at \in {"plan", "rest"} => job[w].step \in 1..(Length + 1)

WellFormed ==
  /\ TypeOK
  /\ \A a \in ApprovalIds : RowOK(a)
  /\ \A w \in Workers : RequestOK(w)

\* The initial state is well formed.
LEMMA WellFormedInit == Init => WellFormed
<1> SUFFICES ASSUME Init PROVE WellFormed
  OBVIOUS
<1> USE DecisionsAssumption, PlanAssumption
<1>1. NoRow \in Rows /\ NoRequest \in Requests
  BY DEF NoRow, Rows, RowStatus, NoRequest, Requests, Points, Decisions, TaskStatus
<1>2. TypeOK
  BY <1>1 DEF Init, DecisionsInit, TypeOK, TaskStatus, Many
<1>3. \A a \in ApprovalIds : RowOK(a)
  BY DEF Init, DecisionsInit, RowOK, Asked, NoRow
<1>4. \A w \in Workers : RequestOK(w)
  BY DEF Init, DecisionsInit, RequestOK, At, NoRequest, Bound
<1> QED
  BY <1>2, <1>3, <1>4 DEF WellFormed

-----------------------------------------------------------------------------
(* What each step does to the request of its worker, field by field.       *)

\* Only the request of w may have changed.
OnlyJob(w) ==
  /\ job' \in [Workers -> Requests]
  /\ \A v \in Workers \ {w} : job'[v] = job[v]

\* It goes on about the same approval and task.
SameSubject(w) == job'[w].appr = job[w].appr /\ job'[w].task = job[w].task

\* What its resume has found out stays as it is.
SameResult(w) == job'[w].consumed = job[w].consumed /\ job'[w].seen = job[w].seen

\* PutJob changes the request of one worker, PutRow one row.
LEMMA JobPut ==
  ASSUME job \in [Workers -> Requests], NEW w \in Workers, NEW r \in Requests,
         PutJob(w, r)
  PROVE  OnlyJob(w) /\ job'[w] = r
BY DEF PutJob, OnlyJob

\* PutRow writes one approval row and leaves the others.
LEMMA RowPut ==
  ASSUME approvals \in [ApprovalIds -> Rows], NEW a \in ApprovalIds,
         NEW row \in Rows, PutRow(a, row)
  PROVE  /\ approvals' \in [ApprovalIds -> Rows] /\ approvals'[a] = row
         /\ \A b \in ApprovalIds \ {a} : approvals'[b] = approvals[b]
BY DEF PutRow

\* Goto moves one request and changes nothing else about it.
LEMMA GotoJob ==
  ASSUME job \in [Workers -> Requests], NEW w \in Workers, NEW p \in Points,
         Goto(w, p)
  PROVE  /\ OnlyJob(w) /\ SameSubject(w) /\ SameResult(w) /\ job'[w].at = p
         /\ job'[w].step = job[w].step /\ job'[w].verdict = job[w].verdict
<1> DEFINE r == [job[w] EXCEPT !.at = p]
<1>1. /\ r \in Requests /\ r.at = p /\ r.appr = job[w].appr /\ r.task = job[w].task
      /\ r.consumed = job[w].consumed /\ r.seen = job[w].seen
      /\ r.step = job[w].step /\ r.verdict = job[w].verdict
  BY DEF Requests
<1>2. PutJob(w, r)
  BY DEF Goto
<1> HIDE DEF r
<1>3. OnlyJob(w) /\ job'[w] = r
  BY <1>1, <1>2, JobPut
<1> QED
  BY <1>1, <1>3 DEF SameSubject, SameResult

\* A request that has ended is forgotten.
LEMMA DoneJob ==
  ASSUME job \in [Workers -> Requests], NEW w \in Workers, Done(w)
  PROVE  OnlyJob(w) /\ job'[w] = NoRequest /\ job'[w].at = "idle"
<1>1. NoRequest \in Requests /\ NoRequest.at = "idle"
  BY DecisionsAssumption, PlanAssumption
     DEF NoRequest, Requests, Points, Decisions, TaskStatus
<1> QED
  BY <1>1, JobPut DEF Done


\* Rows keep their subject: a row that exists keeps its task, mode and step, and
\* only create_approval makes one.
RowsKept ==
  /\ approvals' \in [ApprovalIds -> Rows]
  /\ \A a \in ApprovalIds :
       IF Asked(a) THEN /\ approvals'[a].status # "absent"
                        /\ approvals'[a].task = approvals[a].task
                        /\ approvals'[a].mode = approvals[a].mode
                        /\ approvals'[a].step = approvals[a].step
       ELSE approvals'[a] = approvals[a]

\* A row is consumed by the last write of a resume that had consumed it or had
\* seen it consumed.
ResumedKept(w) ==
  \A a \in ApprovalIds : approvals'[a].resumed =>
    \/ approvals[a].resumed
    \/ /\ At(w, "payload_write") /\ a = job[w].appr
       /\ job[w].consumed \/ job[w].seen

\* A request arrives about an approval that exists.
Arrives(w) ==
  /\ At(w, "idle") /\ job'[w].appr \in ApprovalIds /\ Asked(job'[w].appr)
  /\ job'[w].task = approvals[job'[w].appr].task
  /\ ~job'[w].consumed /\ ~job'[w].seen

\* A bound request goes on, and may look at its row once more.
GoesOn(w) ==
  /\ job[w].at \in Bound /\ SameSubject(w)
  /\ job'[w].consumed => job[w].consumed
  /\ job'[w].seen => job[w].seen \/ approvals[job[w].appr].resumed

\* Where a request is that has not reached the plan, or is behind it.
AwayFromPlan == Bound \ {"rest", "task"}

\* What the steps that do not touch the plan have in common.
Walks(w) ==
  /\ OnlyJob(w) /\ RowsKept /\ ResumedKept(w)
  /\ \/ job'[w] = NoRequest
     \/ job'[w].at \in AwayFromPlan /\ (Arrives(w) \/ GoesOn(w))
  /\ \/ UNCHANGED tasks
     \/ At(w, "cancel_task") /\ UpdateTaskStatus(job[w].task, "cancelled")
  /\ UNCHANGED checkpoints
  /\ audited' \in [ApprovalIds -> SUBSET Decisions] /\ faults' \in 0..MaxFaults

\* A step that only ends its request or moves it on, and leaves the rows alone.
LEMMA Moving ==
  ASSUME WellFormed, NEW w \in Workers, UNCHANGED approvals,
         Done(w) \/ (job[w].at \in Bound /\ \E p \in AwayFromPlan : Goto(w, p))
  PROVE  /\ OnlyJob(w) /\ RowsKept /\ ResumedKept(w)
         /\ \/ job'[w] = NoRequest
            \/ job'[w].at \in AwayFromPlan /\ (Arrives(w) \/ GoesOn(w))
<1>1. job \in [Workers -> Requests] /\ approvals \in [ApprovalIds -> Rows]
  BY DEF WellFormed, TypeOK
<1>2. RowsKept /\ ResumedKept(w)
  BY <1>1 DEF RowsKept, ResumedKept, Asked
<1>3. CASE Done(w)
  BY <1>1, <1>2, <1>3, DoneJob
<1>4. ASSUME NEW p \in AwayFromPlan, Goto(w, p), job[w].at \in Bound
      PROVE  OnlyJob(w) /\ job'[w].at \in AwayFromPlan /\ GoesOn(w)
  <2>1. p \in Points
    BY DEF AwayFromPlan, Bound
  <2>2. OnlyJob(w) /\ SameSubject(w) /\ SameResult(w) /\ job'[w].at = p
    BY <1>1, <1>4, <2>1, GotoJob
  <2> QED
    BY <1>4, <2>2 DEF GoesOn, SameResult
<1> QED
  BY <1>2, <1>3, <1>4

\* One more fault stays within the bound.
LEMMA FaultBound == ASSUME TypeOK, Fault PROVE faults' \in 0..MaxFaults
BY DecisionsAssumption DEF TypeOK, Fault

\* The points of the decision handlers are bound and away from the plan.
LEMMA WalkPoints ==
  {"decide", "decide_select", "decide_write", "audit", "cancel_task",
   "cancel_checkpoint", "resume", "payload_read", "payload_write",
   "approved_step"} = AwayFromPlan
BY DEF AwayFromPlan, Bound, Points

\* DecideWrite and PayloadWrite change one row and keep its subject.
LEMMA RowWritten ==
  ASSUME WellFormed, NEW w \in Workers, job[w].at \in Bound,
         NEW d \in Decisions, NEW b \in BOOLEAN,
         \/ PutRow(job[w].appr, [approvals[job[w].appr] EXCEPT !.status = d])
         \/ PutRow(job[w].appr, [approvals[job[w].appr] EXCEPT !.resumed = b])
            /\ At(w, "payload_write") /\ (b => job[w].consumed \/ job[w].seen)
         \/ UNCHANGED approvals
  PROVE  RowsKept /\ ResumedKept(w)
<1> DEFINE a == job[w].appr
           decided == [approvals[a] EXCEPT !.status = d]
           merged == [approvals[a] EXCEPT !.resumed = b]
<1>1. /\ approvals \in [ApprovalIds -> Rows] /\ a \in ApprovalIds /\ Asked(a)
      /\ approvals[a] \in Rows
  BY DEF WellFormed, TypeOK, RequestOK
<1>2. /\ decided \in Rows /\ decided.status # "absent"
      /\ decided.task = approvals[a].task /\ decided.mode = approvals[a].mode
      /\ decided.step = approvals[a].step /\ decided.resumed = approvals[a].resumed
  BY <1>1 DEF Rows, RowStatus, Decisions
<1>3. /\ merged \in Rows /\ merged.status = approvals[a].status
      /\ merged.task = approvals[a].task /\ merged.mode = approvals[a].mode
      /\ merged.step = approvals[a].step /\ merged.resumed = b
  BY <1>1 DEF Rows
<1> HIDE DEF decided, merged
<1>4. CASE UNCHANGED approvals
  BY <1>1, <1>4 DEF RowsKept, ResumedKept, Asked
<1>5. CASE PutRow(a, decided)
  <2>1. /\ approvals' \in [ApprovalIds -> Rows] /\ approvals'[a] = decided
        /\ \A c \in ApprovalIds \ {a} : approvals'[c] = approvals[c]
    BY <1>1, <1>2, <1>5, RowPut
  <2> QED
    BY <1>1, <1>2, <2>1 DEF RowsKept, ResumedKept, Asked
<1>6. CASE /\ PutRow(a, merged) /\ At(w, "payload_write")
           /\ b => job[w].consumed \/ job[w].seen
  <2>1. /\ approvals' \in [ApprovalIds -> Rows] /\ approvals'[a] = merged
        /\ \A c \in ApprovalIds \ {a} : approvals'[c] = approvals[c]
    BY <1>1, <1>3, <1>6, RowPut
  <2> QED
    BY <1>1, <1>3, <1>6, <2>1 DEF RowsKept, ResumedKept, Asked
<1> QED
  BY <1>4, <1>5, <1>6 DEF decided, merged

\* The arrival of a request that decides or resumes.
LEMMA Arriving ==
  ASSUME WellFormed, NEW w \in Workers, DecisionRequests(w)
  PROVE  Walks(w)
<1> USE DecisionsAssumption, PlanAssumption
<1>a. job \in [Workers -> Requests] /\ approvals \in [ApprovalIds -> Rows]
  BY DEF WellFormed, TypeOK
<1>1. PICK a \in ApprovalIds, p \in {"decide", "resume"}, v \in Decisions :
        Request(w, a, p, v) /\ Asked(a)
  <2>1. PICK a \in ApprovalIds : Approve(w, a) \/ Reject(w, a) \/ ManualResume(w, a)
    BY DEF DecisionRequests
  <2>2. CASE Approve(w, a)
    <3>1. /\ Asked(a)
          /\ \E p \in {"decide", "resume"} : Request(w, a, p, "approved")
      BY <2>2 DEF Approve, Asked
    <3> QED
      BY <3>1 DEF Decisions
  <2>3. CASE Reject(w, a)
    BY <2>3 DEF Reject, Asked, Decisions
  <2>4. CASE ManualResume(w, a)
    BY <2>4 DEF ManualResume, Asked, Decisions
  <2> QED
    BY <2>1, <2>2, <2>3, <2>4
<1> DEFINE r == [NoRequest EXCEPT !.at = p, !.appr = a, !.verb = v,
                                  !.task = approvals[a].task]
<1>2. approvals[a].task \in Tasks
  BY <1>1 DEF WellFormed, RowOK
<1>3. /\ r \in Requests /\ r.at = p /\ r.appr = a /\ r.task = approvals[a].task
      /\ ~r.consumed /\ ~r.seen
  <2>1. NoRequest \in [at : Points, appr : ApprovalIds \cup {NoApproval},
                       task : {NoTask}, verb : Decisions, verdict : TaskStatus,
                       consumed : {FALSE}, seen : {FALSE}, step : {0}]
    BY DEF NoRequest, Points, Decisions, TaskStatus
  <2>2. p \in Points
    BY DEF Points
  <2>3. /\ r \in [at : Points, appr : ApprovalIds, task : Tasks,
                  verb : Decisions, verdict : TaskStatus, consumed : {FALSE},
                  seen : {FALSE}, step : {0}]
        /\ r.at = p /\ r.appr = a /\ r.task = approvals[a].task
    BY <1>2, <2>1, <2>2
  <2> HIDE DEF r
  <2>4. ~r.consumed /\ ~r.seen
    BY <2>3
  <2>5. r \in Requests
    BY <2>3, 0 \in 0..(Length + 1) DEF Requests
  <2> QED
    BY <2>3, <2>4, <2>5
<1>4. PutJob(w, r) /\ At(w, "idle") /\ UNCHANGED <<stores, faults>>
  BY <1>1 DEF Request
<1> HIDE DEF r
<1>5. OnlyJob(w) /\ job'[w] = r
  BY <1>3, <1>4, <1>a, JobPut
<1>6. Arrives(w) /\ job'[w].at \in AwayFromPlan
  BY <1>1, <1>3, <1>4, <1>5, WalkPoints DEF Arrives
<1>7. RowsKept /\ ResumedKept(w)
  BY <1>4, <1>a DEF RowsKept, ResumedKept, Asked, stores
<1> QED
  BY <1>4, <1>5, <1>6, <1>7 DEF Walks, stores, WellFormed, TypeOK

\* The handlers that decide, the entry into the resume and the end of it, and
\* the faults that cut a request short, all keep away from the plan.
LEMMA Walking ==
  ASSUME WellFormed, NEW w \in Workers,
         DecisionSteps(w) \/ DecisionFaults(w)
         \/ ResumeEntry(w, [multitool |-> "approved_step"])
  PROVE  Walks(w)
<1>a. TypeOK /\ job \in [Workers -> Requests] /\ approvals \in [ApprovalIds -> Rows]
  BY DEF WellFormed, TypeOK
<1>b. /\ audited \in [ApprovalIds -> SUBSET Decisions] /\ faults \in 0..MaxFaults
      /\ job[w].verb \in Decisions
  BY <1>a DEF TypeOK, Requests
<1>1. CASE DecideRead(w)
  <2>1. /\ At(w, "decide") /\ UNCHANGED <<stores, faults>>
        /\ Done(w) \/ Goto(w, "decide_select") \/ Goto(w, "decide_write")
    BY <1>1 DEF DecideRead
  <2> QED
    BY <1>b, <2>1, Moving, WalkPoints DEF Walks, stores, At, AwayFromPlan
<1>2. CASE DecideSelect(w)
  <2>1. /\ At(w, "decide_select") /\ UNCHANGED <<stores, faults>>
        /\ Done(w) \/ Goto(w, "decide_write")
    BY <1>2 DEF DecideSelect
  <2> QED
    BY <1>b, <2>1, Moving, WalkPoints DEF Walks, stores, At, AwayFromPlan
<1>3. CASE DecideWrite(w)
  <2>1. /\ At(w, "decide_write") /\ Goto(w, "audit")
        /\ UNCHANGED <<tasks, checkpoints, audited, faults>>
        /\ \/ PutRow(job[w].appr,
                     [approvals[job[w].appr] EXCEPT !.status = job[w].verb])
           \/ UNCHANGED approvals
    BY <1>3 DEF DecideWrite
  <2>2. job[w].at \in Bound /\ "audit" \in Points /\ "audit" \in AwayFromPlan
    BY <2>1, WalkPoints DEF At, Bound, Points
  <2>3. RowsKept /\ ResumedKept(w)
    BY <1>b, <2>1, <2>2, RowWritten
  <2>4. OnlyJob(w) /\ SameSubject(w) /\ SameResult(w) /\ job'[w].at = "audit"
    BY <1>a, <2>1, <2>2, GotoJob
  <2> QED
    BY <1>b, <2>1, <2>2, <2>3, <2>4 DEF Walks, GoesOn, SameResult
<1>4. CASE AuditDecision(w)
  <2>1. /\ At(w, "audit") /\ UNCHANGED <<approvals, tasks, checkpoints, faults>>
        /\ audited' = [audited EXCEPT ![job[w].appr] = @ \cup {job[w].verb}]
        /\ Done(w) \/ Goto(w, "cancel_task") \/ Goto(w, "resume")
    BY <1>4 DEF AuditDecision
  <2>2. audited' \in [ApprovalIds -> SUBSET Decisions]
    BY <1>b, <2>1
  <2> QED
    BY <1>b, <2>1, <2>2, Moving, WalkPoints DEF Walks, At, AwayFromPlan
<1>5. CASE CancelTask(w)
  <2>1. /\ At(w, "cancel_task") /\ UNCHANGED <<approvals, checkpoints, audited, faults>>
        /\ UpdateTaskStatus(job[w].task, "cancelled")
        /\ Goto(w, "cancel_checkpoint")
    BY <1>5 DEF CancelTask
  <2> QED
    BY <1>b, <2>1, Moving, WalkPoints DEF Walks, At, AwayFromPlan
<1>6. CASE CancelCheckpoint(w)
  <2>1. At(w, "cancel_checkpoint") /\ Done(w) /\ UNCHANGED <<approvals, tasks, audited, faults>>
    BY <1>6 DEF CancelCheckpoint
  <2>2. job[w].appr \in ApprovalIds /\ Asked(job[w].appr)
    BY <2>1 DEF WellFormed, RequestOK, At, Bound, Points
  <2>3. UNCHANGED checkpoints
    BY <1>6, <2>2 DEF CancelCheckpoint, WellFormed, RowOK
  <2> QED
    BY <1>b, <2>1, <2>3, Moving DEF Walks
<1>7. CASE PayloadRead(w)
  <2> DEFINE s == approvals[job[w].appr].resumed
             r == [job[w] EXCEPT !.at = "payload_write", !.seen = s]
  <2>1. At(w, "payload_read") /\ PutJob(w, r) /\ UNCHANGED <<stores, faults>>
    BY <1>7 DEF PayloadRead
  <2>2. job[w].at \in Bound /\ job[w].appr \in ApprovalIds
    BY <2>1 DEF WellFormed, RequestOK, At, Bound, Points
  <2>3. s \in BOOLEAN
    BY <1>a, <2>2 DEF Rows
  <2> HIDE DEF s
  <2>4. /\ r \in Requests /\ r.at = "payload_write" /\ r.appr = job[w].appr
        /\ r.task = job[w].task /\ r.consumed = job[w].consumed /\ r.seen = s
    BY <1>a, <2>3 DEF Requests, Points
  <2> HIDE DEF r
  <2>5. OnlyJob(w) /\ job'[w] = r
    BY <1>a, <2>1, <2>4, JobPut
  <2>6. GoesOn(w)
    BY <2>2, <2>4, <2>5 DEF GoesOn, SameSubject, s
  <2>7. RowsKept /\ ResumedKept(w)
    BY <1>a, <2>1 DEF RowsKept, ResumedKept, Asked, stores
  <2> QED
    BY <1>b, <2>1, <2>4, <2>5, <2>6, <2>7, WalkPoints DEF Walks, stores
<1>8. CASE PayloadWrite(w)
  <2> DEFINE s == job[w].consumed \/ job[w].seen
  <2>1. /\ At(w, "payload_write") /\ Done(w)
        /\ PutRow(job[w].appr, [approvals[job[w].appr] EXCEPT !.resumed = s])
        /\ UNCHANGED <<tasks, checkpoints, audited, faults>>
    BY <1>8 DEF PayloadWrite
  <2>2. job[w].at \in Bound /\ s \in BOOLEAN
    BY <2>1 DEF At, Bound, Points
  <2>3. RowsKept /\ ResumedKept(w)
    BY <1>b, <2>1, <2>2, RowWritten
  <2>4. OnlyJob(w) /\ job'[w] = NoRequest
    BY <1>a, <2>1, DoneJob
  <2> QED
    BY <1>b, <2>1, <2>3, <2>4 DEF Walks
<1>9. CASE CancelTaskFault(w)
  <2>1. /\ At(w, "cancel_task") /\ UNCHANGED stores /\ Fault
        /\ Goto(w, "cancel_checkpoint")
    BY <1>9 DEF CancelTaskFault
  <2>2. faults' \in 0..MaxFaults
    BY <1>a, <2>1, FaultBound
  <2> QED
    BY <1>b, <2>1, <2>2, Moving, WalkPoints DEF Walks, At, stores, AwayFromPlan
<1>10. CASE Abort(w)
  <2>1. Done(w) /\ UNCHANGED stores /\ Fault
    BY <1>10 DEF Abort
  <2>2. faults' \in 0..MaxFaults
    BY <1>a, <2>1, FaultBound
  <2> QED
    BY <1>b, <2>1, <2>2, Moving DEF Walks, stores
<1>11. CASE ResumeEntry(w, [multitool |-> "approved_step"])
  <2>1. At(w, "resume") /\ UNCHANGED <<stores, faults>>
    BY <1>11 DEF ResumeEntry
  <2>2. approvals[job[w].appr].mode = "multitool"
    BY <2>1 DEF WellFormed, RequestOK, RowOK, At, Bound, Points
  <2>3. Done(w) \/ Goto(w, "approved_step")
    BY <1>11, <2>2 DEF ResumeEntry
  <2> QED
    BY <1>b, <2>1, <2>3, Moving, WalkPoints DEF Walks, At, stores, AwayFromPlan
<1> QED
  BY <1>1, <1>2, <1>3, <1>4, <1>5, <1>6, <1>7, <1>8, <1>9, <1>10, <1>11
     DEF DecisionSteps, DecisionFaults

-----------------------------------------------------------------------------
(* The steps that work through the plan.                                   *)

\* Step k of t has succeeded, and runs says nothing else that is new.
NowRan(t, k) ==
  /\ runs' \in [Tasks -> [1..Length -> 0..Many]]
  /\ \A u \in Tasks, j \in 1..Length :
       Ran(u, j)' <=> Ran(u, j) \/ (u = t /\ j = k)

\* Row a is a new one for step k of t.
NewRow(a, t, k) ==
  /\ a \in ApprovalIds /\ ~Asked(a)
  /\ approvals' \in [ApprovalIds -> Rows]
  /\ approvals'[a].status = "pending" /\ approvals'[a].task = t
  /\ approvals'[a].mode = "multitool" /\ approvals'[a].step = k
  /\ ~approvals'[a].resumed
  /\ \A b \in ApprovalIds \ {a} : approvals'[b] = approvals[b]

\* Count stays within the range of a history, and above zero.
LEMMA Counted == \A i \in 0..Many : Count(i) \in 0..Many /\ Count(i) > 0
BY DEF Count, Many

\* Behind a step of the plan is another one or the end of the plan.
LEMMA NextStep == \A k \in 1..Length : k \in 0..Length /\ k + 1 \in 0..(Length + 1)
                                       /\ k + 1 \in 1..(Length + 1)
BY PlanAssumption

\* A call that succeeds counts once.
LEMMA CallRuns ==
  ASSUME WellFormed, NEW t \in Tasks, NEW k \in 1..Length, Called(t, k, TRUE)
  PROVE  NowRan(t, k)
<1>1. runs \in [Tasks -> [1..Length -> 0..Many]]
  BY DEF WellFormed, TypeOK
<1>2. runs[t][k] \in 0..Many /\ Count(runs[t][k]) \in 0..Many /\ Count(runs[t][k]) > 0
  BY <1>1, Counted
<1>3. runs' = [runs EXCEPT ![t][k] = Count(runs[t][k])]
  BY DEF Called
<1>4. runs' \in [Tasks -> [1..Length -> 0..Many]]
  BY <1>1, <1>2, <1>3
<1>5. \A u \in Tasks, j \in 1..Length :
        runs'[u][j] = IF u = t /\ j = k THEN Count(runs[t][k]) ELSE runs[u][j]
  BY <1>1, <1>3
<1> QED
  BY <1>2, <1>4, <1>5 DEF NowRan, Ran

\* create_approval makes a row for a high-risk step of a task.
LEMMA Creates ==
  ASSUME WellFormed, NEW a \in ApprovalIds, NEW t \in Tasks, NEW k \in HighRisk,
         CreateApproval(a, t, "multitool", k)
  PROVE  NewRow(a, t, k)
<1> DEFINE row == [status |-> "pending", task |-> t, mode |-> "multitool",
                   step |-> k, resumed |-> FALSE]
<1>1. k \in 0..Length
  BY PlanAssumption
<1>2. row \in Rows /\ row.status = "pending" /\ row.task = t
      /\ row.mode = "multitool" /\ row.step = k /\ ~row.resumed
  BY <1>1 DEF Rows, RowStatus
<1>3. PutRow(a, row) /\ ~Asked(a) /\ approvals \in [ApprovalIds -> Rows]
  BY DEF CreateApproval, Asked, WellFormed, TypeOK
<1> HIDE DEF row
<1>4. /\ approvals' \in [ApprovalIds -> Rows] /\ approvals'[a] = row
      /\ \A b \in ApprovalIds \ {a} : approvals'[b] = approvals[b]
  BY <1>2, <1>3, RowPut
<1> QED
  BY <1>2, <1>3, <1>4 DEF NewRow

\* Every status the kernel may report is one a task may have.
LEMMA Verdicts ==
  ASSUME NEW t \in Tasks
  PROVE  AfterFailure(t) \subseteq {"completed", "failed"}
         /\ AfterBlock(t) \subseteq {"completed", "failed", "waiting_approval"}
         /\ {"completed", "failed", "waiting_approval"} \subseteq TaskStatus
BY DEF AfterFailure, AfterBlock, TaskStatus

\* A task's request starts at the first step of its plan.
LEMMA CreateTaskDoes ==
  ASSUME WellFormed, NEW w \in Workers, NEW t \in Tasks, CreateTask(w, t)
  PROVE  /\ At(w, "idle") /\ OnlyJob(w)
         /\ job'[w].at = "plan" /\ job'[w].task = t /\ job'[w].step = 1
<1> DEFINE r == [NoRequest EXCEPT !.at = "plan", !.task = t, !.step = 1]
<1>1. PutJob(w, r) /\ At(w, "idle")
  BY DEF CreateTask
<1>2. 1 \in 0..(Length + 1)
  BY PlanAssumption
<1>3. r \in Requests /\ r.at = "plan" /\ r.task = t /\ r.step = 1
  BY <1>2 DEF NoRequest, Requests, Points, Decisions, TaskStatus
<1> HIDE DEF r
<1> QED
  BY <1>1, <1>3, JobPut DEF WellFormed, TypeOK

\* A plan goes one step on, or its task is saved as one that has not succeeded.
LEMMA PlanCallDoes ==
  ASSUME WellFormed, NEW w \in Workers, PlanCall(w)
  PROVE  /\ At(w, "plan") /\ Here(w) \in 1..Length \ HighRisk
         /\ OnlyJob(w) /\ SameSubject(w) /\ job[w].task \in Tasks
         /\ \/ /\ job'[w].at = "plan" /\ job'[w].step = Here(w) + 1
               /\ NowRan(job[w].task, Here(w))
            \/ /\ job'[w].at = "save" /\ UNCHANGED runs
               /\ job'[w].verdict \in AfterFailure(job[w].task)
<1> DEFINE on == [job[w] EXCEPT !.step = Here(w) + 1]
           off(v) == [job[w] EXCEPT !.at = "save", !.verdict = v]
<1>1. /\ job \in [Workers -> Requests] /\ job[w] \in Requests
      /\ job[w].task \in Tasks /\ At(w, "plan")
      /\ Here(w) \in 1..Length \ HighRisk /\ Here(w) + 1 \in 0..(Length + 1)
  <2>1. Here(w) \in 1..Length \ HighRisk
    BY DEF PlanCall, Callable, InPlan
  <2> QED
    BY <2>1, NextStep DEF PlanCall, WellFormed, TypeOK, RequestOK, At
<1>2. CASE Called(job[w].task, Here(w), TRUE) /\ PutJob(w, on)
  <2>1. /\ on \in Requests /\ on.at = "plan" /\ on.step = Here(w) + 1
        /\ on.appr = job[w].appr /\ on.task = job[w].task
    BY <1>1 DEF Requests, At
  <2> HIDE DEF on
  <2>2. OnlyJob(w) /\ job'[w] = on
    BY <1>1, <1>2, <2>1, JobPut
  <2>3. NowRan(job[w].task, Here(w))
    BY <1>1, <1>2, CallRuns
  <2> QED
    BY <1>1, <2>1, <2>2, <2>3 DEF SameSubject
<1>3. ASSUME NEW v \in AfterFailure(job[w].task),
             Called(job[w].task, Here(w), FALSE), PutJob(w, off(v))
      PROVE  /\ OnlyJob(w) /\ SameSubject(w) /\ UNCHANGED runs
             /\ job'[w].at = "save" /\ job'[w].verdict = v
  <2>1. v \in TaskStatus /\ "save" \in Points
    BY <1>1, Verdicts DEF Points
  <2>2. /\ off(v) \in Requests /\ off(v).at = "save" /\ off(v).verdict = v
        /\ off(v).appr = job[w].appr /\ off(v).task = job[w].task
    BY <1>1, <2>1 DEF Requests
  <2> HIDE DEF off
  <2>3. OnlyJob(w) /\ job'[w] = off(v)
    BY <1>1, <1>3, <2>2, JobPut
  <2> QED
    BY <1>3, <2>2, <2>3 DEF SameSubject, Called
<1>4. \/ Called(job[w].task, Here(w), TRUE) /\ PutJob(w, on)
      \/ /\ Called(job[w].task, Here(w), FALSE)
         /\ \E v \in AfterFailure(job[w].task) : PutJob(w, off(v))
  BY DEF PlanCall
<1> HIDE DEF on, off
<1> QED
  BY <1>1, <1>2, <1>3, <1>4

\* A plan stops at a high-risk step and has its approval created.
LEMMA PlanBlockDoes ==
  ASSUME WellFormed, NEW w \in Workers, PlanBlock(w)
  PROVE  /\ At(w, "plan") /\ Here(w) \in HighRisk /\ job[w].task \in Tasks
         /\ OnlyJob(w) /\ job'[w].task = job[w].task /\ job'[w].at = "save"
         /\ job'[w].verdict \in AfterBlock(job[w].task)
         /\ \E a \in ApprovalIds : /\ NewRow(a, job[w].task, Here(w))
                                   /\ job'[w].appr = a
<1> DEFINE r(a, v) == [job[w] EXCEPT !.at = "save", !.appr = a, !.verdict = v]
<1>1. /\ job \in [Workers -> Requests] /\ job[w] \in Requests
      /\ job[w].task \in Tasks /\ At(w, "plan") /\ Here(w) \in HighRisk
  BY DEF PlanBlock, Blocked, WellFormed, TypeOK, RequestOK, At
<1>2. PICK a \in ApprovalIds, v \in AfterBlock(job[w].task) :
        CreateApproval(a, job[w].task, "multitool", Here(w)) /\ PutJob(w, r(a, v))
  BY DEF PlanBlock
<1>3. v \in TaskStatus /\ "save" \in Points
  BY <1>1, <1>2, Verdicts DEF Points
<1>4. /\ r(a, v) \in Requests /\ r(a, v).at = "save" /\ r(a, v).verdict = v
      /\ r(a, v).appr = a /\ r(a, v).task = job[w].task
  BY <1>1, <1>3 DEF Requests
<1> HIDE DEF r
<1>5. OnlyJob(w) /\ job'[w] = r(a, v)
  BY <1>1, <1>2, <1>4, JobPut
<1>6. NewRow(a, job[w].task, Here(w))
  BY <1>1, <1>2, Creates
<1> QED
  BY <1>1, <1>4, <1>5, <1>6

\* A plan that can go no further has its task saved.
LEMMA PlanStopDoes ==
  ASSUME WellFormed, NEW w \in Workers, PlanOver(w) \/ PlanFault(w)
  PROVE  /\ At(w, "plan") /\ OnlyJob(w) /\ SameSubject(w) /\ job[w].task \in Tasks
         /\ job'[w].at = "save" /\ job'[w].verdict \in {"completed", "failed"}
         /\ UNCHANGED <<stores, history>> /\ faults' \in 0..MaxFaults
<1> DEFINE r(v) == [job[w] EXCEPT !.at = "save", !.verdict = v]
<1>1. /\ job \in [Workers -> Requests] /\ job[w] \in Requests
      /\ job[w].task \in Tasks /\ At(w, "plan") /\ TypeOK /\ faults \in 0..MaxFaults
  BY DEF PlanOver, PlanFault, WellFormed, TypeOK, RequestOK, At
<1>2. PICK v \in AfterFailure(job[w].task) \cup {"completed"} : PutJob(w, r(v))
  BY DEF PlanOver, PlanFault
<1>3. v \in {"completed", "failed"} /\ v \in TaskStatus /\ "save" \in Points
  BY <1>1, <1>2, Verdicts DEF Points, TaskStatus
<1>4. /\ r(v) \in Requests /\ r(v).at = "save" /\ r(v).verdict = v
      /\ r(v).appr = job[w].appr /\ r(v).task = job[w].task
  BY <1>1, <1>3 DEF Requests
<1> HIDE DEF r
<1>5. OnlyJob(w) /\ job'[w] = r(v)
  BY <1>1, <1>2, <1>4, JobPut
<1>6. UNCHANGED <<stores, history>> /\ faults' \in 0..MaxFaults
  BY <1>1, FaultBound DEF PlanOver, PlanFault
<1> QED
  BY <1>1, <1>3, <1>4, <1>5, <1>6 DEF SameSubject

\* Arguments that cannot be resolved end the resume with nothing consumed.
LEMMA UnresolvedDoes ==
  ASSUME WellFormed, NEW w \in Workers, ApprovedStepUnresolved(w)
  PROVE  /\ At(w, "approved_step") /\ OnlyJob(w) /\ SameSubject(w)
         /\ job'[w].at = "payload_read" /\ ~job'[w].consumed
         /\ job'[w].seen = job[w].seen
<1> DEFINE r == [job[w] EXCEPT !.at = "payload_read", !.consumed = FALSE]
<1>1. job \in [Workers -> Requests] /\ job[w] \in Requests
  BY DEF WellFormed, TypeOK
<1>2. At(w, "approved_step") /\ PutJob(w, r)
  BY DEF ApprovedStepUnresolved
<1>3. /\ r \in Requests /\ r.at = "payload_read" /\ r.appr = job[w].appr
      /\ r.task = job[w].task /\ ~r.consumed /\ r.seen = job[w].seen
  BY <1>1 DEF Requests, Points
<1> HIDE DEF r
<1>4. OnlyJob(w) /\ job'[w] = r
  BY <1>1, <1>2, <1>3, JobPut
<1> QED
  BY <1>2, <1>3, <1>4 DEF SameSubject

\* The approved step succeeds and consumes its approval, or fails the task.
LEMMA ApprovedStepDoes ==
  ASSUME WellFormed, NEW w \in Workers, ApprovedStep(w)
  PROVE  /\ At(w, "approved_step") /\ OnlyJob(w) /\ SameSubject(w)
         /\ LET k == approvals[job[w].appr].step IN
            \/ /\ job'[w].at = "rest" /\ job'[w].step = k + 1
               /\ job'[w].consumed /\ job'[w].seen = job[w].seen
               /\ NowRan(job[w].task, k)
            \/ /\ job'[w].at = "task" /\ job'[w].verdict = "failed"
               /\ ~job'[w].consumed /\ job'[w].seen = job[w].seen
               /\ UNCHANGED runs
<1> DEFINE k == approvals[job[w].appr].step
           on == [job[w] EXCEPT !.at = "rest", !.step = k + 1, !.consumed = TRUE]
           off == [job[w] EXCEPT !.at = "task", !.verdict = "failed",
                                 !.consumed = FALSE]
<1>1. /\ job \in [Workers -> Requests] /\ job[w] \in Requests
      /\ At(w, "approved_step") /\ job[w].at \in Bound
  BY DEF ApprovedStep, WellFormed, TypeOK, At, Bound, Points
<1>2. job[w].task \in Tasks /\ k \in 1..Length /\ k + 1 \in 0..(Length + 1)
  <2>1. job[w].task \in Tasks /\ k \in HighRisk
    BY <1>1 DEF WellFormed, RequestOK, RowOK, At
  <2> QED
    BY <2>1, PlanAssumption, NextStep
<1>3. \/ Called(job[w].task, k, TRUE) /\ PutJob(w, on)
      \/ Called(job[w].task, k, FALSE) /\ PutJob(w, off)
  BY DEF ApprovedStep
<1> HIDE DEF k
<1>4. CASE Called(job[w].task, k, TRUE) /\ PutJob(w, on)
  <2>1. /\ on \in Requests /\ on.at = "rest" /\ on.step = k + 1
        /\ on.appr = job[w].appr /\ on.task = job[w].task
        /\ on.consumed /\ on.seen = job[w].seen
    BY <1>1, <1>2 DEF Requests, Points
  <2> HIDE DEF on
  <2>2. OnlyJob(w) /\ job'[w] = on
    BY <1>1, <1>4, <2>1, JobPut
  <2>3. NowRan(job[w].task, k)
    BY <1>2, <1>4, CallRuns
  <2> QED
    BY <1>1, <2>1, <2>2, <2>3 DEF SameSubject, k
<1>5. CASE Called(job[w].task, k, FALSE) /\ PutJob(w, off)
  <2>1. /\ off \in Requests /\ off.at = "task" /\ off.verdict = "failed"
        /\ off.appr = job[w].appr /\ off.task = job[w].task
        /\ ~off.consumed /\ off.seen = job[w].seen
    BY <1>1 DEF Requests, Points, TaskStatus
  <2> HIDE DEF off
  <2>2. OnlyJob(w) /\ job'[w] = off
    BY <1>1, <1>5, <2>1, JobPut
  <2> QED
    BY <1>1, <1>5, <2>1, <2>2 DEF SameSubject, Called
<1> HIDE DEF on, off
<1> QED
  BY <1>3, <1>4, <1>5

\* The rest goes one step on, or fails the task.
LEMMA RestCallDoes ==
  ASSUME WellFormed, NEW w \in Workers, RestCall(w)
  PROVE  /\ At(w, "rest") /\ Here(w) \in 1..Length \ HighRisk
         /\ OnlyJob(w) /\ SameSubject(w) /\ SameResult(w)
         /\ \/ /\ job'[w].at = "rest" /\ job'[w].step = Here(w) + 1
               /\ NowRan(job[w].task, Here(w))
            \/ /\ job'[w].at = "task" /\ job'[w].verdict = "failed"
               /\ UNCHANGED runs
<1> DEFINE on == [job[w] EXCEPT !.step = Here(w) + 1]
           off == [job[w] EXCEPT !.at = "task", !.verdict = "failed"]
<1>1. /\ job \in [Workers -> Requests] /\ job[w] \in Requests
      /\ job[w].task \in Tasks /\ At(w, "rest")
      /\ Here(w) \in 1..Length \ HighRisk /\ Here(w) + 1 \in 0..(Length + 1)
  <2>1. Here(w) \in 1..Length \ HighRisk
    BY DEF RestCall, Callable, InPlan
  <2> QED
    BY <2>1, NextStep DEF RestCall, WellFormed, TypeOK, RequestOK, At
<1>2. CASE Called(job[w].task, Here(w), TRUE) /\ PutJob(w, on)
  <2>1. /\ on \in Requests /\ on.at = "rest" /\ on.step = Here(w) + 1
        /\ on.appr = job[w].appr /\ on.task = job[w].task
        /\ on.consumed = job[w].consumed /\ on.seen = job[w].seen
    BY <1>1 DEF Requests, At
  <2> HIDE DEF on
  <2>2. OnlyJob(w) /\ job'[w] = on
    BY <1>1, <1>2, <2>1, JobPut
  <2>3. NowRan(job[w].task, Here(w))
    BY <1>1, <1>2, CallRuns
  <2> QED
    BY <1>1, <2>1, <2>2, <2>3 DEF SameSubject, SameResult
<1>3. CASE Called(job[w].task, Here(w), FALSE) /\ PutJob(w, off)
  <2>1. /\ off \in Requests /\ off.at = "task" /\ off.verdict = "failed"
        /\ off.appr = job[w].appr /\ off.task = job[w].task
        /\ off.consumed = job[w].consumed /\ off.seen = job[w].seen
    BY <1>1 DEF Requests, Points, TaskStatus
  <2> HIDE DEF off
  <2>2. OnlyJob(w) /\ job'[w] = off
    BY <1>1, <1>3, <2>1, JobPut
  <2> QED
    BY <1>1, <1>3, <2>1, <2>2 DEF SameSubject, SameResult, Called
<1>4. \/ Called(job[w].task, Here(w), TRUE) /\ PutJob(w, on)
      \/ Called(job[w].task, Here(w), FALSE) /\ PutJob(w, off)
  BY DEF RestCall
<1> HIDE DEF on, off
<1> QED
  BY <1>2, <1>3, <1>4

\* The rest ends at the next high-risk step, with a new approval.
LEMMA RestBlockDoes ==
  ASSUME WellFormed, NEW w \in Workers, RestBlock(w)
  PROVE  /\ At(w, "rest") /\ Here(w) \in HighRisk
         /\ OnlyJob(w) /\ SameSubject(w) /\ SameResult(w)
         /\ job'[w].at = "task" /\ job'[w].verdict = "waiting_approval"
         /\ \E a \in ApprovalIds : NewRow(a, job[w].task, Here(w))
<1> DEFINE r == [job[w] EXCEPT !.at = "task", !.verdict = "waiting_approval"]
<1>1. /\ job \in [Workers -> Requests] /\ job[w] \in Requests
      /\ job[w].task \in Tasks /\ At(w, "rest") /\ Here(w) \in HighRisk
  BY DEF RestBlock, Blocked, WellFormed, TypeOK, RequestOK, At
<1>2. \E a \in ApprovalIds : NewRow(a, job[w].task, Here(w))
  BY <1>1, Creates DEF RestBlock
<1>3. PutJob(w, r)
  BY DEF RestBlock
<1>4. /\ r \in Requests /\ r.at = "task" /\ r.verdict = "waiting_approval"
      /\ r.appr = job[w].appr /\ r.task = job[w].task
      /\ r.consumed = job[w].consumed /\ r.seen = job[w].seen
  BY <1>1 DEF Requests, Points, TaskStatus
<1> HIDE DEF r
<1>5. OnlyJob(w) /\ job'[w] = r
  BY <1>1, <1>3, <1>4, JobPut
<1> QED
  BY <1>1, <1>2, <1>4, <1>5 DEF SameSubject, SameResult

\* The rest ends where no tool can be called, completed only at its end.
LEMMA RestOverDoes ==
  ASSUME WellFormed, NEW w \in Workers, RestOver(w)
  PROVE  /\ At(w, "rest") /\ OnlyJob(w) /\ SameSubject(w) /\ SameResult(w)
         /\ job'[w].at = "task"
         /\ job'[w].verdict = IF InPlan(w) THEN "failed" ELSE "completed"
<1> DEFINE v == IF InPlan(w) THEN "failed" ELSE "completed"
           r == [job[w] EXCEPT !.at = "task", !.verdict = v]
<1>1. job \in [Workers -> Requests] /\ job[w] \in Requests /\ At(w, "rest")
  BY DEF RestOver, WellFormed, TypeOK
<1>2. PutJob(w, r) /\ v \in TaskStatus
  BY DEF RestOver, TaskStatus
<1> HIDE DEF v
<1>3. /\ r \in Requests /\ r.at = "task" /\ r.verdict = v
      /\ r.appr = job[w].appr /\ r.task = job[w].task
      /\ r.consumed = job[w].consumed /\ r.seen = job[w].seen
  BY <1>1, <1>2 DEF Requests, Points
<1> HIDE DEF r
<1>4. OnlyJob(w) /\ job'[w] = r
  BY <1>1, <1>2, <1>3, JobPut
<1> QED
  BY <1>1, <1>3, <1>4 DEF SameSubject, SameResult, v

-----------------------------------------------------------------------------
(* WellFormed is inductive.                                                *)

\* A row that exists stays, with its task, mode and step.
RowsStay ==
  \A a \in ApprovalIds : Asked(a) =>
    /\ approvals'[a].status # "absent"
    /\ approvals'[a].task = approvals[a].task
    /\ approvals'[a].mode = approvals[a].mode
    /\ approvals'[a].step = approvals[a].step

\* What a step may do to the rows: change what a decision or a resume says of
\* one, or add one for a high-risk step.
LEMMA RowsOK ==
  ASSUME WellFormed,
         \/ RowsKept
         \/ UNCHANGED approvals
         \/ \E a \in ApprovalIds, t \in Tasks, k \in HighRisk : NewRow(a, t, k)
  PROVE  /\ RowsStay /\ approvals' \in [ApprovalIds -> Rows]
         /\ \A a \in ApprovalIds : RowOK(a)'
<1>a. approvals \in [ApprovalIds -> Rows] /\ \A a \in ApprovalIds : RowOK(a)
  BY DEF WellFormed, TypeOK
<1>1. CASE RowsKept
  BY <1>a, <1>1 DEF RowsKept, RowsStay, RowOK, Asked, NoRow
<1>2. CASE UNCHANGED approvals
  BY <1>a, <1>2 DEF RowsStay, RowOK, Asked
<1>3. ASSUME NEW a \in ApprovalIds, NEW t \in Tasks, NEW k \in HighRisk,
             NewRow(a, t, k)
      PROVE  /\ RowsStay /\ approvals' \in [ApprovalIds -> Rows]
             /\ \A b \in ApprovalIds : RowOK(b)'
  BY <1>a, <1>3 DEF NewRow, RowsStay, RowOK, Asked
<1> QED
  BY <1>1, <1>2, <1>3

\* The types of what is no row and no request.
RestTyped ==
  /\ tasks' \in [Tasks -> TaskStatus]
  /\ checkpoints' = [t \in Tasks |-> NoCheckpoint]
  /\ audited' \in [ApprovalIds -> SUBSET Decisions]
  /\ faults' \in 0..MaxFaults
  /\ created' \subseteq Tasks
  /\ runs' \in [Tasks -> [1..Length -> 0..Many]]

\* A step of one worker keeps the state well formed when it keeps its own
\* request and the rows so.
LEMMA StepOfOne ==
  ASSUME WellFormed, NEW w \in Workers, OnlyJob(w), RestTyped,
         \/ RowsKept
         \/ UNCHANGED approvals
         \/ \E a \in ApprovalIds, t \in Tasks, k \in HighRisk : NewRow(a, t, k),
         RequestOK(w)'
  PROVE  WellFormed' /\ RowsStay
<1>1. /\ RowsStay /\ approvals' \in [ApprovalIds -> Rows]
      /\ \A a \in ApprovalIds : RowOK(a)'
  BY RowsOK
<1>2. TypeOK'
  BY <1>1 DEF OnlyJob, RestTyped, TypeOK
<1>3. ASSUME NEW v \in Workers \ {w} PROVE RequestOK(v)'
  BY <1>1 DEF WellFormed, RequestOK, OnlyJob, At, Bound, RowsStay, Asked
<1> QED
  BY <1>1, <1>2, <1>3 DEF WellFormed

\* A request about the same task and a row that stays is as well formed as
\* before, at any point away from the steps of the plan.
LEMMA SameRequestOK ==
  ASSUME WellFormed, NEW w \in Workers, job[w].at \in Bound, SameSubject(w),
         RowsStay, job'[w].at \notin {"plan", "rest"} \/ job'[w].step \in 1..(Length + 1)
  PROVE  RequestOK(w)'
<1>1. /\ job[w].task \in Tasks /\ job[w].appr \in ApprovalIds
      /\ Asked(job[w].appr) /\ approvals[job[w].appr].task = job[w].task
  BY DEF WellFormed, RequestOK, At, Bound
<1> QED
  BY <1>1 DEF SameSubject, RowsStay, RequestOK, Asked, At

\* A task's status stays a status.
LEMMA TaskUpdated ==
  ASSUME TypeOK, NEW t \in Tasks, NEW s \in TaskStatus,
         UpdateTaskStatus(t, s) \/ SaveTask(t, s)
  PROVE  tasks' \in [Tasks -> TaskStatus]
BY DEF TypeOK, UpdateTaskStatus, SaveTask

\* A step that writes no history and saves no plan keeps states well formed.
LEMMA WalksWellFormed ==
  ASSUME WellFormed, NEW w \in Workers, Walks(w), UNCHANGED history
  PROVE  WellFormed' /\ RowsStay
<1>1. OnlyJob(w) /\ RowsKept /\ TypeOK
  BY DEF Walks, WellFormed
<1>2. RowsStay
  BY <1>1, RowsOK
<1>3. tasks' \in [Tasks -> TaskStatus]
  <2>1. CASE UNCHANGED tasks
    BY <1>1, <2>1 DEF TypeOK
  <2>2. CASE At(w, "cancel_task") /\ UpdateTaskStatus(job[w].task, "cancelled")
    <3>1. job[w].task \in Tasks /\ "cancelled" \in TaskStatus
      BY <2>2 DEF WellFormed, RequestOK, At, TaskStatus
    <3> QED
      BY <1>1, <2>2, <3>1, TaskUpdated
  <2> QED
    BY <2>1, <2>2 DEF Walks
<1>4. RestTyped
  BY <1>1, <1>3 DEF Walks, RestTyped, TypeOK, history
<1>5. RequestOK(w)'
  <2>1. CASE job'[w] = NoRequest
    BY <2>1 DEF RequestOK, At, NoRequest, Bound
  <2>2. CASE job'[w].at \in AwayFromPlan /\ Arrives(w)
    <3>1. job'[w].task \in Tasks
      BY <2>2 DEF Arrives, WellFormed, RowOK
    <3> QED
      BY <1>2, <2>2, <3>1 DEF Arrives, RequestOK, At, Bound, AwayFromPlan, RowsStay, Asked
  <2>3. CASE job'[w].at \in AwayFromPlan /\ GoesOn(w)
    BY <1>2, <2>3, SameRequestOK DEF GoesOn, AwayFromPlan, Bound
  <2> QED
    BY <2>1, <2>2, <2>3 DEF Walks
<1> QED
  BY <1>1, <1>4, <1>5, StepOfOne

\* The steps that touch the plan keep the state well formed.
LEMMA PlanWellFormed ==
  ASSUME WellFormed, NEW w \in Workers,
         \/ \E t \in Tasks : CreateTask(w, t)
         \/ CreateSteps(w) \/ PlanFault(w)
         \/ ApprovedStepUnresolved(w) \/ ApprovedStep(w)
         \/ RestCall(w) \/ RestBlock(w) \/ RestOver(w) \/ UpdateTask(w)
  PROVE  WellFormed' /\ RowsStay
<1>a. TypeOK /\ job \in [Workers -> Requests]
  BY DEF WellFormed, TypeOK
<1>1. ASSUME NEW t \in Tasks, CreateTask(w, t) PROVE WellFormed' /\ RowsStay
  <2>1. RequestOK(w)'
    BY <1>1, CreateTaskDoes, PlanAssumption DEF RequestOK, At, Bound
  <2>2. RestTyped
    BY <1>1, <1>a DEF CreateTask, stores, RestTyped, TypeOK
  <2> QED
    BY <1>1, <2>1, <2>2, CreateTaskDoes, StepOfOne DEF CreateTask, stores
<1>2. CASE PlanCall(w)
  <2>1. RequestOK(w)'
    BY <1>2, PlanCallDoes, NextStep DEF RequestOK, At, Bound, SameSubject
  <2>2. RestTyped
    BY <1>2, <1>a, PlanCallDoes DEF PlanCall, stores, NowRan, RestTyped, TypeOK
  <2> QED
    BY <1>2, <2>1, <2>2, PlanCallDoes, StepOfOne DEF PlanCall, stores
<1>3. CASE PlanBlock(w)
  <2>1. RequestOK(w)'
    BY <1>3, PlanBlockDoes DEF RequestOK, At, Bound
  <2>2. RestTyped
    BY <1>3, <1>a DEF PlanBlock, history, RestTyped, TypeOK
  <2> QED
    BY <1>3, <2>1, <2>2, PlanBlockDoes, StepOfOne
<1>4. CASE PlanOver(w) \/ PlanFault(w)
  <2>1. RequestOK(w)'
    BY <1>4, PlanStopDoes DEF RequestOK, At, Bound, SameSubject
  <2>2. RestTyped
    BY <1>4, <1>a, PlanStopDoes DEF stores, history, RestTyped, TypeOK
  <2> QED
    BY <1>4, <2>1, <2>2, PlanStopDoes, StepOfOne DEF stores
<1>5. CASE Save(w)
  <2>1. OnlyJob(w) /\ job'[w] = NoRequest
    BY <1>5, <1>a, DoneJob DEF Save
  <2>2. RequestOK(w)'
    BY <2>1 DEF RequestOK, At, NoRequest, Bound
  <2>3. job[w].task \in Tasks /\ job[w].verdict \in TaskStatus
    BY <1>5, <1>a DEF Save, At, WellFormed, RequestOK, Requests
  <2>4. RestTyped
    BY <1>5, <1>a, <2>3, TaskUpdated DEF Save, history, RestTyped, TypeOK
  <2> QED
    BY <1>5, <2>1, <2>2, <2>4, StepOfOne DEF Save
<1>6. CASE ApprovedStepUnresolved(w)
  <2>1. RowsStay /\ RestTyped
    BY <1>6, <1>a DEF ApprovedStepUnresolved, stores, history, RestTyped, RowsStay,
       Asked, TypeOK
  <2>2. RequestOK(w)'
    BY <1>6, <2>1, UnresolvedDoes, SameRequestOK DEF At, Bound, Points
  <2> QED
    BY <1>6, <2>1, <2>2, UnresolvedDoes, StepOfOne DEF ApprovedStepUnresolved, stores
<1>7. CASE ApprovedStep(w)
  <2>1. RowsStay /\ RestTyped
    BY <1>7, <1>a, ApprovedStepDoes DEF ApprovedStep, stores, NowRan, RestTyped,
       RowsStay, Asked, TypeOK
  <2>2. job[w].at \in Bound /\ approvals[job[w].appr].step \in 1..Length
    BY <1>7, ApprovedStepDoes, PlanAssumption DEF At, Bound, Points, WellFormed, RequestOK, RowOK
  <2>3. RequestOK(w)'
    BY <1>7, <2>1, <2>2, ApprovedStepDoes, SameRequestOK, NextStep
  <2> QED
    BY <1>7, <2>1, <2>3, ApprovedStepDoes, StepOfOne DEF ApprovedStep, stores
<1>8. CASE RestCall(w)
  <2>1. RowsStay /\ RestTyped
    BY <1>8, <1>a, RestCallDoes DEF RestCall, stores, NowRan, RestTyped,
       RowsStay, Asked, TypeOK
  <2>2. job[w].at \in Bound
    BY <1>8, RestCallDoes DEF At, Bound, Points
  <2>3. RequestOK(w)'
    BY <1>8, <2>1, <2>2, RestCallDoes, SameRequestOK, NextStep
  <2> QED
    BY <1>8, <2>1, <2>3, RestCallDoes, StepOfOne DEF RestCall, stores
<1>9. CASE RestBlock(w)
  <2>1. job[w].task \in Tasks
    BY <1>9, RestBlockDoes DEF At, WellFormed, RequestOK
  <2>2. RestTyped
    BY <1>9, <1>a DEF RestBlock, history, RestTyped, TypeOK
  <2>3. RowsStay
    BY <1>9, <2>1, RestBlockDoes, RowsOK
  <2>4. RequestOK(w)'
    BY <1>9, <2>3, RestBlockDoes, SameRequestOK DEF At, Bound, Points
  <2> QED
    BY <1>9, <2>1, <2>2, <2>4, RestBlockDoes, StepOfOne
<1>10. CASE RestOver(w)
  <2>1. RowsStay /\ RestTyped
    BY <1>10, <1>a DEF RestOver, stores, history, RestTyped, RowsStay, Asked, TypeOK
  <2>2. RequestOK(w)'
    BY <1>10, <2>1, RestOverDoes, SameRequestOK DEF At, Bound, Points
  <2> QED
    BY <1>10, <2>1, <2>2, RestOverDoes, StepOfOne DEF RestOver, stores
<1>11. CASE UpdateTask(w)
  <2>1. /\ At(w, "task") /\ OnlyJob(w) /\ SameSubject(w)
        /\ job'[w].at = "payload_read"
    BY <1>11, <1>a, GotoJob DEF UpdateTask, Points
  <2>2. job[w].task \in Tasks /\ job[w].verdict \in TaskStatus
    BY <1>a, <2>1 DEF At, WellFormed, RequestOK, Requests
  <2>3. RestTyped
    BY <1>11, <1>a, <2>2, TaskUpdated DEF UpdateTask, history, RestTyped, TypeOK
  <2>4. RowsStay
    BY <1>11 DEF UpdateTask, RowsStay, Asked
  <2>5. RequestOK(w)'
    BY <2>1, <2>4, SameRequestOK DEF At, Bound, Points
  <2> QED
    BY <1>11, <2>1, <2>3, <2>5, StepOfOne DEF UpdateTask
<1> QED
  BY <1>1, <1>2, <1>3, <1>4, <1>5, <1>6, <1>7, <1>8, <1>9, <1>10, <1>11
     DEF CreateSteps

\* The steps of a worker, sorted: those that keep away from the plan, and those
\* that work through it.
LEMMA StepSorted ==
  ASSUME WellFormed, NEW w \in Workers, Step(w)
  PROVE  \/ Walks(w) /\ UNCHANGED history
         \/ \E t \in Tasks : CreateTask(w, t)
         \/ CreateSteps(w) \/ PlanFault(w)
         \/ ApprovedStepUnresolved(w) \/ ApprovedStep(w)
         \/ RestCall(w) \/ RestBlock(w) \/ RestOver(w) \/ UpdateTask(w)
BY Arriving, Walking DEF Step, Serve, ResumeSteps, Resume

\* Every step of a worker keeps states well formed, and every row keeps the
\* task, mode and step it was asked for.
LEMMA WellFormedStep ==
  ASSUME WellFormed, NEW w \in Workers, Step(w)
  PROVE  WellFormed' /\ RowsStay
BY StepSorted, WalksWellFormed, PlanWellFormed

\* A stuttering step changes nothing that WellFormed speaks of.
LEMMA WellFormedStutter == WellFormed /\ UNCHANGED vars => WellFormed'
BY DEF vars, stores, WellFormed, TypeOK, RowOK, RequestOK, Asked, At

\* Every reachable state is well formed.
LEMMA WellFormedAlways == Spec => []WellFormed
<1>1. WellFormed /\ [Next]_vars => WellFormed'
  BY WellFormedStep, WellFormedStutter DEF Next
<1> QED
  BY <1>1, WellFormedInit, PTL DEF Spec

\* The stores, the requests under way and the history keep their types, whatever
\* the plans, the racing workers' store calls and the faults are.
THEOREM Typing == Spec => []TypeOK
<1>1. WellFormed => TypeOK
  BY DEF WellFormed
<1> QED
  BY <1>1, WellFormedAlways, PTL

-----------------------------------------------------------------------------
(* Where a request or an approval has come to in a plan, everything before  *)
(* has succeeded.                                                          *)

\* All steps of t ahead of step k have succeeded.
UpTo(t, k) == \A j \in 1..(k - 1) : Ran(t, j)

\* An approval asks for a step the plan has come to; once consumed, that step
\* has succeeded.
RowReached(a) ==
  /\ Asked(a) => UpTo(approvals[a].task, approvals[a].step)
  /\ approvals[a].resumed => Ran(approvals[a].task, approvals[a].step)

\* So has the plan a request works through; and a request that is about to
\* consume its approval has its step behind it.
RequestReached(w) ==
  /\ job[w].at \in {"plan", "rest"} => UpTo(job[w].task, job[w].step)
  /\ job[w].at \in Bound /\ (job[w].consumed \/ job[w].seen) =>
       Ran(job[w].task, approvals[job[w].appr].step)

Reached ==
  /\ StepsInOrder
  /\ \A a \in ApprovalIds : RowReached(a)
  /\ \A w \in Workers : RequestReached(w)

\* What has succeeded once has succeeded.
RunsStay == \A t \in Tasks, k \in 1..Length : Ran(t, k) => Ran(t, k)'

\* What a step may do to the history of a plan.
RunsNext ==
  \/ UNCHANGED runs
  \/ \E t \in Tasks, k \in 1..Length : NowRan(t, k) /\ UpTo(t, k)

\* Running one step whose predecessors have run keeps the order of the steps.
LEMMA OrderKept ==
  ASSUME WellFormed, StepsInOrder, RunsNext
  PROVE  StepsInOrder' /\ RunsStay
<1>1. CASE UNCHANGED runs
  BY <1>1 DEF StepsInOrder, RunsStay, Ran
<1>2. ASSUME NEW t \in Tasks, NEW k \in 1..Length, NowRan(t, k), UpTo(t, k)
      PROVE  StepsInOrder' /\ RunsStay
  <2>1. RunsStay
    BY <1>2 DEF NowRan, RunsStay
  <2>2. ASSUME NEW u \in Tasks, NEW j \in 1..Length, Ran(u, j)',
               NEW i \in 1..(j - 1)
        PROVE  Ran(u, i)'
    <3>1. i \in 1..Length
      BY PlanAssumption
    <3>2. Ran(u, i)
      BY <1>2, <2>2, <3>1 DEF NowRan, UpTo, StepsInOrder
    <3> QED
      BY <2>1, <3>1, <3>2 DEF RunsStay
  <2> QED
    BY <2>1, <2>2 DEF StepsInOrder
<1> QED
  BY <1>1, <1>2 DEF RunsNext

\* How far a plan has got is not forgotten.
LEMMA UpToStays ==
  ASSUME RunsStay, NEW t \in Tasks, NEW k \in 1..(Length + 1), UpTo(t, k)
  PROVE  UpTo(t, k)'
<1>1. \A j \in 1..(k - 1) : j \in 1..Length
  BY PlanAssumption
<1> QED
  BY <1>1 DEF UpTo, RunsStay

\* Step k + 1 is where a plan is once step k has succeeded.
LEMMA UpToNext ==
  ASSUME NEW t \in Tasks, NEW k \in 1..Length, UpTo(t, k), NowRan(t, k)
  PROVE  UpTo(t, k + 1)' /\ Ran(t, k)'
<1>1. \A j \in 1..((k + 1) - 1) : j \in 1..Length /\ (j = k \/ j \in 1..(k - 1))
  BY PlanAssumption
<1> QED
  BY <1>1 DEF UpTo, NowRan

\* The requests of the other workers are where they were.
LEMMA OthersReached ==
  ASSUME WellFormed, Reached, RunsStay, RowsStay, NEW w \in Workers, OnlyJob(w),
         NEW v \in Workers \ {w}
  PROVE  RequestReached(v)'
<1>1. job'[v] = job[v] /\ RequestReached(v) /\ RequestOK(v)
  BY DEF OnlyJob, Reached, WellFormed
<1>2. ASSUME NEW t \in Tasks, NEW k \in 1..(Length + 1), UpTo(t, k)
      PROVE  UpTo(t, k)'
  BY <1>2, UpToStays
<1>3. job'[v].at \in {"plan", "rest"} => UpTo(job[v].task, job[v].step)'
  BY <1>1, <1>2 DEF RequestReached, RequestOK, At
<1>4. ASSUME job[v].at \in Bound, job[v].consumed \/ job[v].seen
      PROVE  runs'[job[v].task][approvals'[job[v].appr].step] > 0
  <2>1. /\ job[v].task \in Tasks /\ job[v].appr \in ApprovalIds /\ Asked(job[v].appr)
        /\ approvals[job[v].appr].step \in 1..Length
        /\ Ran(job[v].task, approvals[job[v].appr].step)
    BY <1>1, <1>4, PlanAssumption
       DEF RequestReached, RequestOK, WellFormed, RowOK, At, Bound
  <2> QED
    BY <1>1, <2>1 DEF RunsStay, RowsStay, Ran
<1> QED
  BY <1>1, <1>3, <1>4 DEF RequestReached, Ran

\* The rows are where they were, and a new one is where its plan is.
LEMMA RowsReached ==
  ASSUME WellFormed, Reached, RunsStay, NEW w \in Workers,
         \/ RowsKept /\ ResumedKept(w)
         \/ UNCHANGED approvals
         \/ \E a \in ApprovalIds, t \in Tasks, k \in HighRisk :
              NewRow(a, t, k) /\ UpTo(t, k)
  PROVE  \A a \in ApprovalIds : RowReached(a)'
<1>a. ASSUME NEW a \in ApprovalIds, Asked(a)
      PROVE  /\ approvals[a].task \in Tasks /\ approvals[a].step \in 1..Length
             /\ approvals[a].step \in 1..(Length + 1)
  <2>1. \A k \in HighRisk : k \in 1..Length /\ k \in 1..(Length + 1)
    BY PlanAssumption
  <2> QED
    BY <1>a, <2>1 DEF WellFormed, RowOK
<1>b. ASSUME NEW a \in ApprovalIds, Asked(a), NEW t, NEW k,
             approvals[a].task = t, approvals[a].step = k
      PROVE  /\ UpTo(t, k)'
             /\ approvals[a].resumed => Ran(t, k)'
  <2>1. t \in Tasks /\ k \in 1..Length /\ k \in 1..(Length + 1)
    BY <1>a, <1>b
  <2>2. UpTo(t, k) /\ (approvals[a].resumed => Ran(t, k))
    BY <1>b DEF Reached, RowReached
  <2> QED
    BY <2>1, <2>2, UpToStays DEF RunsStay
<1>c. \A a \in ApprovalIds : ~Asked(a) => ~approvals[a].resumed /\ approvals[a].status = "absent"
  BY DEF WellFormed, RowOK, NoRow, Asked
<1>1. CASE RowsKept /\ ResumedKept(w)
  <2> SUFFICES ASSUME NEW a \in ApprovalIds PROVE RowReached(a)'
    OBVIOUS
  <2>1. CASE ~Asked(a)
    BY <1>1, <1>c, <2>1 DEF RowsKept, RowReached, Asked
  <2>2. CASE Asked(a)
    <3>1. PICK t, k : approvals[a].task = t /\ approvals[a].step = k
      OBVIOUS
    <3>2. /\ UpTo(t, k)' /\ t \in Tasks /\ k \in 1..Length
          /\ approvals[a].resumed => Ran(t, k)'
      BY <1>a, <1>b, <2>2, <3>1
    <3>3. approvals'[a].task = t /\ approvals'[a].step = k
      BY <1>1, <2>2, <3>1 DEF RowsKept
    <3>4. approvals'[a].resumed => Ran(t, k)'
      <4>1. ASSUME At(w, "payload_write"), a = job[w].appr,
                   job[w].consumed \/ job[w].seen
            PROVE  Ran(t, k)'
        <5>1. job[w].at \in Bound
          BY <4>1 DEF At, Bound, Points
        <5>2. job[w].task = t
          BY <4>1, <5>1, <3>1 DEF WellFormed, RequestOK
        <5>3. Ran(t, k)
          BY <4>1, <5>1, <5>2, <3>1 DEF Reached, RequestReached
        <5> QED
          BY <3>2, <5>3 DEF RunsStay
      <4> QED
        BY <1>1, <3>2, <4>1 DEF ResumedKept
    <3> QED
      BY <3>2, <3>3, <3>4 DEF RowReached, UpTo, Ran
  <2> QED
    BY <2>1, <2>2
<1>2. CASE UNCHANGED approvals
  <2> SUFFICES ASSUME NEW a \in ApprovalIds PROVE RowReached(a)'
    OBVIOUS
  <2>1. CASE ~Asked(a)
    BY <1>2, <1>c, <2>1 DEF RowReached, Asked
  <2>2. CASE Asked(a)
    BY <1>2, <1>b, <2>2 DEF RowReached, UpTo, Ran
  <2> QED
    BY <2>1, <2>2
<1>3. ASSUME NEW b \in ApprovalIds, NEW t \in Tasks, NEW k \in HighRisk,
             NewRow(b, t, k), UpTo(t, k)
      PROVE  \A a \in ApprovalIds : RowReached(a)'
  <2> SUFFICES ASSUME NEW a \in ApprovalIds PROVE RowReached(a)'
    OBVIOUS
  <2>1. CASE a = b
    <3>1. k \in 1..(Length + 1)
      BY PlanAssumption
    <3>2. UpTo(t, k)'
      BY <1>3, <3>1, UpToStays
    <3> QED
      BY <1>3, <2>1, <3>2 DEF NewRow, RowReached, UpTo, Ran
  <2>2. CASE a # b /\ ~Asked(a)
    BY <1>3, <1>c, <2>2 DEF NewRow, RowReached, Asked
  <2>3. CASE a # b /\ Asked(a)
    BY <1>3, <1>b, <2>3 DEF NewRow, RowReached, UpTo, Ran
  <2> QED
    BY <2>1, <2>2, <2>3
<1> QED
  BY <1>1, <1>2, <1>3

\* What is left to show of a step: the rows, the history and its own request.
LEMMA ReachedByOne ==
  ASSUME WellFormed, Reached, RowsStay, NEW w \in Workers, OnlyJob(w), RunsNext,
         \/ RowsKept /\ ResumedKept(w)
         \/ UNCHANGED approvals
         \/ \E a \in ApprovalIds, t \in Tasks, k \in HighRisk :
              NewRow(a, t, k) /\ UpTo(t, k),
         RequestReached(w)'
  PROVE  Reached'
<1>1. StepsInOrder' /\ RunsStay
  BY OrderKept DEF Reached
<1>2. \A a \in ApprovalIds : RowReached(a)'
  BY <1>1, RowsReached
<1>3. \A v \in Workers \ {w} : RequestReached(v)'
  BY <1>1, OthersReached
<1> QED
  BY <1>1, <1>2, <1>3 DEF Reached

\* A step that runs no plan step leaves every row and request where it may be.
LEMMA WalksReached ==
  ASSUME WellFormed, Reached, RowsStay, NEW w \in Workers, Walks(w), UNCHANGED history
  PROVE  Reached'
<1>1. OnlyJob(w) /\ RowsKept /\ ResumedKept(w) /\ UNCHANGED runs
  BY DEF Walks, history
<1>2. RequestReached(w)'
  <2>1. CASE job'[w] = NoRequest
    BY <2>1 DEF RequestReached, NoRequest, Bound
  <2>2. CASE job'[w].at \in AwayFromPlan /\ Arrives(w)
    BY <2>2 DEF RequestReached, AwayFromPlan, Bound, Arrives
  <2>3. CASE job'[w].at \in AwayFromPlan /\ GoesOn(w)
    <3>1. /\ job[w].at \in Bound /\ job[w].appr \in ApprovalIds
          /\ Asked(job[w].appr) /\ approvals[job[w].appr].task = job[w].task
      BY <2>3 DEF GoesOn, WellFormed, RequestOK
    <3>2. job'[w].consumed \/ job'[w].seen =>
            Ran(job[w].task, approvals[job[w].appr].step)
      BY <2>3, <3>1 DEF GoesOn, Reached, RequestReached, RowReached
    <3>3. job'[w].appr = job[w].appr /\ job'[w].task = job[w].task
          /\ approvals'[job[w].appr].step = approvals[job[w].appr].step
      BY <2>3, <3>1 DEF GoesOn, SameSubject, RowsStay
    <3> QED
      BY <1>1, <2>3, <3>2, <3>3 DEF RequestReached, AwayFromPlan, Bound, Ran
  <2> QED
    BY <2>1, <2>2, <2>3 DEF Walks
<1> QED
  BY <1>1, <1>2, ReachedByOne DEF RunsNext

\* The steps that work through the plan take the next step, or stop there.
LEMMA PlanReached ==
  ASSUME WellFormed, Reached, RowsStay, NEW w \in Workers,
         \/ \E t \in Tasks : CreateTask(w, t)
         \/ CreateSteps(w) \/ PlanFault(w)
         \/ ApprovedStepUnresolved(w) \/ ApprovedStep(w)
         \/ RestCall(w) \/ RestBlock(w) \/ RestOver(w) \/ UpdateTask(w)
  PROVE  Reached'
<1>a. ASSUME job[w].at \in {"plan", "rest"}
      PROVE  /\ UpTo(job[w].task, Here(w)) /\ job[w].task \in Tasks
  BY <1>a DEF Reached, RequestReached, WellFormed, RequestOK, At, Here
<1>b. ASSUME job[w].at \in Bound
      PROVE  /\ job[w].appr \in ApprovalIds /\ job[w].task \in Tasks
             /\ Asked(job[w].appr)
             /\ approvals[job[w].appr].task = job[w].task
             /\ approvals[job[w].appr].step \in 1..Length
             /\ UpTo(job[w].task, approvals[job[w].appr].step)
             /\ job[w].consumed \/ job[w].seen =>
                  Ran(job[w].task, approvals[job[w].appr].step)
  <2>1. \A k \in HighRisk : k \in 1..Length
    BY PlanAssumption
  <2> QED
    BY <1>b, <2>1 DEF WellFormed, RequestOK, RowOK, Reached, RequestReached, RowReached
<1>c. {"rest", "task", "payload_read", "approved_step"} \subseteq Bound
      /\ "save" \notin Bound /\ "plan" \notin Bound /\ "idle" \notin Bound
  BY DEF Bound, Points
<1>d. \A k \in HighRisk : k \in 1..Length
  BY PlanAssumption
<1>1. ASSUME NEW t \in Tasks, CreateTask(w, t) PROVE Reached'
  <2>1. RequestReached(w)'
    BY <1>1, <1>c, CreateTaskDoes DEF RequestReached, UpTo
  <2> QED
    BY <1>1, <2>1, CreateTaskDoes, ReachedByOne DEF CreateTask, stores, RunsNext
<1>2. CASE PlanCall(w)
  <2>1. /\ Here(w) \in 1..Length /\ job[w].task \in Tasks
        /\ UpTo(job[w].task, Here(w)) /\ OnlyJob(w) /\ UNCHANGED approvals
        /\ job'[w].task = job[w].task
        /\ \/ /\ job'[w].at = "plan" /\ job'[w].step = Here(w) + 1
              /\ NowRan(job[w].task, Here(w))
           \/ job'[w].at = "save" /\ UNCHANGED runs
    BY <1>2, <1>a, PlanCallDoes DEF At, SameSubject, PlanCall, stores
  <2>2. RunsNext
    BY <2>1 DEF RunsNext
  <2>3. RequestReached(w)'
    <3>1. CASE job'[w].at = "save"
      BY <1>c, <3>1 DEF RequestReached
    <3>2. CASE job'[w].at = "plan"
      <4>1. PICK t \in Tasks, k \in 1..Length : t = job[w].task /\ k = Here(w)
        BY <2>1
      <4>2. UpTo(t, k + 1)'
        BY <2>1, <3>2, <4>1, UpToNext
      <4> QED
        BY <1>c, <2>1, <3>2, <4>1, <4>2 DEF RequestReached, UpTo, Ran
    <3> QED
      BY <2>1, <3>1, <3>2
  <2> QED
    BY <2>1, <2>2, <2>3, ReachedByOne
<1>3. CASE PlanBlock(w)
  <2>1. RequestReached(w)' /\ OnlyJob(w)
    BY <1>3, <1>c, PlanBlockDoes DEF RequestReached
  <2>2. RunsNext
    BY <1>3 DEF PlanBlock, history, RunsNext
  <2>3. \E a \in ApprovalIds, t \in Tasks, k \in HighRisk : NewRow(a, t, k) /\ UpTo(t, k)
    BY <1>3, <1>a, PlanBlockDoes DEF At
  <2> QED
    BY <2>1, <2>2, <2>3, ReachedByOne
<1>4. CASE PlanOver(w) \/ PlanFault(w)
  <2>1. RequestReached(w)'
    BY <1>4, <1>c, PlanStopDoes DEF RequestReached
  <2> QED
    BY <1>4, <2>1, PlanStopDoes, ReachedByOne DEF stores, history, RunsNext
<1>5. CASE Save(w)
  <2>1. OnlyJob(w) /\ job'[w].at = "idle"
    BY <1>5, DoneJob DEF Save, WellFormed, TypeOK
  <2>2. RequestReached(w)'
    BY <1>c, <2>1 DEF RequestReached
  <2> QED
    BY <1>5, <2>1, <2>2, ReachedByOne DEF Save, history, RunsNext
<1>6. CASE ApprovedStepUnresolved(w)
  <2>1. job[w].at \in Bound /\ UNCHANGED <<approvals, runs>>
    BY <1>6, <1>c, UnresolvedDoes DEF At, ApprovedStepUnresolved, stores, history
  <2>2. RequestReached(w)'
    BY <1>6, <1>b, <2>1, UnresolvedDoes DEF RequestReached, SameSubject, Ran
  <2> QED
    BY <1>6, <2>1, <2>2, UnresolvedDoes, ReachedByOne DEF RunsNext
<1>7. CASE ApprovedStep(w)
  <2>1. job[w].at \in Bound /\ UNCHANGED approvals /\ OnlyJob(w) /\ SameSubject(w)
    BY <1>7, <1>c, ApprovedStepDoes DEF At, ApprovedStep, stores
  <2>2. PICK t \in Tasks, k \in 1..Length :
          /\ t = job[w].task /\ k = approvals[job[w].appr].step /\ UpTo(t, k)
    BY <1>b, <2>1
  <2>3. \/ /\ job'[w].at = "rest" /\ job'[w].step = k + 1 /\ NowRan(t, k)
        \/ /\ job'[w].at = "task" /\ ~job'[w].consumed
           /\ job'[w].seen = job[w].seen /\ UNCHANGED runs
    BY <1>7, <2>2, ApprovedStepDoes
  <2>4. RunsNext
    BY <2>2, <2>3 DEF RunsNext
  <2>5. RequestReached(w)'
    <3>1. CASE job'[w].at = "rest" /\ job'[w].step = k + 1 /\ NowRan(t, k)
      <4>1. UpTo(t, k + 1)' /\ Ran(t, k)'
        BY <2>2, <3>1, UpToNext
      <4> QED
        BY <2>1, <2>2, <3>1, <4>1 DEF RequestReached, SameSubject, UpTo, Ran
    <3>2. CASE /\ job'[w].at = "task" /\ ~job'[w].consumed
               /\ job'[w].seen = job[w].seen /\ UNCHANGED runs
      BY <1>b, <2>1, <3>2 DEF RequestReached, SameSubject, Ran
    <3> QED
      BY <2>3, <3>1, <3>2
  <2> QED
    BY <2>1, <2>4, <2>5, ReachedByOne
<1>8. CASE RestCall(w)
  <2>1. /\ job[w].at \in Bound /\ UNCHANGED approvals /\ OnlyJob(w)
        /\ SameSubject(w) /\ SameResult(w) /\ At(w, "rest")
        /\ Here(w) \in 1..Length
    BY <1>8, <1>c, RestCallDoes DEF At, RestCall, stores
  <2>2. PICK t \in Tasks, k \in 1..Length :
          t = job[w].task /\ k = Here(w) /\ UpTo(t, k)
    BY <1>a, <2>1 DEF At
  <2>3. \/ job'[w].at = "rest" /\ job'[w].step = k + 1 /\ NowRan(t, k)
        \/ job'[w].at = "task" /\ UNCHANGED runs
    BY <1>8, <2>2, RestCallDoes
  <2>4. RunsNext
    BY <2>2, <2>3 DEF RunsNext
  <2>5. PICK i \in 1..Length : i = approvals[job[w].appr].step
    BY <1>b, <2>1
  <2>6. /\ job'[w].task = t /\ approvals'[job'[w].appr].step = i
        /\ job'[w].consumed \/ job'[w].seen => Ran(t, i)
    BY <1>b, <2>1, <2>2, <2>5 DEF SameSubject, SameResult
  <2>7. job'[w].consumed \/ job'[w].seen => Ran(t, i)'
    BY <2>2, <2>4, <2>5, <2>6, OrderKept DEF RunsStay, Reached
  <2>8. job'[w].at = "rest" => UpTo(t, k + 1)' /\ job'[w].step = k + 1
    BY <2>2, <2>3, UpToNext
  <2>9. RequestReached(w)'
    BY <2>3, <2>6, <2>7, <2>8 DEF RequestReached, UpTo, Ran
  <2> QED
    BY <2>1, <2>4, <2>9, ReachedByOne
<1>9. CASE RestBlock(w)
  <2>1. /\ job[w].at \in Bound /\ OnlyJob(w) /\ UNCHANGED runs
        /\ SameSubject(w) /\ SameResult(w) /\ At(w, "rest") /\ job'[w].at = "task"
    BY <1>9, <1>c, RestBlockDoes DEF At, RestBlock, history
  <2>2. \E a \in ApprovalIds, t \in Tasks, k \in HighRisk : NewRow(a, t, k) /\ UpTo(t, k)
    BY <1>9, <1>a, RestBlockDoes DEF At
  <2>3. approvals'[job[w].appr].step = approvals[job[w].appr].step
    BY <1>b, <2>1 DEF RowsStay
  <2>4. RequestReached(w)'
    BY <1>b, <2>1, <2>3 DEF RequestReached, SameSubject, SameResult, Ran
  <2> QED
    BY <2>1, <2>2, <2>4, ReachedByOne DEF RunsNext
<1>10. CASE RestOver(w)
  <2>1. /\ job[w].at \in Bound /\ OnlyJob(w) /\ UNCHANGED <<approvals, runs>>
        /\ SameSubject(w) /\ SameResult(w) /\ job'[w].at = "task"
    BY <1>10, <1>c, RestOverDoes DEF At, RestOver, stores, history
  <2>2. RequestReached(w)'
    BY <1>b, <2>1 DEF RequestReached, SameSubject, SameResult, Ran
  <2> QED
    BY <2>1, <2>2, ReachedByOne DEF RunsNext
<1>11. CASE UpdateTask(w)
  <2>1. /\ At(w, "task") /\ OnlyJob(w) /\ SameSubject(w) /\ SameResult(w)
        /\ job'[w].at = "payload_read" /\ UNCHANGED <<approvals, runs>>
    BY <1>11, GotoJob DEF UpdateTask, Points, history, WellFormed, TypeOK
  <2>2. RequestReached(w)'
    BY <1>b, <1>c, <2>1 DEF At, RequestReached, SameSubject, SameResult, Ran
  <2> QED
    BY <2>1, <2>2, ReachedByOne DEF RunsNext
<1> QED
  BY <1>1, <1>2, <1>3, <1>4, <1>5, <1>6, <1>7, <1>8, <1>9, <1>10, <1>11
     DEF CreateSteps

\* Reached is inductive beside WellFormed.
LEMMA ReachedAlways == Spec => []Reached
<1>1. Init => Reached
  BY DEF Init, DecisionsInit, Reached, StepsInOrder, RowReached, RequestReached,
     Ran, Asked, NoRow, NoRequest, Bound
<1>2. WellFormed /\ Reached /\ [Next]_vars => Reached'
  <2>1. ASSUME WellFormed, Reached, NEW w \in Workers, Step(w) PROVE Reached'
    BY <2>1, WellFormedStep, StepSorted, WalksReached, PlanReached
  <2>2. Reached /\ UNCHANGED vars => Reached'
    BY DEF vars, stores, Reached, StepsInOrder, RowReached, RequestReached, UpTo,
       Ran, Asked
  <2> QED
    BY <2>1, <2>2 DEF Next
<1> QED
  BY <1>1, <1>2, WellFormedAlways, PTL DEF Spec

\* depends_on holds across approvals, retries, crashes and racing workers: no
\* step of a plan runs before all the steps ahead of it have succeeded.
THEOREM OrderOfSteps == Spec => []StepsInOrder
<1>1. Reached => StepsInOrder
  BY DEF Reached
<1> QED
  BY <1>1, ReachedAlways, PTL

-----------------------------------------------------------------------------
(* A task that asked for an approval is completed only when its whole plan  *)
(* has been run.                                                           *)

Creating(w) == job[w].at \in {"plan", "save"}
NeverAsked(t) == \A a \in ApprovalIds : Asked(a) => approvals[a].task # t
Whole(t) == \A k \in 1..Length : Ran(t, k)

\* A request whose task has not asked for an approval: its plan is still being
\* run, or is going to be reported as completed without one.
Unasked(w) ==
  \/ At(w, "plan")
  \/ /\ At(w, "save") /\ job[w].verdict = "completed"
     /\ Mode[job[w].task] = "multitool"

\* The request that creates a task is the only one to do so, and nothing else
\* writes the row of the task before it does.
CreationOK(w) ==
  /\ Creating(w) => /\ job[w].task \in created /\ tasks[job[w].task] = "absent"
                    /\ \A v \in Workers \ {w} :
                         Creating(v) => job[v].task # job[w].task
  /\ Unasked(w) => NeverAsked(job[w].task)

\* A resume reports a plan as completed at its end only.
VerdictOK(w) ==
  At(w, "task") /\ job[w].verdict = "completed" => Whole(job[w].task)

RowCompleted(a) ==
  LET t == approvals[a].task IN
  Asked(a) /\ Mode[t] = "multitool" /\ tasks[t] = "completed" => Whole(t)

Completion ==
  /\ \A t \in Tasks \ created : tasks[t] = "absent" /\ NeverAsked(t)
  /\ \A w \in Workers : CreationOK(w)
  /\ \A w \in Workers : VerdictOK(w)
  /\ \A a \in ApprovalIds : RowCompleted(a)

\* What a step other than Save does to the rows of the tasks.
TasksNext ==
  \A t \in Tasks :
    \/ tasks'[t] = tasks[t]
    \/ tasks[t] # "absent" /\ (tasks'[t] = "completed" => Whole(t))

\* A new row is for a task that is there and that no request takes to be
\* without an approval.
NewRowOK(w) ==
  \E a \in ApprovalIds, t \in created, k \in HighRisk :
    /\ NewRow(a, t, k)
    /\ \A v \in Workers \ {w} : Unasked(v) => job[v].task # t
    /\ Mode[t] = "multitool" /\ tasks[t] = "completed" => Whole(t)

\* A plan that has run completely stays so.
LEMMA WholeStays ==
  ASSUME RunsStay, NEW t \in Tasks, Whole(t)
  PROVE  Whole(t)'
BY DEF RunsStay, Whole

\* A task for which no approval was asked stays so unless one is created for it.
LEMMA NeverAskedStays ==
  ASSUME NEW t, NeverAsked(t),
         \/ RowsKept \/ UNCHANGED approvals
         \/ \E a \in ApprovalIds, u \in Tasks, k \in HighRisk : NewRow(a, u, k) /\ u # t
  PROVE  NeverAsked(t)'
BY DEF NeverAsked, RowsKept, NewRow, Asked

\* What is left to show of a step other than CreateTask and Save.
LEMMA CompletionByOne ==
  ASSUME WellFormed, Completion, RowsStay, RunsStay, NEW w \in Workers, OnlyJob(w),
         UNCHANGED created, TasksNext,
         RowsKept \/ UNCHANGED approvals \/ NewRowOK(w),
         Creating(w)' => Creating(w) /\ job'[w].task = job[w].task,
         Unasked(w)' => /\ Unasked(w) /\ job'[w].task = job[w].task
                        /\ RowsKept \/ UNCHANGED approvals,
         VerdictOK(w)'
  PROVE  Completion'
<1>a. created \subseteq Tasks
  BY DEF WellFormed, TypeOK
<1>b. ASSUME NEW v \in Workers, ~At(v, "idle") PROVE job[v].task \in Tasks
  BY <1>b DEF WellFormed, RequestOK
<1>1. ASSUME NEW t \in Tasks \ created PROVE tasks'[t] = "absent" /\ NeverAsked(t)'
  <2>1. tasks[t] = "absent" /\ NeverAsked(t)
    BY DEF Completion
  <2>2. NeverAsked(t)'
    BY <1>a, <2>1, NeverAskedStays DEF NewRowOK
  <2> QED
    BY <2>1, <2>2 DEF TasksNext
<1>2. ASSUME NEW v \in Workers, Creating(v)
      PROVE  /\ job[v].task \in created /\ job[v].task \in Tasks
             /\ tasks'[job[v].task] = "absent"
             /\ \A u \in Workers \ {v} : Creating(u) => job[u].task # job[v].task
  <2>1. job[v].task \in Tasks
    BY <1>2, <1>b DEF Creating, At
  <2> QED
    BY <1>2, <2>1 DEF Completion, CreationOK, TasksNext
<1>3. ASSUME NEW v \in Workers, Unasked(v), v = w => RowsKept \/ UNCHANGED approvals,
             NEW t, t = job[v].task
      PROVE  NeverAsked(t)'
  <2>1. NeverAsked(t)
    BY <1>3 DEF Completion, CreationOK
  <2>2. NewRowOK(w) /\ v # w =>
          \E a \in ApprovalIds, u \in Tasks, k \in HighRisk : NewRow(a, u, k) /\ u # t
    BY <1>a, <1>3 DEF NewRowOK
  <2> QED
    BY <1>3, <2>1, <2>2, NeverAskedStays
<1>4. ASSUME NEW v \in Workers PROVE CreationOK(v)'
  <2>1. Creating(v)' => Creating(v) /\ job'[v].task = job[v].task
    BY DEF OnlyJob, Creating
  <2>2. ASSUME Creating(v)'
        PROVE  /\ job'[v].task \in created' /\ tasks'[job'[v].task] = "absent"
               /\ \A u \in Workers \ {v} : Creating(u)' => job'[u].task # job'[v].task
    <3>1. \A u \in Workers \ {v} :
            Creating(u)' => Creating(u) /\ job'[u].task = job[u].task
      BY DEF OnlyJob, Creating
    <3> QED
      BY <1>2, <2>1, <2>2, <3>1
  <2>3. ASSUME Unasked(v)' PROVE NeverAsked(job[v].task)'
    <3>1. /\ Unasked(v) /\ job'[v].task = job[v].task
          /\ v = w => RowsKept \/ UNCHANGED approvals
      BY <2>3 DEF OnlyJob, Unasked, At
    <3>2. PICK t : t = job[v].task
      OBVIOUS
    <3>3. NeverAsked(t)'
      BY <1>3, <3>1, <3>2
    <3> QED
      BY <3>1, <3>2, <3>3 DEF NeverAsked, Asked
  <2> QED
    BY <2>2, <2>3 DEF CreationOK
<1>5. ASSUME NEW v \in Workers \ {w} PROVE VerdictOK(v)'
  <2>1. job'[v] = job[v] /\ VerdictOK(v)
    BY DEF OnlyJob, Completion
  <2>2. ASSUME At(v, "task"), job[v].verdict = "completed"
        PROVE  Whole(job[v].task)'
    <3>1. PICK t \in Tasks : t = job[v].task
      BY <1>b, <2>2 DEF At
    <3>2. Whole(t)'
      BY <2>1, <2>2, <3>1, WholeStays DEF VerdictOK
    <3> QED
      BY <2>1, <3>1, <3>2 DEF Whole, Ran
  <2> QED
    BY <2>1, <2>2 DEF VerdictOK, At
<1>6. ASSUME NEW t \in Tasks, tasks'[t] = "completed", tasks[t] = "completed" => Whole(t)
      PROVE  Whole(t)'
  BY <1>6, WholeStays DEF TasksNext
<1>7. ASSUME NEW a \in ApprovalIds PROVE RowCompleted(a)'
  <2>1. ASSUME NEW t, Asked(a)', t = approvals'[a].task, Mode[t] = "multitool",
               tasks'[t] = "completed"
        PROVE  Whole(t)'
    <3>1. CASE Asked(a)
      <4>1. approvals[a].task = t /\ t \in Tasks
        BY <2>1, <3>1 DEF RowsStay, WellFormed, RowOK
      <4>2. tasks[t] = "completed" => Whole(t)
        BY <2>1, <3>1, <4>1 DEF Completion, RowCompleted
      <4> QED
        BY <1>6, <2>1, <4>1, <4>2
    <3>2. CASE ~Asked(a)
      <4>1. PICK u \in created, k \in HighRisk :
              /\ NewRow(a, u, k)
              /\ Mode[u] = "multitool" /\ tasks[u] = "completed" => Whole(u)
        BY <2>1, <3>2 DEF NewRowOK, RowsKept, NewRow, Asked
      <4>2. u = t /\ t \in Tasks
        BY <1>a, <2>1, <4>1 DEF NewRow
      <4> QED
        BY <1>6, <2>1, <4>1, <4>2
    <3> QED
      BY <3>1, <3>2
  <2>2. PICK t : t = approvals'[a].task
    OBVIOUS
  <2> QED
    BY <2>1, <2>2 DEF RowCompleted, Whole, Ran
<1> QED
  BY <1>1, <1>4, <1>5, <1>7 DEF Completion

\* UpdateTaskStatus writes over a row that is there.
LEMMA Updated ==
  ASSUME WellFormed, NEW t \in Tasks, NEW s \in TaskStatus,
         UpdateTaskStatus(t, s), s = "completed" => Whole(t)
  PROVE  TasksNext
BY DEF WellFormed, TypeOK, UpdateTaskStatus, TasksNext

\* A step that leaves the task store alone completes no task.
LEMMA SameTasks == UNCHANGED tasks => TasksNext
BY DEF TasksNext

\* A step that runs no plan step keeps what has run.
LEMMA SameRuns == UNCHANGED runs => RunsStay
BY DEF RunsStay, Ran

\* Running a plan step keeps what has run.
LEMMA MoreRuns ==
  ASSUME NEW t \in Tasks, NEW k \in 1..Length, NowRan(t, k)
  PROVE  RunsStay
BY DEF NowRan, RunsStay

\* create_task: nothing is known of the task yet.
LEMMA CreateCompletion ==
  ASSUME WellFormed, Completion, NEW w \in Workers, NEW t \in Tasks,
         CreateTask(w, t)
  PROVE  Completion'
<1>a. /\ OnlyJob(w) /\ job'[w].at = "plan" /\ job'[w].task = t /\ At(w, "idle")
      /\ t \notin created /\ created' = created \cup {t}
      /\ UNCHANGED <<approvals, tasks, runs>>
  BY CreateTaskDoes DEF CreateTask, stores
<1>b. tasks[t] = "absent" /\ NeverAsked(t)
  BY <1>a DEF Completion
<1>1. \A u \in Tasks \ created' : tasks'[u] = "absent" /\ NeverAsked(u)'
  BY <1>a DEF Completion, NeverAsked, Asked
<1>2. ASSUME NEW v \in Workers PROVE CreationOK(v)'
  <2>1. CASE v = w
    <3>1. \A u \in Workers \ {w} : Creating(u)' => job'[u].task # t
      BY <1>a DEF OnlyJob, Completion, CreationOK, Creating
    <3> QED
      BY <1>a, <1>b, <2>1, <3>1 DEF CreationOK, NeverAsked, Asked
  <2>2. CASE v # w
    <3>1. job'[v] = job[v] /\ CreationOK(v)
      BY <1>a, <2>2 DEF OnlyJob, Completion
    <3>2. Creating(v) => t # job[v].task
      BY <1>a, <3>1 DEF CreationOK
    <3>3. Creating(v)' => \A u \in Workers \ {v} :
            Creating(u)' => job'[u].task # job'[v].task
      BY <1>a, <3>1, <3>2 DEF OnlyJob, CreationOK, Creating
    <3> QED
      BY <1>a, <3>1, <3>3
         DEF CreationOK, Creating, Unasked, At, NeverAsked, Asked
  <2> QED
    BY <2>1, <2>2
<1>3. ASSUME NEW v \in Workers PROVE VerdictOK(v)'
  BY <1>a DEF OnlyJob, Completion, VerdictOK, At, Whole, Ran
<1>4. \A a \in ApprovalIds : RowCompleted(a)'
  BY <1>a DEF Completion, RowCompleted, Asked, Whole, Ran
<1> QED
  BY <1>1, <1>2, <1>3, <1>4 DEF Completion

\* save_task: what is completed without an approval never asked for one.
LEMMA SaveCompletion ==
  ASSUME WellFormed, Completion, NEW w \in Workers, Save(w)
  PROVE  Completion'
<1>a. /\ OnlyJob(w) /\ job'[w].at = "idle" /\ At(w, "save")
      /\ UNCHANGED <<approvals, runs, created>>
      /\ tasks' = [tasks EXCEPT ![job[w].task] = job[w].verdict]
  BY DoneJob DEF Save, SaveTask, history, WellFormed, TypeOK
<1>b. /\ job[w].task \in created /\ job[w].task \in Tasks
      /\ tasks \in [Tasks -> TaskStatus]
      /\ \A v \in Workers \ {w} : Creating(v) => job[v].task # job[w].task
  BY <1>a DEF Completion, CreationOK, Creating, At, WellFormed, TypeOK
<1>c. \A t \in Tasks \ {job[w].task} : tasks'[t] = tasks[t]
  BY <1>a, <1>b
<1>1. \A t \in Tasks \ created' : tasks'[t] = "absent" /\ NeverAsked(t)'
  BY <1>a, <1>b, <1>c DEF Completion, NeverAsked, Asked
<1>2. ASSUME NEW v \in Workers PROVE CreationOK(v)'
  <2>1. CASE v = w
    BY <1>a, <2>1 DEF CreationOK, Creating, Unasked, At
  <2>2. CASE v # w
    <3>1. job'[v] = job[v] /\ CreationOK(v) /\ RequestOK(v)
      BY <1>a, <2>2 DEF OnlyJob, Completion, WellFormed
    <3>2. Creating(v) => job[v].task \in Tasks \ {job[w].task}
      BY <1>b, <2>2, <3>1 DEF RequestOK, Creating, At
    <3>3. Creating(v)' => \A u \in Workers \ {v} :
            Creating(u)' => job'[u].task # job'[v].task
      BY <1>a, <3>1 DEF OnlyJob, CreationOK, Creating
    <3>4. Unasked(v)' => NeverAsked(job[v].task)'
      BY <1>a, <3>1 DEF CreationOK, Unasked, At, NeverAsked, Asked
    <3> QED
      BY <1>a, <1>c, <3>1, <3>2, <3>3, <3>4 DEF CreationOK, Creating
  <2> QED
    BY <2>1, <2>2
<1>3. ASSUME NEW v \in Workers PROVE VerdictOK(v)'
  BY <1>a DEF OnlyJob, Completion, VerdictOK, At, Whole, Ran
<1>4. ASSUME NEW a \in ApprovalIds PROVE RowCompleted(a)'
  <2>1. Asked(a) => approvals[a].task \in Tasks
    BY DEF WellFormed, RowOK
  <2>2. CASE approvals[a].task # job[w].task
    BY <1>a, <1>c, <2>1, <2>2 DEF Completion, RowCompleted, Asked, Whole, Ran
  <2>3. CASE approvals[a].task = job[w].task
    <3>1. tasks'[approvals[a].task] = job[w].verdict
      BY <1>a, <1>b, <2>3
    <3>2. Asked(a) => ~Unasked(w)
      BY <2>3 DEF Completion, CreationOK, NeverAsked
    <3> QED
      BY <1>a, <2>3, <3>1, <3>2 DEF RowCompleted, Asked, Unasked
  <2> QED
    BY <2>2, <2>3
<1> QED
  BY <1>1, <1>2, <1>3, <1>4 DEF Completion

\* A step that writes no history marks no task completed before its plan has run.
LEMMA WalksCompletion ==
  ASSUME WellFormed, Completion, RowsStay, NEW w \in Workers, Walks(w),
         UNCHANGED history
  PROVE  Completion'
<1>1. /\ OnlyJob(w) /\ RowsKept /\ UNCHANGED created /\ RunsStay
      /\ job'[w].at \notin {"plan", "save", "task"}
  BY SameRuns DEF Walks, history, NoRequest, AwayFromPlan, Bound
<1>2. TasksNext
  <2>1. CASE UNCHANGED tasks
    BY <2>1, SameTasks
  <2>2. CASE At(w, "cancel_task") /\ UpdateTaskStatus(job[w].task, "cancelled")
    <3>1. job[w].task \in Tasks /\ "cancelled" \in TaskStatus
      BY <2>2 DEF WellFormed, RequestOK, At, TaskStatus
    <3> QED
      BY <2>2, <3>1, Updated
  <2> QED
    BY <2>1, <2>2 DEF Walks
<1>3. ~Creating(w)' /\ ~Unasked(w)' /\ VerdictOK(w)'
  BY <1>1 DEF Creating, Unasked, At, VerdictOK
<1> QED
  BY <1>1, <1>2, <1>3, CompletionByOne

\* The steps that work through the plan keep what Completion says.
LEMMA PlanCompletion ==
  ASSUME WellFormed, Reached, Completion, RowsStay, NEW w \in Workers,
         \/ \E t \in Tasks : CreateTask(w, t)
         \/ CreateSteps(w) \/ PlanFault(w)
         \/ ApprovedStepUnresolved(w) \/ ApprovedStep(w)
         \/ RestCall(w) \/ RestBlock(w) \/ RestOver(w) \/ UpdateTask(w)
  PROVE  Completion'
<1>a. ASSUME job[w].at \in Bound
      PROVE  /\ job[w].appr \in ApprovalIds /\ job[w].task \in Tasks
             /\ Asked(job[w].appr)
             /\ approvals[job[w].appr].task = job[w].task
             /\ approvals[job[w].appr].step \in 1..Length
  <2>1. \A k \in HighRisk : k \in 1..Length
    BY PlanAssumption
  <2> QED
    BY <1>a, <2>1 DEF WellFormed, RequestOK, RowOK
<1>b. {"rest", "task", "payload_read", "approved_step"} \subseteq Bound
  BY DEF Bound, Points
<1>1. ASSUME NEW t \in Tasks, CreateTask(w, t) PROVE Completion'
  BY <1>1, CreateCompletion
<1>2. CASE PlanCall(w)
  <2>1. /\ At(w, "plan") /\ OnlyJob(w) /\ UNCHANGED <<approvals, created>>
        /\ job'[w].task = job[w].task /\ job'[w].at \in {"plan", "save"}
        /\ TasksNext
    BY <1>2, PlanCallDoes, SameTasks DEF PlanCall, stores, SameSubject
  <2>2. RunsStay
    BY <1>2, PlanCallDoes, MoreRuns, SameRuns
  <2>3. Creating(w) /\ Unasked(w) /\ VerdictOK(w)'
    BY <2>1 DEF Creating, Unasked, VerdictOK, At
  <2> QED
    BY <2>1, <2>2, <2>3, CompletionByOne
<1>3. CASE PlanBlock(w)
  <2>1. /\ At(w, "plan") /\ OnlyJob(w) /\ UNCHANGED created
        /\ job'[w].task = job[w].task /\ job'[w].at = "save"
        /\ job'[w].verdict \in AfterBlock(job[w].task)
        /\ TasksNext /\ RunsStay
    BY <1>3, PlanBlockDoes, SameTasks, SameRuns DEF PlanBlock, history
  <2>2. /\ job[w].task \in created
        /\ \A v \in Workers \ {w} : Creating(v) => job[v].task # job[w].task
        /\ Creating(w) /\ tasks[job[w].task] = "absent"
    BY <2>1 DEF Completion, CreationOK, Creating, At
  <2>3. NewRowOK(w)
    <3>1. \A v \in Workers \ {w} : Unasked(v) => job[v].task # job[w].task
      BY <2>2 DEF Unasked, Creating, At
    <3> QED
      BY <1>3, <2>2, <3>1, PlanBlockDoes DEF NewRowOK
  <2>4. ~Unasked(w)' /\ VerdictOK(w)'
    BY <2>1 DEF Unasked, VerdictOK, At, AfterBlock
  <2> QED
    BY <2>1, <2>2, <2>3, <2>4, CompletionByOne
<1>4. CASE PlanOver(w) \/ PlanFault(w)
  <2>1. /\ At(w, "plan") /\ OnlyJob(w) /\ UNCHANGED <<approvals, created>>
        /\ job'[w].task = job[w].task /\ job'[w].at = "save"
        /\ TasksNext /\ RunsStay
    BY <1>4, PlanStopDoes, SameTasks, SameRuns DEF stores, history, SameSubject
  <2>2. Creating(w) /\ Unasked(w) /\ VerdictOK(w)'
    BY <2>1 DEF Creating, Unasked, VerdictOK, At
  <2> QED
    BY <2>1, <2>2, CompletionByOne
<1>5. CASE Save(w)
  BY <1>5, SaveCompletion
<1>6. CASE ApprovedStepUnresolved(w)
  <2>1. /\ OnlyJob(w) /\ UNCHANGED <<approvals, created>> /\ TasksNext /\ RunsStay
        /\ job'[w].at = "payload_read"
    BY <1>6, UnresolvedDoes, SameTasks, SameRuns
       DEF ApprovedStepUnresolved, stores, history
  <2>2. ~Creating(w)' /\ ~Unasked(w)' /\ VerdictOK(w)'
    BY <2>1 DEF Creating, Unasked, VerdictOK, At
  <2> QED
    BY <2>1, <2>2, CompletionByOne
<1>7. CASE ApprovedStep(w)
  <2>1. /\ OnlyJob(w) /\ UNCHANGED <<approvals, created>> /\ TasksNext
        /\ job[w].at \in Bound
        /\ job'[w].at = "rest" \/ (job'[w].at = "task" /\ job'[w].verdict = "failed")
    BY <1>7, <1>b, ApprovedStepDoes, SameTasks DEF ApprovedStep, stores, At
  <2>2. RunsStay
    BY <1>7, <1>a, <2>1, ApprovedStepDoes, MoreRuns, SameRuns
  <2>3. ~Creating(w)' /\ ~Unasked(w)' /\ VerdictOK(w)'
    BY <2>1 DEF Creating, Unasked, VerdictOK, At
  <2> QED
    BY <2>1, <2>2, <2>3, CompletionByOne
<1>8. CASE RestCall(w)
  <2>1. /\ OnlyJob(w) /\ UNCHANGED <<approvals, created>> /\ TasksNext
        /\ job[w].at \in Bound
        /\ job'[w].at = "rest" \/ (job'[w].at = "task" /\ job'[w].verdict = "failed")
    BY <1>8, <1>b, RestCallDoes, SameTasks DEF RestCall, stores, At
  <2>2. RunsStay
    BY <1>8, <1>a, <2>1, RestCallDoes, MoreRuns, SameRuns
  <2>3. ~Creating(w)' /\ ~Unasked(w)' /\ VerdictOK(w)'
    BY <2>1 DEF Creating, Unasked, VerdictOK, At
  <2> QED
    BY <2>1, <2>2, <2>3, CompletionByOne
<1>9. CASE RestBlock(w)
  <2>1. /\ OnlyJob(w) /\ UNCHANGED created /\ TasksNext /\ RunsStay
        /\ job[w].at \in Bound /\ job'[w].at = "task"
        /\ job'[w].verdict = "waiting_approval"
    BY <1>9, <1>b, RestBlockDoes, SameTasks, SameRuns DEF RestBlock, history, At
  <2>2. PICK t \in Tasks : t = job[w].task /\ approvals[job[w].appr].task = t
    BY <1>a, <2>1
  <2>3. ~NeverAsked(t)
    BY <1>a, <2>1, <2>2 DEF NeverAsked
  <2>4. /\ t \in created
        /\ \A v \in Workers : Unasked(v) => job[v].task # t
        /\ Mode[t] = "multitool" /\ tasks[t] = "completed" => Whole(t)
    BY <1>a, <2>1, <2>2, <2>3 DEF Completion, CreationOK, RowCompleted
  <2>5. NewRowOK(w)
    BY <1>9, <2>2, <2>4, RestBlockDoes DEF NewRowOK
  <2>6. ~Creating(w)' /\ ~Unasked(w)' /\ VerdictOK(w)'
    BY <2>1 DEF Creating, Unasked, VerdictOK, At
  <2> QED
    BY <2>1, <2>5, <2>6, CompletionByOne
<1>10. CASE RestOver(w)
  <2>1. /\ OnlyJob(w) /\ UNCHANGED <<approvals, created, runs>> /\ TasksNext
        /\ RunsStay /\ At(w, "rest") /\ SameSubject(w) /\ job'[w].at = "task"
        /\ job'[w].verdict = IF InPlan(w) THEN "failed" ELSE "completed"
    BY <1>10, RestOverDoes, SameTasks, SameRuns DEF RestOver, stores, history
  <2>2. job'[w].verdict = "completed" => Whole(job[w].task)
    <3>1. /\ UpTo(job[w].task, job[w].step)
          /\ job[w].step \in 1..(Length + 1)
      BY <2>1 DEF At, Reached, RequestReached, WellFormed, RequestOK
    <3>2. ~InPlan(w) => \A k \in 1..Length : k \in 1..(job[w].step - 1)
      BY <3>1, PlanAssumption DEF InPlan, Here
    <3> QED
      BY <2>1, <3>1, <3>2 DEF UpTo, Whole
  <2>3. ~Creating(w)' /\ ~Unasked(w)'
    BY <2>1 DEF Creating, Unasked, At
  <2>4. VerdictOK(w)'
    BY <2>1, <2>2 DEF SameSubject, VerdictOK, At, Whole, Ran
  <2> QED
    BY <2>1, <2>3, <2>4, CompletionByOne
<1>11. CASE UpdateTask(w)
  <2>1. /\ At(w, "task") /\ OnlyJob(w) /\ job'[w].at = "payload_read"
        /\ UNCHANGED <<approvals, created>> /\ RunsStay
        /\ UpdateTaskStatus(job[w].task, job[w].verdict)
    BY <1>11, GotoJob, SameRuns DEF UpdateTask, Points, history, WellFormed, TypeOK
  <2>2. /\ job[w].task \in Tasks /\ job[w].verdict \in TaskStatus
        /\ job[w].verdict = "completed" => Whole(job[w].task)
    BY <2>1 DEF At, WellFormed, TypeOK, RequestOK, Requests, Completion, VerdictOK
  <2>3. TasksNext
    BY <2>1, <2>2, Updated
  <2>4. ~Creating(w)' /\ ~Unasked(w)' /\ VerdictOK(w)'
    BY <2>1 DEF Creating, Unasked, VerdictOK, At
  <2> QED
    BY <2>1, <2>3, <2>4, CompletionByOne
<1> QED
  BY <1>1, <1>2, <1>3, <1>4, <1>5, <1>6, <1>7, <1>8, <1>9, <1>10, <1>11
     DEF CreateSteps

\* Completion is inductive beside WellFormed and Reached.
LEMMA CompletionAlways == Spec => []Completion
<1>1. Init => Completion
  BY DEF Init, DecisionsInit, Completion, NeverAsked, CreationOK, Creating, Unasked,
     VerdictOK, RowCompleted, Asked, At, NoRow, NoRequest
<1>2. WellFormed /\ Reached /\ Completion /\ [Next]_vars => Completion'
  <2>1. ASSUME WellFormed, Reached, Completion, NEW w \in Workers, Step(w)
        PROVE  Completion'
    BY <2>1, WellFormedStep, StepSorted, WalksCompletion, PlanCompletion
  <2>2. Completion /\ UNCHANGED vars => Completion'
    BY DEF vars, stores, Completion, NeverAsked, CreationOK, Creating, Unasked,
       VerdictOK, RowCompleted, Asked, At, Whole, Ran
  <2> QED
    BY <2>1, <2>2 DEF Next
<1> QED
  BY <1>1, <1>2, WellFormedAlways, ReachedAlways, PTL DEF Spec

\* What the stores claim of a plan has happened, on either backend, with any
\* number of workers and requests cut short: an approval is consumed only once
\* its own step has succeeded, and a multitool task that asked for an approval
\* is completed only when every step of its plan has.
THEOREM RealProgress == Spec => []ProgressIsReal
<1>1. Reached /\ Completion => ProgressIsReal
  BY DEF Reached, RowReached, Completion, RowCompleted, Whole, ProgressIsReal
<1> QED
  BY <1>1, ReachedAlways, CompletionAlways, PTL

-----------------------------------------------------------------------------
(* On SQLiteApprovalStore a high-risk step runs under its own approval.     *)

Granted(a) == approvals[a].status = "approved"

\* What is approved stays approved.
GrantsStay == \A a \in ApprovalIds : Granted(a) => Granted(a)'

\* A request about to run the approved step has an approval.
GrantedInv ==
  /\ HighRiskApproved
  /\ \A w \in Workers : At(w, "approved_step") => Granted(job[w].appr)

\* The update of decide_approval changes a pending row only, and update_payload
\* no status.
LEMMA GrantsKept ==
  ASSUME ~Postgres, WellFormed, NEW w \in Workers, Step(w)
  PROVE  GrantsStay
<1>a. approvals \in [ApprovalIds -> Rows]
  BY DEF WellFormed, TypeOK
<1>1. CASE UNCHANGED approvals
  BY <1>1 DEF GrantsStay, Granted
<1>2. CASE DecideWrite(w)
  <2>1. \/ UNCHANGED approvals
        \/ /\ approvals[job[w].appr].status = "pending"
           /\ approvals' = [approvals EXCEPT ![job[w].appr] =
                              [approvals[job[w].appr] EXCEPT !.status = job[w].verb]]
    BY <1>2 DEF DecideWrite, PutRow
  <2> QED
    BY <1>a, <1>1, <2>1 DEF GrantsStay, Granted
<1>3. CASE PayloadWrite(w)
  <2> DEFINE s == job[w].consumed \/ job[w].seen
             row == [approvals[job[w].appr] EXCEPT !.resumed = s]
  <2>1. approvals' = [approvals EXCEPT ![job[w].appr] = row]
    BY <1>3 DEF PayloadWrite, PutRow
  <2>2. job[w].appr \in ApprovalIds
    BY <1>3 DEF PayloadWrite, At, WellFormed, RequestOK, Bound, Points
  <2>3. row.status = approvals[job[w].appr].status
    BY <1>a, <2>2 DEF Rows
  <2> HIDE DEF row
  <2> QED
    BY <1>a, <2>1, <2>2, <2>3 DEF GrantsStay, Granted
<1>4. CASE PlanBlock(w) \/ RestBlock(w)
  <2>1. \E a \in ApprovalIds, t \in Tasks, k \in HighRisk : NewRow(a, t, k)
    <3>1. job[w].task \in Tasks
      BY <1>4 DEF PlanBlock, RestBlock, At, WellFormed, RequestOK
    <3> QED
      BY <1>4, <3>1, PlanBlockDoes, RestBlockDoes
  <2> QED
    BY <2>1 DEF NewRow, GrantsStay, Granted, Asked
<1>5. \/ UNCHANGED approvals
      \/ DecideWrite(w) \/ PayloadWrite(w) \/ PlanBlock(w) \/ RestBlock(w)
  BY DEF Step, Serve, DecisionSteps, DecisionRequests, DecisionFaults, CreateSteps,
     ResumeSteps, DecideRead, DecideSelect, AuditDecision, CancelTask,
     CancelCheckpoint, PayloadRead, Approve, Reject, ManualResume, Request,
     CancelTaskFault, Abort, CreateTask, PlanCall, PlanOver, PlanFault, Save,
     Resume, ResumeEntry, ApprovedStepUnresolved, ApprovedStep, RestCall,
     RestOver, UpdateTask, stores
<1> QED
  BY <1>1, <1>2, <1>3, <1>4, <1>5

\* Only resume lets a request on to the approved step, once it has seen the
\* approval approved.
LEMMA GrantSeen ==
  ASSUME WellFormed, NEW w \in Workers, Step(w), job'[w].at = "approved_step"
  PROVE  At(w, "resume") /\ Granted(job[w].appr) /\ job'[w].appr = job[w].appr
<1>a. job \in [Workers -> Requests]
  BY DEF WellFormed, TypeOK
<1>b. ASSUME NEW p \in Points, Goto(w, p) PROVE job'[w].at = p
  BY <1>a, <1>b, GotoJob
<1>c. Done(w) => job'[w].at = "idle"
  BY <1>a, DoneJob
<1>1. CASE Resume(w)
  <2>1. job[w].appr \in ApprovalIds /\ approvals[job[w].appr].mode = "multitool"
    BY <1>1 DEF Resume, ResumeEntry, At, WellFormed, RequestOK, RowOK, Bound, Points
  <2>2. At(w, "resume") /\ Granted(job[w].appr) /\ Goto(w, "approved_step")
    BY <1>1, <1>c, <2>1 DEF Resume, ResumeEntry, Granted
  <2> QED
    BY <1>a, <2>2, GotoJob DEF SameSubject, Points
<1>2. CASE DecisionSteps(w) \/ DecisionFaults(w)
  <2>1. \/ Done(w) \/ PayloadRead(w)
        \/ \E p \in Points \ {"approved_step"} : Goto(w, p)
    BY <1>2 DEF DecisionSteps, DecisionFaults, DecideRead, DecideSelect, DecideWrite,
       AuditDecision, CancelTask, CancelCheckpoint, PayloadWrite, CancelTaskFault,
       Abort, Points
  <2>2. PayloadRead(w) => job'[w].at = "payload_write"
    BY <1>a DEF PayloadRead, PutJob, Requests
  <2> QED
    BY <1>b, <1>c, <2>1, <2>2
<1>3. CASE DecisionRequests(w)
  <2>1. \E a \in ApprovalIds, p \in {"decide", "resume"}, v \in Decisions :
          job' = [job EXCEPT ![w] = [NoRequest EXCEPT !.at = p, !.appr = a, !.verb = v,
                                                 !.task = approvals[a].task]]
    BY <1>3 DEF DecisionRequests, Approve, Reject, ManualResume, Request, PutJob, Decisions
  <2>2. job'[w].at \in {"decide", "resume"}
    BY <1>a, <2>1 DEF NoRequest
  <2> QED
    BY <2>2
<1>4. CASE \/ \E t \in Tasks : CreateTask(w, t)
           \/ CreateSteps(w) \/ PlanFault(w)
  BY <1>4, <1>c, CreateTaskDoes, PlanCallDoes, PlanBlockDoes, PlanStopDoes
     DEF CreateSteps, Save
<1>5. CASE \/ ApprovedStepUnresolved(w) \/ ApprovedStep(w)
           \/ RestCall(w) \/ RestBlock(w) \/ RestOver(w) \/ UpdateTask(w)
  <2>1. UpdateTask(w) => job'[w].at = "payload_read"
    BY <1>b DEF UpdateTask, Points
  <2> QED
    BY <1>5, <2>1, UnresolvedDoes, ApprovedStepDoes, RestCallDoes, RestBlockDoes,
       RestOverDoes
<1> QED
  BY <1>1, <1>2, <1>3, <1>4, <1>5 DEF Step, Serve, ResumeSteps

\* The approval of a step stays with it: what a high-risk step has run under is
\* there and approved.
LEMMA ApprovalStays ==
  ASSUME HighRiskApproved, WellFormed, RowsStay, GrantsStay,
         NEW t \in Tasks, NEW k \in HighRisk, Ran(t, k)
  PROVE  \E a \in ApprovalIds : /\ approvals'[a].task = t /\ approvals'[a].step = k
                                /\ approvals'[a].status = "approved"
<1>1. PICK a \in ApprovalIds : /\ approvals[a].task = t /\ approvals[a].step = k
                               /\ approvals[a].status = "approved"
  BY DEF HighRiskApproved
<1> QED
  BY <1>1 DEF RowsStay, GrantsStay, Granted, Asked

\* A high-risk step that has run since is the approved step of a resume.
LEMMA HighRiskRuns ==
  ASSUME WellFormed, NEW w \in Workers, Step(w), NEW t \in Tasks,
         NEW k \in HighRisk, Ran(t, k)', ~Ran(t, k)
  PROVE  /\ At(w, "approved_step") /\ job[w].task = t
         /\ approvals[job[w].appr].step = k
<1>a. k \in 1..Length
  BY PlanAssumption
<1>1. ~UNCHANGED runs
  BY DEF Ran
<1>2. PlanCall(w) \/ ApprovedStep(w) \/ RestCall(w)
  BY <1>1, StepSorted
     DEF history, CreateTask, CreateSteps, PlanBlock, PlanOver, PlanFault, Save,
     ApprovedStepUnresolved, RestBlock, RestOver, UpdateTask
<1>3. CASE PlanCall(w)
  BY <1>1, <1>3, <1>a, PlanCallDoes DEF NowRan
<1>4. CASE RestCall(w)
  BY <1>1, <1>4, <1>a, RestCallDoes DEF NowRan
<1>5. CASE ApprovedStep(w)
  BY <1>1, <1>5, <1>a, ApprovedStepDoes DEF NowRan
<1> QED
  BY <1>2, <1>3, <1>4, <1>5

\* A step changes the request of its worker only.
LEMMA OneAtATime ==
  ASSUME WellFormed, NEW w \in Workers, Step(w)
  PROVE  OnlyJob(w)
<1>1. Save(w) => OnlyJob(w)
  BY DoneJob DEF Save, WellFormed, TypeOK
<1>2. UpdateTask(w) => OnlyJob(w)
  BY GotoJob DEF UpdateTask, Points, WellFormed, TypeOK
<1> QED
  BY <1>1, <1>2, StepSorted, CreateTaskDoes, PlanCallDoes, PlanBlockDoes,
     PlanStopDoes, UnresolvedDoes, ApprovedStepDoes, RestCallDoes, RestBlockDoes,
     RestOverDoes DEF Walks, CreateSteps

\* GrantedInv is inductive beside WellFormed where a decision is final.
LEMMA GrantedStep ==
  ASSUME ~Postgres, WellFormed, GrantedInv, NEW w \in Workers, Step(w)
  PROVE  GrantedInv'
<1>a. GrantsStay /\ RowsStay
  BY GrantsKept, WellFormedStep
<1>b. ASSUME NEW v \in Workers, At(v, "approved_step") \/ At(v, "resume")
      PROVE  /\ job[v].appr \in ApprovalIds /\ Asked(job[v].appr)
             /\ approvals[job[v].appr].task = job[v].task
  BY <1>b DEF At, WellFormed, RequestOK, Bound, Points
<1>1. ASSUME NEW t \in Tasks, NEW k \in HighRisk, Ran(t, k)'
      PROVE  \E a \in ApprovalIds :
               /\ approvals'[a].task = t /\ approvals'[a].step = k
               /\ approvals'[a].status = "approved"
  <2>1. CASE Ran(t, k)
    BY <1>a, <2>1, ApprovalStays DEF GrantedInv
  <2>2. CASE ~Ran(t, k)
    <3>1. /\ At(w, "approved_step") /\ job[w].task = t
          /\ approvals[job[w].appr].step = k
      BY <1>1, <2>2, HighRiskRuns
    <3>2. /\ job[w].appr \in ApprovalIds /\ Asked(job[w].appr)
          /\ approvals[job[w].appr].task = t /\ Granted(job[w].appr)
      BY <1>b, <3>1 DEF GrantedInv
    <3> QED
      BY <1>a, <3>1, <3>2 DEF GrantsStay, RowsStay, Granted
  <2> QED
    BY <2>1, <2>2
<1>2. ASSUME NEW v \in Workers, At(v, "approved_step")'
      PROVE  approvals'[job'[v].appr].status = "approved"
  <2>1. CASE v = w
    <3>1. At(v, "resume") /\ Granted(job[v].appr) /\ job'[v].appr = job[v].appr
      BY <1>2, <2>1, GrantSeen DEF At
    <3> QED
      BY <1>a, <1>b, <3>1 DEF GrantsStay, Granted
  <2>2. CASE v # w
    <3>1. job'[v] = job[v]
      BY <2>2, OneAtATime DEF OnlyJob
    <3>2. At(v, "approved_step") /\ Granted(job[v].appr)
      BY <1>2, <3>1 DEF At, GrantedInv
    <3> QED
      BY <1>a, <1>b, <3>1, <3>2 DEF GrantsStay, Granted
  <2> QED
    BY <2>1, <2>2
<1> QED
  BY <1>1, <1>2 DEF GrantedInv, HighRiskApproved, Granted

\* A high-risk step runs only under an approval of that very step, which still
\* stands: on SQLiteApprovalStore, with any number of workers, retries, racing
\* decisions and requests cut short.
THEOREM SQLiteHighRiskApproved ==
  ASSUME ~Postgres PROVE Spec => []HighRiskApproved
<1>1. Init => GrantedInv
  <2> SUFFICES ASSUME Init PROVE GrantedInv
    OBVIOUS
  <2>1. \A t \in Tasks, k \in HighRisk : ~Ran(t, k)
    BY PlanAssumption DEF Init, Ran
  <2>2. \A w \in Workers : ~At(w, "approved_step")
    BY DEF Init, DecisionsInit, At, NoRequest
  <2> QED
    BY <2>1, <2>2 DEF GrantedInv, HighRiskApproved
<1>2. WellFormed /\ GrantedInv /\ [Next]_vars => GrantedInv'
  <2>1. GrantedInv /\ UNCHANGED vars => GrantedInv'
    BY DEF vars, stores, GrantedInv, HighRiskApproved, Granted, At, Ran
  <2> QED
    BY <2>1, GrantedStep DEF Next
<1>3. GrantedInv => HighRiskApproved
  BY DEF GrantedInv
<1> QED
  BY <1>1, <1>2, <1>3, WellFormedAlways, PTL DEF Spec

=============================================================================
