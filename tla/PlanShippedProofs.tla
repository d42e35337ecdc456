------------------------- MODULE PlanShippedProofs -------------------------
(***************************************************************************)
(* Proofs about PlanApprovals as it is shipped: one process, whose         *)
(* requests run to their end.  Any plan, any number of tasks and           *)
(* approvals, either backend.                                              *)
(***************************************************************************)
EXTENDS PlanApprovalsProofs

-----------------------------------------------------------------------------
(* The invariant.                                                          *)

\* The request is past the approved step of a, which succeeded.
UsingUp(w, a) ==
  /\ job[w].appr = a /\ job[w].consumed
  /\ job[w].at \in {"rest", "task", "payload_read", "payload_write"}

\* Approval a can still lead to a call of its step.
Live(w, a) == Open(a) /\ ~UsingUp(w, a)

\* The step of a has been run under it.
UsedUp(w, a) == approvals[a].status = "approved" /\ ~Live(w, a)

\* A task has one live approval at most; no step from its own on has run.
LiveOnce(w) ==
  /\ \A a, b \in ApprovalIds :
       Live(w, a) /\ Live(w, b) /\ approvals[a].task = approvals[b].task => a = b
  /\ \A a \in ApprovalIds, k \in 1..Length :
       Live(w, a) /\ k >= approvals[a].step => ~Ran(approvals[a].task, k)

\* A rejection ends the plan, and only an approved approval is consumed.
RowsAgree ==
  /\ \A a, b \in ApprovalIds :
       approvals[a].status = "rejected" /\ Open(b)
         => approvals[a].task # approvals[b].task
  /\ \A a \in ApprovalIds :
       approvals[a].resumed => approvals[a].status = "approved"

\* Nothing is known of a task before it is created.
TaskFresh(t) ==
  /\ \A a \in ApprovalIds : Asked(a) => approvals[a].task # t
  /\ \A k \in 1..Length : ~Ran(t, k)

\* The status of task t agrees with its approvals.
TaskAgrees(w, t) ==
  Mode[t] = "multitool" =>
    /\ \A a \in ApprovalIds : Live(w, a) /\ approvals[a].task = t =>
         \/ tasks[t] = "waiting_approval"
         \/ tasks[t] = "failed" /\ approvals[a].status = "approved"
    /\ \A a \in ApprovalIds :
         approvals[a].status = "rejected" /\ approvals[a].task = t
           => tasks[t] = "cancelled"
    /\ \A a \in ApprovalIds :
         UsedUp(w, a) /\ approvals[a].task = t /\ tasks[t] = "waiting_approval"
           => \E b \in ApprovalIds : Live(w, b) /\ approvals[b].task = t

\* Where the task of the request agrees with its approvals even now.
AgreePoints == {"decide", "decide_select", "decide_write", "cancel_checkpoint",
                "resume", "approved_step", "payload_read", "payload_write"}
ResumePoints == {"approved_step", "rest", "task", "payload_read", "payload_write"}

\* What is known of the request, its approval a and task t.
SubjectOK(w, a, t) ==
  LET at == job[w].at IN
  /\ at \in AgreePoints => TaskAgrees(w, t)
  /\ at \in {"decide_select", "decide_write"} => approvals[a].status = "pending"
  /\ at = "audit" => approvals[a].status = job[w].verb /\ ~approvals[a].resumed
  /\ at = "audit" /\ job[w].verb = "approved" => TaskAgrees(w, t)
  /\ at \in {"cancel_task", "cancel_checkpoint"} =>
       approvals[a].status = "rejected"
  /\ at \in {"audit", "cancel_task"} /\ Mode[t] = "multitool" =>
       tasks[t] = "waiting_approval"
  /\ at \in ResumePoints =>
       approvals[a].status = "approved" /\ ~approvals[a].resumed
  /\ at \in {"rest", "task"} /\ Mode[t] = "multitool" => tasks[t] # "absent"
  /\ at = "payload_write" => ~job[w].seen

\* What is known while the rest of a plan runs and after.
RestOK(w, t) ==
  LET at == job[w].at IN
  /\ at = "rest" =>
       /\ job[w].consumed
       /\ \A a \in ApprovalIds : Live(w, a) => approvals[a].task # t
       /\ \A k \in 1..Length : k >= Here(w) => ~Ran(t, k)
  /\ at = "task" =>
       /\ job[w].verdict = "waiting_approval" =>
            \E a \in ApprovalIds : Live(w, a) /\ approvals[a].task = t
       /\ job[w].verdict # "waiting_approval" => job[w].verdict \in {"completed", "failed"}
       /\ \A a \in ApprovalIds : Live(w, a) /\ approvals[a].task = t =>
            \/ job[w].verdict = "waiting_approval"
            \/ job[w].verdict = "failed" /\ approvals[a].status = "approved"

\* What is known while a plan is run for the first time.
CreationKnown(w, t) ==
  LET at == job[w].at IN
  /\ at \in {"plan", "save"} => t \in created
  /\ at = "plan" =>
       /\ \A a \in ApprovalIds : Asked(a) => approvals[a].task # t
       /\ \A k \in 1..Length : k >= Here(w) => ~Ran(t, k)
  /\ at = "save" =>
       \A a \in ApprovalIds : Asked(a) /\ approvals[a].task = t =>
         /\ approvals[a].status = "pending" /\ ~approvals[a].resumed
         /\ Mode[t] = "multitool" => job[w].verdict = "waiting_approval"

RequestKnown(w) ==
  \A t \in Tasks : job[w].task = t =>
    /\ RestOK(w, t) /\ CreationKnown(w, t)
    /\ \A a \in ApprovalIds : job[w].appr = a => SubjectOK(w, a, t)

OneRequest(w) ==
  /\ StepOnce /\ LiveOnce(w) /\ RowsAgree
  /\ \A t \in Tasks \ created : TaskFresh(t)
  /\ \A t \in Tasks : At(w, "idle") \/ job[w].task # t => TaskAgrees(w, t)
  /\ RequestKnown(w)

-----------------------------------------------------------------------------
(* What a step leaves alone.                                               *)

\* A step of w concerns task t only, and is about it still or ends the request.
Within(w, t) ==
  /\ \A a \in ApprovalIds : Asked(a) /\ approvals[a].task # t =>
       approvals'[a] = approvals[a]
  /\ \A a \in ApprovalIds : ~Asked(a) => ~Asked(a)' \/ approvals'[a].task = t
  /\ RowsStay
  /\ \A u \in Tasks \ {t} : tasks'[u] = tasks[u] /\ runs'[u] = runs[u]
  /\ created' = created
  /\ job'[w] = NoRequest \/ (job'[w].at # "idle" /\ job'[w].task = t)

\* The approvals of task t after a step.
HereOK(w, t) ==
  /\ \A k \in 1..Length : runs[t][k] <= 1
  /\ \A a, b \in ApprovalIds :
       Live(w, a) /\ Live(w, b) /\ approvals[a].task = t /\ approvals[b].task = t
         => a = b
  /\ \A a \in ApprovalIds, k \in 1..Length :
       Live(w, a) /\ approvals[a].task = t /\ k >= approvals[a].step => ~Ran(t, k)
  /\ \A a, b \in ApprovalIds :
       ~(/\ approvals[a].status = "rejected" /\ Open(b)
         /\ approvals[a].task = t /\ approvals[b].task = t)
  /\ \A a \in ApprovalIds : approvals[a].task = t =>
       (approvals[a].resumed => approvals[a].status = "approved")

\* Initially nothing has been asked for.
LEMMA OneRequestInit == ASSUME NEW w \in Workers, Init PROVE OneRequest(w)
<1> USE DecisionsAssumption, PlanAssumption
<1>1. /\ \A a \in ApprovalIds : approvals[a] = NoRow
      /\ job[w] = NoRequest /\ runs = [t \in Tasks |-> [k \in 1..Length |-> 0]]
  BY DEF Init, DecisionsInit
<1>2. \A a \in ApprovalIds : /\ ~Asked(a) /\ ~Open(a) /\ ~Live(w, a)
                             /\ ~UsedUp(w, a)
                             /\ approvals[a].status # "rejected"
                             /\ ~approvals[a].resumed
  BY <1>1 DEF Asked, Open, Live, UsedUp, NoRow
<1>3. StepOnce /\ \A t \in Tasks, k \in 1..Length : ~Ran(t, k)
  BY <1>1 DEF StepOnce, Ran
<1>4. \A t \in Tasks : TaskAgrees(w, t) /\ TaskFresh(t)
  BY <1>2, <1>3 DEF TaskAgrees, TaskFresh
<1>5. RequestKnown(w)
  BY <1>1 DEF RequestKnown, NoRequest
<1> QED
  BY <1>2, <1>3, <1>4, <1>5 DEF OneRequest, LiveOnce, RowsAgree

\* An approval of another task than the request's is live when it is open.
LEMMA LiveElsewhere ==
  ASSUME WellFormed, NEW w \in Workers, NEW a \in ApprovalIds, Asked(a),
         At(w, "idle") \/ approvals[a].task # job[w].task
  PROVE  Live(w, a) <=> Open(a)
BY DEF WellFormed, RequestOK, Bound, Points, Live, UsingUp, At

\* A live or rejected or consumed approval exists.
LEMMA LiveAsked ==
  ASSUME WellFormed, NEW w \in Workers, NEW a \in ApprovalIds
  PROVE  /\ Live(w, a) => Open(a)
         /\ Open(a) => Asked(a)
         /\ approvals[a].resumed => Asked(a)
         /\ UsedUp(w, a) => Asked(a)
         /\ approvals[a].status = "rejected" => Asked(a)
         /\ Asked(a) => approvals[a].task \in Tasks /\ approvals[a].step \in 1..Length
<1>1. IF Asked(a) THEN approvals[a].task \in Tasks /\ approvals[a].step \in HighRisk
      ELSE approvals[a] = NoRow
  BY DEF WellFormed, RowOK
<1>2. approvals[a].resumed => Asked(a)
  BY <1>1 DEF NoRow
<1>3. Live(w, a) => Open(a)
  BY DEF Live
<1>4. Open(a) => Asked(a)
  BY DEF Open, Asked
<1>5. UsedUp(w, a) => Asked(a)
  BY DEF UsedUp, Asked
<1>6. approvals[a].status = "rejected" => Asked(a)
  BY DEF Asked
<1>7. Asked(a) => approvals[a].task \in Tasks /\ approvals[a].step \in 1..Length
  BY <1>1, PlanAssumption
<1> QED
  BY <1>2, <1>3, <1>4, <1>5, <1>6, <1>7

\* The tasks a step is not about agree with their approvals as before.
LEMMA AgreesElsewhere ==
  ASSUME WellFormed, WellFormed', NEW w \in Workers, NEW t \in Tasks,
         ~At(w, "idle"), job[w].task = t, Within(w, t),
         NEW u \in Tasks, u # t
  PROVE  /\ \A a \in ApprovalIds : Asked(a)' /\ approvals'[a].task = u =>
              /\ Asked(a) /\ approvals'[a] = approvals[a]
              /\ Live(w, a)' <=> Live(w, a)
              /\ Open(a)' <=> Open(a)
              /\ UsedUp(w, a)' <=> UsedUp(w, a)
         /\ \A a \in ApprovalIds : Asked(a) /\ approvals[a].task = u =>
              approvals'[a] = approvals[a] /\ Asked(a)'
         /\ TaskAgrees(w, u) => TaskAgrees(w, u)'
<1>1. ASSUME NEW a \in ApprovalIds, Asked(a)', approvals'[a].task = u
      PROVE  Asked(a) /\ approvals'[a] = approvals[a]
  BY <1>1 DEF Within, RowsStay
<1>2. ASSUME NEW a \in ApprovalIds, Asked(a), approvals[a].task = u
      PROVE  approvals'[a] = approvals[a] /\ Asked(a)'
  BY <1>2 DEF Within, Asked
<1>3. ASSUME NEW a \in ApprovalIds, Asked(a), approvals[a].task = u
      PROVE  /\ Live(w, a)' <=> Live(w, a)
             /\ Open(a)' <=> Open(a)
             /\ UsedUp(w, a)' <=> UsedUp(w, a)
  <2>1. Live(w, a) <=> Open(a)
    BY <1>3, LiveElsewhere
  <2>2. At(w, "idle")' \/ approvals'[a].task # job'[w].task
    BY <1>2, <1>3 DEF Within, At, NoRequest
  <2>3. Live(w, a)' <=> Open(a)'
    BY <1>2, <1>3, <2>2 DEF WellFormed, RequestOK, Bound, Points, Live, UsingUp, At
  <2>4. Open(a)' <=> Open(a)
    BY <1>2, <1>3 DEF Open
  <2>5. UsedUp(w, a)' <=> UsedUp(w, a)
    BY <1>2, <1>3, <2>1, <2>3, <2>4 DEF UsedUp
  <2> QED
    BY <2>1, <2>3, <2>4, <2>5
<1>4. ASSUME TaskAgrees(w, u), Mode[u] = "multitool"
      PROVE  TaskAgrees(w, u)'
  <2>1. tasks'[u] = tasks[u]
    BY DEF Within
  <2>2. \A a \in ApprovalIds : /\ Live(w, a) \/ UsedUp(w, a) => Asked(a)
                               /\ approvals[a].status = "rejected" => Asked(a)
    BY LiveAsked
  <2>3. \A a \in ApprovalIds : /\ Live(w, a)' \/ UsedUp(w, a)' => Asked(a)'
                               /\ approvals'[a].status = "rejected" => Asked(a)'
    BY DEF Live, UsedUp, Open, Asked
  <2>4. ASSUME NEW a \in ApprovalIds, UsedUp(w, a)', approvals'[a].task = u,
               tasks'[u] = "waiting_approval"
        PROVE  \E b \in ApprovalIds : Live(w, b)' /\ approvals'[b].task = u
    <3>1. UsedUp(w, a) /\ approvals[a].task = u
      BY <1>1, <1>3, <2>3, <2>4
    <3>2. PICK b \in ApprovalIds : Live(w, b) /\ approvals[b].task = u
      BY <1>4, <2>1, <2>4, <3>1 DEF TaskAgrees
    <3> QED
      BY <1>2, <1>3, <2>2, <3>2
  <2> QED
    BY <1>1, <1>3, <1>4, <2>1, <2>3, <2>4 DEF TaskAgrees
<1>5. TaskAgrees(w, u) => TaskAgrees(w, u)'
  <2>1. CASE Mode[u] # "multitool"
    BY <2>1 DEF TaskAgrees
  <2> QED
    BY <1>4, <2>1
<1> QED
  BY <1>1, <1>2, <1>3, <1>5

\* What is known of the request and its task.
Known(w, t) ==
  /\ RestOK(w, t) /\ CreationKnown(w, t)
  /\ \A a \in ApprovalIds : job[w].appr = a => SubjectOK(w, a, t)

\* What is left to show of a step of a request about task t.
LEMMA StepAbout ==
  ASSUME WellFormed, WellFormed', NEW w \in Workers, OneRequest(w),
         NEW t \in Tasks, t \in created, ~At(w, "idle"), job[w].task = t,
         Within(w, t), HereOK(w, t)',
         \/ job'[w] = NoRequest /\ TaskAgrees(w, t)'
         \/ job'[w].at # "idle" /\ Known(w, t)'
  PROVE  OneRequest(w)'
<1>1. ASSUME NEW u \in Tasks, u # t
      PROVE  /\ \A a \in ApprovalIds : Asked(a)' /\ approvals'[a].task = u =>
                  /\ Asked(a) /\ approvals'[a] = approvals[a]
                  /\ Live(w, a)' <=> Live(w, a)
                  /\ Open(a)' <=> Open(a)
             /\ TaskAgrees(w, u)'
  <2>1. TaskAgrees(w, u)
    BY <1>1 DEF OneRequest
  <2> QED
    BY <1>1, <2>1, AgreesElsewhere
<1>2. \A a \in ApprovalIds :
        /\ Live(w, a)' => Open(a)'
        /\ Open(a)' => Asked(a)'
        /\ approvals'[a].resumed => Asked(a)'
        /\ approvals'[a].status = "rejected" => Asked(a)'
        /\ Asked(a)' => approvals'[a].task \in Tasks /\ approvals'[a].step \in 1..Length
  <2> SUFFICES ASSUME NEW a \in ApprovalIds
               PROVE  /\ Live(w, a)' => Open(a)'
                      /\ Open(a)' => Asked(a)'
                      /\ approvals'[a].resumed => Asked(a)'
                      /\ approvals'[a].status = "rejected" => Asked(a)'
                      /\ Asked(a)' => /\ approvals'[a].task \in Tasks
                                      /\ approvals'[a].step \in 1..Length
    OBVIOUS
  <2>1. IF Asked(a)' THEN approvals'[a].task \in Tasks /\ approvals'[a].step \in HighRisk
        ELSE approvals'[a] = NoRow
    BY DEF WellFormed, RowOK
  <2>2. approvals'[a].resumed => Asked(a)'
    BY <2>1 DEF NoRow
  <2>3. Asked(a)' => approvals'[a].task \in Tasks /\ approvals'[a].step \in 1..Length
    BY <2>1, PlanAssumption
  <2>4. Live(w, a)' => Open(a)'
    BY DEF Live
  <2>5. (Open(a)' => Asked(a)') /\ (approvals'[a].status = "rejected" => Asked(a)')
    BY DEF Open, Asked
  <2> QED
    BY <2>2, <2>3, <2>4, <2>5
<1>3. StepOnce'
  BY DEF OneRequest, StepOnce, HereOK, Within
<1>4. \A a, b \in ApprovalIds :
        Live(w, a)' /\ Live(w, b)' /\ approvals'[a].task = approvals'[b].task => a = b
  <2> SUFFICES ASSUME NEW a \in ApprovalIds, NEW b \in ApprovalIds, NEW u \in Tasks,
                      Live(w, a)', Live(w, b)',
                      approvals'[a].task = u, approvals'[b].task = u
               PROVE  a = b
    BY <1>2
  <2>1. CASE u = t
    BY <2>1 DEF HereOK
  <2>2. CASE u # t
    BY <1>1, <1>2, <2>2 DEF OneRequest, LiveOnce
  <2> QED
    BY <2>1, <2>2
<1>5. \A a \in ApprovalIds, k \in 1..Length :
        Live(w, a)' /\ k >= approvals'[a].step
          => ~(runs'[approvals'[a].task][k] > 0)
  <2> SUFFICES ASSUME NEW a \in ApprovalIds, NEW k \in 1..Length, NEW u \in Tasks,
                      Live(w, a)', approvals'[a].task = u, k >= approvals'[a].step
               PROVE  ~Ran(u, k)'
    BY <1>2 DEF Ran
  <2>1. CASE u = t
    BY <2>1 DEF HereOK
  <2>2. CASE u # t
    <3>1. Live(w, a) /\ approvals'[a] = approvals[a]
      BY <1>1, <1>2, <2>2
    <3>2. ~Ran(u, k)
      BY <3>1 DEF OneRequest, LiveOnce
    <3> QED
      BY <2>2, <3>2 DEF Within, Ran
  <2> QED
    BY <2>1, <2>2
<1>6. RowsAgree'
  <2>1. ASSUME NEW a \in ApprovalIds, NEW b \in ApprovalIds, NEW u \in Tasks,
               approvals'[a].status = "rejected", Open(b)',
               approvals'[a].task = u, approvals'[b].task = u
        PROVE  FALSE
    <3>1. CASE u = t
      BY <2>1, <3>1 DEF HereOK
    <3>2. CASE u # t
      <4>1. approvals'[a] = approvals[a] /\ approvals'[b] = approvals[b] /\ Open(b)
        BY <1>1, <1>2, <2>1, <3>2
      <4> QED
        BY <2>1, <4>1 DEF OneRequest, RowsAgree
    <3> QED
      BY <3>1, <3>2
  <2>2. ASSUME NEW a \in ApprovalIds, approvals'[a].resumed
        PROVE  approvals'[a].status = "approved"
    <3>1. PICK u \in Tasks : approvals'[a].task = u
      BY <1>2, <2>2
    <3>2. CASE u = t
      BY <2>2, <3>1, <3>2 DEF HereOK
    <3>3. CASE u # t
      <4>1. approvals'[a] = approvals[a]
        BY <1>1, <1>2, <2>2, <3>1, <3>3
      <4> QED
        BY <2>2, <4>1 DEF OneRequest, RowsAgree
    <3> QED
      BY <3>2, <3>3
  <2> QED
    BY <1>2, <2>1, <2>2 DEF RowsAgree
<1>7. \A u \in Tasks \ created' : TaskFresh(u)'
  <2> SUFFICES ASSUME NEW u \in Tasks, u \notin created
               PROVE  TaskFresh(u)'
    BY DEF Within
  <2>1. u # t /\ TaskFresh(u)
    BY DEF OneRequest
  <2>2. \A k \in 1..Length : ~Ran(u, k)'
    BY <2>1 DEF TaskFresh, Ran, Within
  <2> QED
    BY <1>1, <2>1, <2>2 DEF TaskFresh
<1>8. LiveOnce(w)'
  BY <1>4, <1>5 DEF LiveOnce, Ran
<1>9. \A u \in Tasks : u # t => TaskAgrees(w, u)'
  BY <1>1
<1>10. CASE job'[w] = NoRequest /\ TaskAgrees(w, t)'
  <2>1. \A u \in Tasks : job'[w].task # u
    BY <1>10, DecisionsAssumption DEF NoRequest
  <2>2. RequestKnown(w)'
    BY <2>1 DEF RequestKnown
  <2>3. \A u \in Tasks : TaskAgrees(w, u)'
    BY <1>10, <1>9
  <2> QED
    BY <1>3, <1>6, <1>7, <1>8, <2>2, <2>3 DEF OneRequest
<1>11. CASE job'[w].at # "idle" /\ Known(w, t)'
  <2>1. job'[w].task = t /\ ~At(w, "idle")'
    BY <1>11 DEF Within, NoRequest, At
  <2>2. RequestKnown(w)'
    BY <1>11, <2>1 DEF RequestKnown, Known
  <2>3. \A u \in Tasks : At(w, "idle")' \/ job'[w].task # u => TaskAgrees(w, u)'
    BY <1>9, <2>1
  <2> QED
    BY <1>3, <1>6, <1>7, <1>8, <2>2, <2>3 DEF OneRequest
<1> QED
  BY <1>10, <1>11

\* The request of a worker with an approval, and what is known of it.
LEMMA BoundKnown ==
  ASSUME WellFormed, NEW w \in Workers, OneRequest(w), job[w].at \in Bound
  PROVE  \E a \in ApprovalIds, t \in Tasks :
           /\ job[w].appr = a /\ job[w].task = t /\ ~At(w, "idle")
           /\ Asked(a) /\ approvals[a].task = t /\ t \in created
           /\ Known(w, t) /\ SubjectOK(w, a, t)
           /\ approvals[a].step \in HighRisk /\ approvals[a].step \in 1..Length
<1>1. /\ job[w].appr \in ApprovalIds /\ Asked(job[w].appr)
      /\ approvals[job[w].appr].task = job[w].task /\ job[w].task \in Tasks
      /\ ~At(w, "idle")
  BY DEF WellFormed, RequestOK, Bound, At
<1>2. PICK a \in ApprovalIds, t \in Tasks : job[w].appr = a /\ job[w].task = t
  BY <1>1
<1>3. Asked(a) /\ approvals[a].task = t
  BY <1>1, <1>2
<1>4. t \in created
  BY <1>3 DEF OneRequest, TaskFresh
<1>5. Known(w, t) /\ SubjectOK(w, a, t)
  BY <1>2 DEF OneRequest, RequestKnown, Known
<1>6. approvals[a].step \in HighRisk /\ approvals[a].step \in 1..Length
  BY <1>3, PlanAssumption DEF WellFormed, RowOK
<1> QED
  BY <1>1, <1>2, <1>3, <1>4, <1>5, <1>6

\* What is known of the approvals of a task is so.
LEMMA HereNow ==
  ASSUME WellFormed, NEW w \in Workers, OneRequest(w), NEW t \in Tasks
  PROVE  HereOK(w, t)
<1>1. \A a \in ApprovalIds, k \in 1..Length :
        Live(w, a) /\ approvals[a].task = t /\ k >= approvals[a].step => ~Ran(t, k)
  BY DEF OneRequest, LiveOnce
<1>2. \A a, b \in ApprovalIds :
        Live(w, a) /\ Live(w, b) /\ approvals[a].task = t /\ approvals[b].task = t
          => a = b
  BY DEF OneRequest, LiveOnce
<1>3. \A a, b \in ApprovalIds :
        ~(/\ approvals[a].status = "rejected" /\ Open(b)
          /\ approvals[a].task = t /\ approvals[b].task = t)
  BY DEF OneRequest, RowsAgree
<1>4. \A k \in 1..Length : runs[t][k] <= 1
  BY DEF OneRequest, StepOnce
<1>5. \A a \in ApprovalIds : approvals[a].resumed => approvals[a].status = "approved"
  BY DEF OneRequest, RowsAgree
<1> QED
  BY <1>1, <1>2, <1>3, <1>4, <1>5 DEF HereOK

\* The request ends or goes on about the same task.
Stays(w) == \/ job'[w] = NoRequest
            \/ job'[w].at # "idle" /\ job'[w].task = job[w].task

\* A step that writes no store.
LEMMA Still ==
  ASSUME WellFormed, NEW w \in Workers, OneRequest(w), NEW t \in Tasks,
         job[w].task = t, Stays(w), UNCHANGED <<approvals, tasks, runs, created>>,
         \A a \in ApprovalIds : UsingUp(w, a)' <=> UsingUp(w, a)
  PROVE  /\ Within(w, t) /\ HereOK(w, t)'
         /\ TaskAgrees(w, t) => TaskAgrees(w, t)'
<1>1. \A a \in ApprovalIds : /\ Live(w, a)' <=> Live(w, a)
                             /\ UsedUp(w, a)' <=> UsedUp(w, a)
                             /\ Open(a)' <=> Open(a)
                             /\ approvals'[a] = approvals[a]
  BY DEF Live, UsedUp, Open
<1>2. tasks' = tasks /\ runs' = runs
  OBVIOUS
<1>3. TaskAgrees(w, t) => TaskAgrees(w, t)'
  BY <1>1, <1>2 DEF TaskAgrees
<1>4. HereOK(w, t)'
  <2>1. HereOK(w, t)
    BY HereNow
  <2> QED
    BY <1>1, <1>2, <2>1 DEF HereOK, Ran
<1>5. Within(w, t)
  BY DEF Within, RowsStay, Stays, Asked
<1> QED
  BY <1>3, <1>4, <1>5

\* Away from the end of a resume nothing is being used up.
LEMMA NotUsing ==
  ASSUME NEW w \in Workers,
         job[w].at \notin {"rest", "task", "payload_read", "payload_write"}
           \/ ~job[w].consumed,
         \/ job'[w] = NoRequest \/ ~job'[w].consumed
         \/ job'[w].at \notin {"rest", "task", "payload_read", "payload_write"}
  PROVE  \A a \in ApprovalIds : ~UsingUp(w, a) /\ ~UsingUp(w, a)'
BY DEF UsingUp, NoRequest

\* Known of a request that is not at work on a plan.
LEMMA KnownAway ==
  ASSUME NEW w \in Workers, NEW a \in ApprovalIds, NEW t \in Tasks,
         job'[w].appr = a, job'[w].at \in AwayFromPlan, SubjectOK(w, a, t)'
  PROVE  Known(w, t)' /\ job'[w].at # "idle"
<1>1. /\ job'[w].at # "rest" /\ job'[w].at # "task"
      /\ job'[w].at # "plan" /\ job'[w].at # "save" /\ job'[w].at # "idle"
  BY DEF AwayFromPlan, Bound, Points
<1>2. RestOK(w, t)' /\ CreationKnown(w, t)'
  BY <1>1 DEF RestOK, CreationKnown
<1> QED
  BY <1>1, <1>2 DEF Known

\* The steps of a decision that write no store.
LEMMA DecidingMoves ==
  ASSUME WellFormed, WellFormed', NEW w \in Workers, OneRequest(w),
         DecideRead(w) \/ DecideSelect(w), UNCHANGED history
  PROVE  OneRequest(w)'
<1>1. job[w].at \in {"decide", "decide_select"} /\ UNCHANGED <<stores, created, runs>>
  BY DEF DecideRead, DecideSelect, At, history
<1>2. PICK a \in ApprovalIds, t \in Tasks :
        /\ job[w].appr = a /\ job[w].task = t /\ ~At(w, "idle") /\ t \in created
        /\ SubjectOK(w, a, t)
  <2>1. job[w].at \in Bound
    BY <1>1 DEF Bound, Points
  <2> QED
    BY <2>1, BoundKnown
<1>3. \/ job'[w] = NoRequest
      \/ /\ job'[w].appr = a /\ job'[w].task = t /\ approvals[a].status = "pending"
         /\ job'[w].at \in {"decide_select", "decide_write"}
  <2> DEFINE next == IF At(w, "decide") /\ Postgres THEN "decide_select" ELSE "decide_write"
  <2>1. \/ Done(w)
        \/ Goto(w, next) /\ approvals[a].status = "pending"
    BY <1>1, <1>2 DEF DecideRead, DecideSelect, At
  <2>2. next \in Points /\ next \in {"decide_select", "decide_write"}
    BY DEF Points
  <2> HIDE DEF next
  <2>3. job \in [Workers -> Requests]
    BY DEF WellFormed, TypeOK
  <2>4. CASE Done(w)
    BY <2>3, <2>4, DoneJob
  <2>5. CASE Goto(w, next) /\ approvals[a].status = "pending"
    BY <1>2, <2>2, <2>3, <2>5, GotoJob DEF SameSubject
  <2> QED
    BY <2>1, <2>4, <2>5
<1>4. TaskAgrees(w, t)
  BY <1>1, <1>2 DEF SubjectOK, AgreePoints
<1>5. Within(w, t) /\ HereOK(w, t)' /\ TaskAgrees(w, t)'
  <2>1. Stays(w)
    BY <1>2, <1>3 DEF Stays
  <2>2. \A b \in ApprovalIds : ~UsingUp(w, b) /\ ~UsingUp(w, b)'
    BY <1>1, <1>3, NotUsing
  <2> QED
    BY <1>1, <1>2, <1>4, <2>1, <2>2, Still DEF stores
<1>6. CASE job'[w] = NoRequest
  BY <1>2, <1>5, <1>6, StepAbout
<1>7. CASE /\ job'[w].appr = a /\ job'[w].task = t /\ approvals[a].status = "pending"
           /\ job'[w].at \in {"decide_select", "decide_write"}
  <2>1. SubjectOK(w, a, t)'
    BY <1>1, <1>5, <1>7 DEF SubjectOK, stores, ResumePoints
  <2>2. job'[w].at \in AwayFromPlan
    BY <1>7 DEF AwayFromPlan, Bound, Points
  <2>3. Known(w, t)' /\ job'[w].at # "idle"
    BY <1>7, <2>1, <2>2, KnownAway
  <2> QED
    BY <1>2, <1>5, <2>3, StepAbout
<1> QED
  BY <1>3, <1>6, <1>7

\* After the audit event the decision is carried on or the request is over.
LEMMA AuditingMoves ==
  ASSUME WellFormed, WellFormed', NEW w \in Workers, OneRequest(w),
         AuditDecision(w), UNCHANGED history
  PROVE  OneRequest(w)'
<1>1. /\ job[w].at = "audit"
      /\ UNCHANGED <<approvals, tasks, created, runs>>
  BY DEF AuditDecision, At, history
<1>2. PICK a \in ApprovalIds, t \in Tasks :
        /\ job[w].appr = a /\ job[w].task = t /\ ~At(w, "idle") /\ t \in created
        /\ SubjectOK(w, a, t)
  <2>1. job[w].at \in Bound
    BY <1>1 DEF Bound, Points
  <2> QED
    BY <2>1, BoundKnown
<1>3. \/ job'[w] = NoRequest /\ job[w].verb = "approved"
      \/ /\ job'[w].appr = a /\ job'[w].task = t
         /\ \/ job[w].verb = "approved" /\ job'[w].at = "resume"
            \/ job[w].verb = "rejected" /\ job'[w].at = "cancel_task"
  <2>1. \/ Done(w) /\ job[w].verb = "approved"
        \/ Goto(w, "resume") /\ job[w].verb = "approved"
        \/ Goto(w, "cancel_task") /\ job[w].verb = "rejected"
    BY DEF AuditDecision
  <2>2. "resume" \in Points /\ "cancel_task" \in Points
    BY DEF Points
  <2>3. job \in [Workers -> Requests]
    BY DEF WellFormed, TypeOK
  <2>4. CASE Done(w) /\ job[w].verb = "approved"
    BY <2>3, <2>4, DoneJob
  <2>5. CASE Goto(w, "resume") /\ job[w].verb = "approved"
    BY <1>2, <2>2, <2>3, <2>5, GotoJob DEF SameSubject
  <2>6. CASE Goto(w, "cancel_task") /\ job[w].verb = "rejected"
    BY <1>2, <2>2, <2>3, <2>6, GotoJob DEF SameSubject
  <2> QED
    BY <2>1, <2>4, <2>5, <2>6
<1>4. /\ Within(w, t) /\ HereOK(w, t)'
      /\ TaskAgrees(w, t) => TaskAgrees(w, t)'
  <2>1. Stays(w)
    BY <1>2, <1>3 DEF Stays
  <2>2. \A b \in ApprovalIds : ~UsingUp(w, b) /\ ~UsingUp(w, b)'
    BY <1>1, <1>3, NotUsing
  <2> QED
    BY <1>1, <1>2, <2>1, <2>2, Still
<1>5. CASE job'[w] = NoRequest /\ job[w].verb = "approved"
  <2>1. TaskAgrees(w, t)
    BY <1>1, <1>2, <1>5 DEF SubjectOK
  <2> QED
    BY <1>2, <1>4, <1>5, <2>1, StepAbout
<1>6. CASE /\ job'[w].appr = a /\ job'[w].task = t
           /\ \/ job[w].verb = "approved" /\ job'[w].at = "resume"
              \/ job[w].verb = "rejected" /\ job'[w].at = "cancel_task"
  <2>1. SubjectOK(w, a, t)'
    <3>1. CASE job[w].verb = "approved" /\ job'[w].at = "resume"
      <4>1. TaskAgrees(w, t)'
        BY <1>1, <1>2, <1>4, <3>1 DEF SubjectOK
      <4> QED
        BY <3>1, <4>1 DEF SubjectOK, ResumePoints
    <3>2. CASE job[w].verb = "rejected" /\ job'[w].at = "cancel_task"
      <4>1. approvals'[a].status = "rejected"
        BY <1>1, <1>2, <3>2 DEF SubjectOK
      <4>2. Mode[t] = "multitool" => tasks'[t] = "waiting_approval"
        BY <1>1, <1>2, <3>2 DEF SubjectOK
      <4> QED
        BY <3>2, <4>1, <4>2 DEF SubjectOK, ResumePoints, AgreePoints
    <3> QED
      BY <1>6, <3>1, <3>2
  <2>2. job'[w].at \in AwayFromPlan
    BY <1>6 DEF AwayFromPlan, Bound, Points
  <2>3. Known(w, t)' /\ job'[w].at # "idle"
    BY <1>6, <2>1, <2>2, KnownAway
  <2> QED
    BY <1>2, <1>4, <2>3, StepAbout
<1> QED
  BY <1>3, <1>5, <1>6

\* A resume enters the plan, or turns away; what it cannot resolve it leaves.
LEMMA ResumingMoves ==
  ASSUME WellFormed, WellFormed', NEW w \in Workers, OneRequest(w),
         \/ CancelCheckpoint(w) /\ UNCHANGED history
         \/ Resume(w) \/ ApprovedStepUnresolved(w)
         \/ PayloadRead(w) /\ UNCHANGED history
  PROVE  OneRequest(w)'
<1>1. /\ job[w].at \in {"cancel_checkpoint", "resume", "approved_step", "payload_read"}
      /\ UNCHANGED <<approvals, tasks, created, runs>>
  BY DEF CancelCheckpoint, Resume, ResumeEntry, ApprovedStepUnresolved, PayloadRead,
         At, history, stores
<1>2. PICK a \in ApprovalIds, t \in Tasks :
        /\ job[w].appr = a /\ job[w].task = t /\ ~At(w, "idle") /\ t \in created
        /\ SubjectOK(w, a, t) /\ Asked(a)
  <2>1. job[w].at \in Bound
    BY <1>1 DEF Bound, Points
  <2> QED
    BY <2>1, BoundKnown
<1>3. \/ job'[w] = NoRequest /\ ~At(w, "payload_read")
      \/ /\ job'[w].appr = a /\ job'[w].task = t
         /\ approvals[a].status = "approved" /\ ~approvals[a].resumed
         /\ \/ At(w, "resume") /\ job'[w].at = "approved_step"
            \/ At(w, "approved_step") /\ job'[w].at = "payload_read"
               /\ ~job'[w].consumed
            \/ /\ At(w, "payload_read") /\ job'[w].at = "payload_write"
               /\ job'[w].consumed = job[w].consumed /\ ~job'[w].seen
  <2>1. job \in [Workers -> Requests]
    BY DEF WellFormed, TypeOK
  <2>2. {"resume", "approved_step", "payload_read", "payload_write"} \subseteq Points
    BY DEF Points
  <2>3. At(w, "approved_step") \/ At(w, "payload_read") =>
          approvals[a].status = "approved" /\ ~approvals[a].resumed
    BY <1>2 DEF SubjectOK, ResumePoints, At
  <2>4. CASE CancelCheckpoint(w)
    BY <2>1, <2>4, DoneJob DEF CancelCheckpoint, At
  <2>5. CASE Resume(w)
    <3>1. \/ Done(w)
          \/ /\ Goto(w, [multitool |-> "approved_step"][approvals[a].mode])
             /\ approvals[a].status = "approved" /\ ~approvals[a].resumed
      BY <1>2, <2>5 DEF Resume, ResumeEntry
    <3>2. At(w, "resume") /\ approvals[a].mode = "multitool"
      BY <1>2, <2>5 DEF Resume, ResumeEntry, WellFormed, RowOK
    <3>3. CASE Done(w)
      BY <2>1, <3>2, <3>3, DoneJob DEF At
    <3>4. CASE /\ Goto(w, "approved_step")
               /\ approvals[a].status = "approved" /\ ~approvals[a].resumed
      <4>1. SameSubject(w) /\ job'[w].at = "approved_step"
        BY <2>1, <2>2, <3>4, GotoJob
      <4>2. At(w, "resume")
        BY <3>2
      <4> QED
        BY <1>2, <3>4, <4>1, <4>2 DEF SameSubject
    <3> QED
      BY <3>1, <3>2, <3>3, <3>4
  <2>6. CASE ApprovedStepUnresolved(w)
    BY <1>2, <2>3, <2>6, UnresolvedDoes DEF SameSubject
  <2>7. CASE PayloadRead(w)
    <3>1. [job[w] EXCEPT !.at = "payload_write", !.seen = approvals[a].resumed]
            \in Requests
      <4>1. approvals[a].resumed \in BOOLEAN
        BY DEF WellFormed, TypeOK, Rows
      <4>2. job[w] \in Requests /\ "payload_write" \in Points
        BY <2>1, <2>2
      <4> QED
        BY <4>1, <4>2 DEF Requests
    <3>2. job'[w] = [job[w] EXCEPT !.at = "payload_write", !.seen = approvals[a].resumed]
      BY <1>2, <2>1, <2>7, <3>1, JobPut DEF PayloadRead
    <3>3. At(w, "payload_read")
      BY <2>7 DEF PayloadRead
    <3>4. /\ job'[w].at = "payload_write" /\ job'[w].seen = approvals[a].resumed
          /\ job'[w].appr = job[w].appr /\ job'[w].task = job[w].task
          /\ job'[w].consumed = job[w].consumed
      BY <2>1, <3>2 DEF Requests
    <3> QED
      BY <1>2, <2>3, <3>3, <3>4
  <2> QED
    BY <2>4, <2>5, <2>6, <2>7
<1>4. TaskAgrees(w, t)
  BY <1>1, <1>2 DEF SubjectOK, AgreePoints
<1>5. Within(w, t) /\ HereOK(w, t)' /\ TaskAgrees(w, t)'
  <2>1. Stays(w)
    BY <1>2, <1>3 DEF Stays
  <2>2. ASSUME NEW b \in ApprovalIds PROVE UsingUp(w, b)' <=> UsingUp(w, b)
    <3>1. CASE At(w, "payload_read")
      BY <1>2, <1>3, <3>1 DEF UsingUp, At
    <3>2. CASE ~At(w, "payload_read")
      BY <1>1, <1>3, <3>2, NotUsing DEF At
    <3> QED
      BY <3>1, <3>2
  <2> QED
    BY <1>1, <1>2, <1>4, <2>1, <2>2, Still
<1>6. CASE job'[w] = NoRequest
  BY <1>2, <1>5, <1>6, StepAbout
<1>7. CASE job'[w] # NoRequest
  <2>1. SubjectOK(w, a, t)'
    BY <1>1, <1>3, <1>5, <1>7 DEF SubjectOK
  <2>2. job'[w].appr = a /\ job'[w].at \in AwayFromPlan
    BY <1>3, <1>7 DEF AwayFromPlan, Bound, Points
  <2>3. Known(w, t)' /\ job'[w].at # "idle"
    BY <2>1, <2>2, KnownAway
  <2> QED
    BY <1>2, <1>5, <2>3, StepAbout
<1> QED
  BY <1>6, <1>7

\* The decision is written on a row that was still pending.
LEMMA WritingDoes ==
  ASSUME WellFormed, NEW w \in Workers, OneRequest(w), DecideWrite(w),
         UNCHANGED history, NEW a \in ApprovalIds, job[w].appr = a,
         approvals[a].status = "pending"
  PROVE  /\ At(w, "decide_write") /\ UNCHANGED <<tasks, created, runs>>
         /\ SameSubject(w) /\ job'[w].at = "audit" /\ job'[w].verb = job[w].verb
         /\ approvals'[a].status = job[w].verb /\ job[w].verb \in Decisions
         /\ approvals'[a].task = approvals[a].task
         /\ approvals'[a].mode = approvals[a].mode
         /\ approvals'[a].step = approvals[a].step
         /\ approvals'[a].resumed = approvals[a].resumed
         /\ \A b \in ApprovalIds \ {a} : approvals'[b] = approvals[b]
<1>1. /\ At(w, "decide_write") /\ Goto(w, "audit") /\ UNCHANGED <<tasks, created, runs>>
      /\ PutRow(a, [approvals[a] EXCEPT !.status = job[w].verb])
  BY DEF DecideWrite, history
<1>2. job \in [Workers -> Requests] /\ approvals \in [ApprovalIds -> Rows]
  BY DEF WellFormed, TypeOK
<1>3. job[w].verb \in Decisions
  BY <1>2 DEF Requests
<1>4. SameSubject(w) /\ job'[w].at = "audit"
  <2>1. "audit" \in Points
    BY DEF Points
  <2> QED
    BY <1>1, <1>2, <2>1, GotoJob
<1>5. job'[w].verb = job[w].verb
  BY <1>1, <1>2 DEF Goto, PutJob, Requests
<1>6. [approvals[a] EXCEPT !.status = job[w].verb] \in Rows
  BY <1>2, <1>3 DEF Rows, RowStatus
<1>7. /\ approvals'[a] = [approvals[a] EXCEPT !.status = job[w].verb]
      /\ \A b \in ApprovalIds \ {a} : approvals'[b] = approvals[b]
  BY <1>1, <1>2, <1>6, RowPut
<1>8. /\ approvals'[a].status = job[w].verb
      /\ approvals'[a].task = approvals[a].task
      /\ approvals'[a].mode = approvals[a].mode
      /\ approvals'[a].step = approvals[a].step
      /\ approvals'[a].resumed = approvals[a].resumed
  BY <1>2, <1>7 DEF Rows
<1> QED
  BY <1>1, <1>3, <1>4, <1>5, <1>7, <1>8

\* An approval that is granted stays live, one that is rejected was the only
\* one its task had.
LEMMA WritingAgrees ==
  ASSUME WellFormed, WellFormed', NEW w \in Workers, OneRequest(w), DecideWrite(w),
         UNCHANGED history
  PROVE  OneRequest(w)'
<1>1. job[w].at = "decide_write"
  BY DEF DecideWrite, At
<1>2. PICK a \in ApprovalIds, t \in Tasks :
        /\ job[w].appr = a /\ job[w].task = t /\ ~At(w, "idle") /\ t \in created
        /\ SubjectOK(w, a, t) /\ Asked(a) /\ approvals[a].task = t
  <2>1. job[w].at \in Bound
    BY <1>1 DEF Bound, Points
  <2> QED
    BY <2>1, BoundKnown
<1>3. TaskAgrees(w, t) /\ approvals[a].status = "pending"
  BY <1>1, <1>2 DEF SubjectOK, AgreePoints
<1> DEFINE verb == job[w].verb
<1>4. /\ UNCHANGED <<tasks, created, runs>>
      /\ SameSubject(w) /\ job'[w].at = "audit" /\ job'[w].verb = verb
      /\ approvals'[a].status = verb /\ verb \in Decisions
      /\ approvals'[a].task = approvals[a].task
      /\ approvals'[a].mode = approvals[a].mode
      /\ approvals'[a].step = approvals[a].step
      /\ approvals'[a].resumed = approvals[a].resumed
      /\ \A b \in ApprovalIds \ {a} : approvals'[b] = approvals[b]
  BY <1>2, <1>3, WritingDoes
<1> HIDE DEF verb
<1>5. \A b \in ApprovalIds : ~UsingUp(w, b) /\ ~UsingUp(w, b)'
  BY <1>1, <1>4, NotUsing
<1>6. /\ \A b \in ApprovalIds : Live(w, b) <=> Open(b)
      /\ \A b \in ApprovalIds : Live(w, b)' <=> Open(b)'
  BY <1>5 DEF Live
<1>7. ~approvals[a].resumed /\ Open(a) /\ Live(w, a)
  <2>1. ~approvals[a].resumed
    BY <1>3 DEF OneRequest, RowsAgree
  <2> QED
    BY <1>3, <1>6, <2>1 DEF Open
<1>8. /\ Live(w, a)' <=> verb = "approved"
      /\ \A b \in ApprovalIds \ {a} :
           /\ Live(w, b)' <=> Live(w, b)
           /\ Open(b)' <=> Open(b)
           /\ UsedUp(w, b)' <=> UsedUp(w, b)
  BY <1>4, <1>6, <1>7 DEF Open, UsedUp, Decisions
<1>9. \A b \in ApprovalIds : /\ Live(w, b)' => Live(w, b)
                             /\ approvals'[b].task = approvals[b].task
                             /\ approvals'[b].step = approvals[b].step
                             /\ approvals'[b].resumed = approvals[b].resumed
  BY <1>4, <1>7, <1>8
<1>10. HereOK(w, t)'
  <2>1. HereOK(w, t)
    BY HereNow
  <2>2. ASSUME NEW b \in ApprovalIds, NEW c \in ApprovalIds,
               approvals'[b].status = "rejected", Open(c)',
               approvals'[b].task = t, approvals'[c].task = t
        PROVE  FALSE
    <3>1. Live(w, c) /\ approvals[c].task = t /\ Live(w, c)'
      BY <1>6, <1>9, <2>2
    <3>2. c = a
      BY <1>2, <1>7, <2>1, <3>1 DEF HereOK
    <3>3. b # a
      BY <1>8, <2>2, <3>1, <3>2, <1>4
    <3>4. approvals[b].status = "rejected" /\ approvals[b].task = t
      BY <1>4, <2>2, <3>3
    <3> QED
      BY <1>2, <1>7, <2>1, <3>4 DEF HereOK
  <2>3. \A b \in ApprovalIds : approvals'[b].task = t =>
          (approvals'[b].resumed => approvals'[b].status = "approved")
    BY <1>4, <1>7, <2>1 DEF HereOK
  <2>4. \A k \in 1..Length : runs'[t][k] <= 1 /\ (Ran(t, k)' <=> Ran(t, k))
    BY <1>4, <2>1 DEF HereOK, Ran
  <2> QED
    BY <1>9, <2>1, <2>2, <2>3, <2>4 DEF HereOK
<1>11. Within(w, t)
  <2>1. RowsStay
    BY <1>4, <1>2 DEF RowsStay, Asked, Decisions
  <2> QED
    BY <1>2, <1>4, <2>1 DEF Within, SameSubject, Asked
<1>12. Mode[t] = "multitool" => tasks[t] = "waiting_approval"
  BY <1>2, <1>3, <1>7 DEF TaskAgrees
<1>13. verb = "approved" => TaskAgrees(w, t)'
  <2> SUFFICES ASSUME verb = "approved", Mode[t] = "multitool"
               PROVE  TaskAgrees(w, t)'
    BY DEF TaskAgrees
  <2>1. \A b \in ApprovalIds : Live(w, b)' <=> Live(w, b)
    BY <1>7, <1>8
  <2>2. \A b \in ApprovalIds : UsedUp(w, b)' => UsedUp(w, b)
    BY <1>8 DEF UsedUp
  <2>3. \A b \in ApprovalIds : approvals'[b].status = "rejected" =>
                                 approvals[b].status = "rejected"
    BY <1>4
  <2>4. tasks'[t] = "waiting_approval"
    BY <1>4, <1>12
  <2> QED
    BY <1>3, <1>4, <1>9, <2>1, <2>2, <2>3, <2>4 DEF TaskAgrees
<1>14. SubjectOK(w, a, t)'
  <2>1. approvals'[a].status = job'[w].verb /\ ~approvals'[a].resumed
    BY <1>4, <1>7
  <2>2. job'[w].verb = "approved" => TaskAgrees(w, t)'
    BY <1>4, <1>13
  <2>3. Mode[t] = "multitool" => tasks'[t] = "waiting_approval"
    BY <1>4, <1>12
  <2> QED
    BY <1>4, <2>1, <2>2, <2>3 DEF SubjectOK, AgreePoints, ResumePoints
<1>15. Known(w, t)' /\ job'[w].at # "idle"
  <2>1. job'[w].appr = a /\ job'[w].at \in AwayFromPlan
    BY <1>2, <1>4 DEF SameSubject, AwayFromPlan, Bound, Points
  <2> QED
    BY <1>14, <2>1, KnownAway
<1> QED
  BY <1>2, <1>10, <1>11, <1>15, StepAbout

\* A rejected approval was the last one of its task, which it cancels.
LEMMA CancellingAgrees ==
  ASSUME WellFormed, WellFormed', NEW w \in Workers, OneRequest(w), CancelTask(w),
         UNCHANGED history
  PROVE  OneRequest(w)'
<1>1. /\ job[w].at = "cancel_task" /\ UNCHANGED <<approvals, created, runs>>
      /\ UpdateTaskStatus(job[w].task, "cancelled")
  BY DEF CancelTask, At, history
<1>2. PICK a \in ApprovalIds, t \in Tasks :
        /\ job[w].appr = a /\ job[w].task = t /\ ~At(w, "idle") /\ t \in created
        /\ SubjectOK(w, a, t) /\ Asked(a) /\ approvals[a].task = t
  <2>1. job[w].at \in Bound
    BY <1>1 DEF Bound, Points
  <2> QED
    BY <2>1, BoundKnown
<1>3. /\ approvals[a].status = "rejected"
      /\ Mode[t] = "multitool" => tasks[t] = "waiting_approval"
  BY <1>1, <1>2 DEF SubjectOK
<1>4. SameSubject(w) /\ job'[w].at = "cancel_checkpoint"
  <2>1. "cancel_checkpoint" \in Points /\ job \in [Workers -> Requests]
    BY DEF Points, WellFormed, TypeOK
  <2> QED
    BY <2>1, GotoJob DEF CancelTask
<1>5. /\ Mode[t] = "multitool" => tasks'[t] = "cancelled"
      /\ \A u \in Tasks \ {t} : tasks'[u] = tasks[u]
  BY <1>1, <1>2, <1>3 DEF UpdateTaskStatus, WellFormed, TypeOK
<1>6. \A b \in ApprovalIds : ~UsingUp(w, b) /\ ~UsingUp(w, b)'
  BY <1>1, <1>4, NotUsing
<1>7. \A b \in ApprovalIds : /\ Live(w, b)' <=> Live(w, b)
                             /\ Open(b)' <=> Open(b)
                             /\ approvals'[b] = approvals[b]
                             /\ Live(w, b) => Open(b)
  BY <1>1, <1>6 DEF Live, Open
<1>8. \A b \in ApprovalIds : Live(w, b) => approvals[b].task # t
  <2>1. HereOK(w, t)
    BY HereNow
  <2> QED
    BY <1>2, <1>3, <1>7, <2>1 DEF HereOK
<1>9. TaskAgrees(w, t)'
  BY <1>5, <1>7, <1>8 DEF TaskAgrees
<1>10. HereOK(w, t)'
  <2>1. HereOK(w, t)
    BY HereNow
  <2> QED
    BY <1>1, <1>7, <2>1 DEF HereOK, Ran
<1>11. Within(w, t)
  BY <1>1, <1>2, <1>4, <1>5 DEF Within, RowsStay, Asked, SameSubject
<1>12. SubjectOK(w, a, t)'
  BY <1>1, <1>3, <1>4, <1>9 DEF SubjectOK, ResumePoints
<1>13. Known(w, t)' /\ job'[w].at # "idle"
  <2>1. job'[w].appr = a /\ job'[w].at \in AwayFromPlan
    BY <1>2, <1>4 DEF SameSubject, AwayFromPlan, Bound, Points
  <2> QED
    BY <1>12, <2>1, KnownAway
<1> QED
  BY <1>2, <1>10, <1>11, <1>13, StepAbout

-----------------------------------------------------------------------------
(* A step of the plan.                                                     *)

\* Step k of t has succeeded for the first time, and nothing else has run.
FirstRun(t, k) ==
  /\ runs'[t][k] = 1
  /\ \A j \in 1..Length : j # k => runs'[t][j] = runs[t][j]
  /\ \A u \in Tasks \ {t} : runs'[u] = runs[u]

\* A call of a step that has not run runs it once.
LEMMA RunsFirst ==
  ASSUME WellFormed, NEW t \in Tasks, NEW k \in 1..Length, ~Ran(t, k), NowRan(t, k),
         \E success \in BOOLEAN : Called(t, k, success)
  PROVE  FirstRun(t, k)
<1>1. runs \in [Tasks -> [1..Length -> 0..Many]]
  BY DEF WellFormed, TypeOK
<1>2. runs[t][k] = 0
  <2>1. runs[t][k] \in 0..2
    BY <1>1 DEF Many
  <2> QED
    BY <2>1 DEF Ran
<1>3. Ran(t, k)'
  BY DEF NowRan
<1>4. runs' # runs
  BY <1>2, <1>3 DEF Ran
<1>5. Called(t, k, TRUE)
  BY <1>4 DEF Called
<1>6. Count(runs[t][k]) = 1
  BY <1>2 DEF Count, Many
<1>7. runs' = [runs EXCEPT ![t] = [runs[t] EXCEPT ![k] = 1]]
  BY <1>1, <1>5, <1>6 DEF Called
<1> QED
  BY <1>1, <1>7 DEF FirstRun

\* The approved step has not run yet; run, its approval is being used up.
LEMMA ApprovedStepAgrees ==
  ASSUME WellFormed, WellFormed', NEW w \in Workers, OneRequest(w), ApprovedStep(w)
  PROVE  OneRequest(w)'
<1>1. job[w].at = "approved_step" /\ UNCHANGED <<approvals, tasks, created>>
  BY DEF ApprovedStep, At, stores
<1>2. PICK a \in ApprovalIds, t \in Tasks :
        /\ job[w].appr = a /\ job[w].task = t /\ ~At(w, "idle") /\ t \in created
        /\ SubjectOK(w, a, t) /\ Asked(a) /\ approvals[a].task = t
        /\ approvals[a].step \in 1..Length
  <2>1. job[w].at \in Bound
    BY <1>1 DEF Bound, Points
  <2> QED
    BY <2>1, BoundKnown
<1>3. PICK k \in 1..Length : approvals[a].step = k
  BY <1>2
<1>4. TaskAgrees(w, t) /\ approvals[a].status = "approved" /\ ~approvals[a].resumed
  BY <1>1, <1>2 DEF SubjectOK, AgreePoints, ResumePoints
<1>5. \A b \in ApprovalIds : ~UsingUp(w, b)
  BY <1>1 DEF UsingUp
<1>6. Open(a) /\ Live(w, a)
  BY <1>4, <1>5 DEF Open, Live
<1>7. \A j \in 1..Length : j >= k => ~Ran(t, j)
  BY <1>2, <1>3, <1>6 DEF OneRequest, LiveOnce
<1>8. ~Ran(t, k)
  BY <1>7
<1>9. \/ /\ job'[w].at = "rest" /\ job'[w].step = k + 1 /\ job'[w].consumed
         /\ NowRan(t, k)
      \/ /\ job'[w].at = "task" /\ job'[w].verdict = "failed" /\ ~job'[w].consumed
         /\ UNCHANGED runs
  BY <1>2, <1>3, ApprovedStepDoes
<1>10. job'[w].appr = a /\ job'[w].task = t
  BY <1>2, ApprovedStepDoes DEF SameSubject
<1>11. HereOK(w, t)
  BY HereNow
<1>12. \A b \in ApprovalIds : (Open(b)' <=> Open(b)) /\ approvals'[b] = approvals[b]
  BY <1>1 DEF Open
<1>13. \A u \in Tasks \ {t} : tasks'[u] = tasks[u]
  BY <1>1
<1>14. RowsStay
  BY <1>1 DEF RowsStay, Asked
<1>15. Mode[t] = "multitool" => tasks'[t] # "absent"
  BY <1>1, <1>2, <1>4, <1>6 DEF TaskAgrees
<1>16. CASE /\ job'[w].at = "rest" /\ job'[w].step = k + 1 /\ job'[w].consumed
            /\ NowRan(t, k)
  <2>1. FirstRun(t, k)
    <3>1. \E success \in BOOLEAN : Called(t, k, success)
      BY <1>2, <1>3 DEF ApprovedStep
    <3> QED
      BY <1>8, <1>16, <3>1, RunsFirst
  <2>2. Within(w, t)
    BY <1>1, <1>10, <1>12, <1>13, <1>14, <1>16, <2>1 DEF Within, FirstRun, Asked
  <2>3. \A b \in ApprovalIds : Live(w, b)' => Live(w, b) /\ b # a
    BY <1>5, <1>10, <1>12, <1>16 DEF Live, UsingUp
  <2>4. \A b \in ApprovalIds : Live(w, b)' => approvals'[b].task # t
    BY <1>2, <1>6, <1>11, <1>12, <2>3 DEF HereOK
  <2>5. \A j \in 1..Length : runs'[t][j] <= 1
    BY <1>11, <2>1 DEF HereOK, FirstRun
  <2>6. HereOK(w, t)'
    BY <1>11, <1>12, <2>4, <2>5 DEF HereOK
  <2>7. RestOK(w, t)'
    <3>1. \A j \in 1..Length : j >= k + 1 => ~Ran(t, j)'
      BY <1>3, <1>7, <1>16 DEF NowRan
    <3> QED
      BY <1>16, <2>4, <3>1 DEF RestOK, Here
  <2>8. SubjectOK(w, a, t)'
    BY <1>4, <1>12, <1>15, <1>16 DEF SubjectOK, AgreePoints
  <2>9. CreationKnown(w, t)'
    BY <1>16 DEF CreationKnown
  <2>10. Known(w, t)' /\ job'[w].at # "idle"
    BY <1>10, <1>16, <2>7, <2>8, <2>9 DEF Known
  <2> QED
    BY <1>2, <2>2, <2>6, <2>10, StepAbout
<1>17. CASE /\ job'[w].at = "task" /\ job'[w].verdict = "failed" /\ ~job'[w].consumed
            /\ UNCHANGED runs
  <2>1. \A b \in ApprovalIds : UsingUp(w, b)' <=> UsingUp(w, b)
    BY <1>5, <1>17 DEF UsingUp
  <2>2. Within(w, t) /\ HereOK(w, t)'
    <3>1. Stays(w)
      BY <1>2, <1>10, <1>17 DEF Stays
    <3> QED
      BY <1>1, <1>2, <1>17, <2>1, <3>1, Still
  <2>3. \A b \in ApprovalIds : Live(w, b)' <=> Live(w, b)
    BY <1>12, <2>1 DEF Live
  <2>4. RestOK(w, t)'
    <3>1. ASSUME NEW b \in ApprovalIds, Live(w, b)', approvals'[b].task = t
          PROVE  approvals'[b].status = "approved"
      <4>1. b = a
        BY <1>2, <1>6, <1>11, <1>12, <2>3, <3>1 DEF HereOK
      <4> QED
        BY <1>4, <1>12, <4>1
    <3> QED
      BY <1>17, <3>1 DEF RestOK
  <2>5. SubjectOK(w, a, t)'
    BY <1>4, <1>12, <1>15, <1>17 DEF SubjectOK, AgreePoints
  <2>6. CreationKnown(w, t)'
    BY <1>17 DEF CreationKnown
  <2>7. Known(w, t)' /\ job'[w].at # "idle"
    BY <1>10, <1>17, <2>4, <2>5, <2>6 DEF Known
  <2> QED
    BY <1>2, <2>2, <2>7, StepAbout
<1> QED
  BY <1>9, <1>16, <1>17

\* What is known of a request at work on the rest of a plan.
LEMMA RestNow ==
  ASSUME WellFormed, NEW w \in Workers, OneRequest(w), job[w].at \in {"rest", "task"}
  PROVE  \E a \in ApprovalIds, t \in Tasks :
           /\ job[w].appr = a /\ job[w].task = t /\ ~At(w, "idle") /\ t \in created
           /\ Asked(a) /\ approvals[a].task = t
           /\ RestOK(w, t)
           /\ approvals[a].status = "approved" /\ ~approvals[a].resumed /\ Open(a)
           /\ Mode[t] = "multitool" => tasks[t] # "absent"
           /\ \A b \in ApprovalIds :
                ~(approvals[b].status = "rejected" /\ approvals[b].task = t)
<1>1. PICK a \in ApprovalIds, t \in Tasks :
        /\ job[w].appr = a /\ job[w].task = t /\ ~At(w, "idle") /\ t \in created
        /\ SubjectOK(w, a, t) /\ Asked(a) /\ approvals[a].task = t /\ Known(w, t)
  <2>1. job[w].at \in Bound
    BY DEF Bound, Points
  <2> QED
    BY <2>1, BoundKnown
<1>2. /\ approvals[a].status = "approved" /\ ~approvals[a].resumed
      /\ Mode[t] = "multitool" => tasks[t] # "absent"
  BY <1>1 DEF SubjectOK, ResumePoints
<1>3. Open(a)
  BY <1>2 DEF Open
<1>4. \A b \in ApprovalIds :
        ~(approvals[b].status = "rejected" /\ approvals[b].task = t)
  BY <1>1, <1>3 DEF OneRequest, RowsAgree
<1> QED
  BY <1>1, <1>2, <1>3, <1>4 DEF Known

\* The subject of a request that stays in the plan is as before.
LEMMA SubjectStays ==
  ASSUME NEW w \in Workers, NEW a \in ApprovalIds, NEW t \in Tasks,
         job'[w].at \in {"rest", "task"}, job'[w].appr = a, RestOK(w, t)',
         approvals'[a].status = "approved", ~approvals'[a].resumed,
         Mode[t] = "multitool" => tasks'[t] # "absent"
  PROVE  Known(w, t)' /\ job'[w].at # "idle"
<1>1. SubjectOK(w, a, t)'
  BY DEF SubjectOK, AgreePoints
<1>2. CreationKnown(w, t)'
  BY DEF CreationKnown
<1> QED
  BY <1>1, <1>2 DEF Known

\* The step the rest has come to has not run.
LEMMA RestCallAgrees ==
  ASSUME WellFormed, WellFormed', NEW w \in Workers, OneRequest(w), RestCall(w)
  PROVE  OneRequest(w)'
<1>1. job[w].at = "rest" /\ UNCHANGED <<approvals, tasks, created>>
  BY DEF RestCall, At, stores
<1>2. PICK a \in ApprovalIds, t \in Tasks :
        /\ job[w].appr = a /\ job[w].task = t /\ ~At(w, "idle") /\ t \in created
        /\ RestOK(w, t)
        /\ approvals[a].status = "approved" /\ ~approvals[a].resumed
        /\ Mode[t] = "multitool" => tasks[t] # "absent"
  BY <1>1, RestNow
<1>3. PICK k \in 1..Length : Here(w) = k
  BY RestCallDoes
<1>4. /\ job[w].consumed /\ ~Ran(t, k)
      /\ \A b \in ApprovalIds : Live(w, b) => approvals[b].task # t
      /\ \A j \in 1..Length : j >= k => ~Ran(t, j)
  BY <1>1, <1>2, <1>3 DEF RestOK
<1>5. \/ /\ job'[w].at = "rest" /\ job'[w].step = k + 1 /\ NowRan(t, k)
      \/ job'[w].at = "task" /\ job'[w].verdict = "failed" /\ UNCHANGED runs
  BY <1>2, <1>3, RestCallDoes
<1>6. job'[w].appr = a /\ job'[w].task = t /\ job'[w].consumed
  BY <1>2, <1>4, RestCallDoes DEF SameSubject, SameResult
<1>7. \A b \in ApprovalIds : UsingUp(w, b)' <=> UsingUp(w, b)
  BY <1>1, <1>2, <1>4, <1>5, <1>6 DEF UsingUp
<1>8. \A b \in ApprovalIds : /\ Live(w, b)' <=> Live(w, b)
                             /\ Open(b)' <=> Open(b)
                             /\ approvals'[b] = approvals[b]
  BY <1>1, <1>7 DEF Live, Open
<1>9. CASE job'[w].at = "rest" /\ job'[w].step = k + 1 /\ NowRan(t, k)
  <2>1. FirstRun(t, k)
    <3>1. \E success \in BOOLEAN : Called(t, k, success)
      BY <1>2, <1>3 DEF RestCall
    <3> QED
      BY <1>4, <1>9, <3>1, RunsFirst
  <2>2. Within(w, t)
    BY <1>1, <1>6, <1>8, <1>9, <2>1 DEF Within, FirstRun, Asked, RowsStay
  <2>3. HereOK(w, t)'
    <3>1. HereOK(w, t)
      BY HereNow
    <3>2. \A j \in 1..Length : runs'[t][j] <= 1
      BY <2>1, <3>1 DEF HereOK, FirstRun
    <3> QED
      BY <1>4, <1>8, <3>1, <3>2 DEF HereOK
  <2>4. RestOK(w, t)'
    <3>1. \A j \in 1..Length : j >= k + 1 => ~Ran(t, j)'
      BY <1>3, <1>4, <1>9 DEF NowRan
    <3> QED
      BY <1>4, <1>6, <1>8, <1>9, <3>1 DEF RestOK, Here
  <2>5. Known(w, t)' /\ job'[w].at # "idle"
    BY <1>1, <1>2, <1>6, <1>8, <1>9, <2>4, SubjectStays
  <2> QED
    BY <1>2, <2>2, <2>3, <2>5, StepAbout
<1>10. CASE job'[w].at = "task" /\ job'[w].verdict = "failed" /\ UNCHANGED runs
  <2>1. Within(w, t) /\ HereOK(w, t)'
    <3>1. Stays(w)
      BY <1>2, <1>6, <1>10 DEF Stays
    <3> QED
      BY <1>1, <1>2, <1>7, <1>10, <3>1, Still
  <2>2. RestOK(w, t)'
    BY <1>4, <1>8, <1>10 DEF RestOK
  <2>3. Known(w, t)' /\ job'[w].at # "idle"
    BY <1>1, <1>2, <1>6, <1>8, <1>10, <2>2, SubjectStays
  <2> QED
    BY <1>2, <2>1, <2>3, StepAbout
<1> QED
  BY <1>5, <1>9, <1>10

\* At its end the plan leaves no approval that could lead to a call.
LEMMA RestOverAgrees ==
  ASSUME WellFormed, WellFormed', NEW w \in Workers, OneRequest(w), RestOver(w)
  PROVE  OneRequest(w)'
<1>1. job[w].at = "rest" /\ UNCHANGED <<approvals, tasks, runs, created>>
  BY DEF RestOver, At, stores, history
<1>2. PICK a \in ApprovalIds, t \in Tasks :
        /\ job[w].appr = a /\ job[w].task = t /\ ~At(w, "idle") /\ t \in created
        /\ RestOK(w, t)
        /\ approvals[a].status = "approved" /\ ~approvals[a].resumed
        /\ Mode[t] = "multitool" => tasks[t] # "absent"
  BY <1>1, RestNow
<1>3. /\ job[w].consumed
      /\ \A b \in ApprovalIds : Live(w, b) => approvals[b].task # t
  BY <1>1, <1>2 DEF RestOK
<1>4. job'[w].at = "task" /\ job'[w].verdict \in {"completed", "failed"}
  BY RestOverDoes
<1>5. job'[w].appr = a /\ job'[w].task = t /\ job'[w].consumed
  BY <1>2, <1>3, RestOverDoes DEF SameSubject, SameResult
<1>6. \A b \in ApprovalIds : UsingUp(w, b)' <=> UsingUp(w, b)
  BY <1>1, <1>2, <1>3, <1>4, <1>5 DEF UsingUp
<1>7. \A b \in ApprovalIds : /\ Live(w, b)' <=> Live(w, b)
                             /\ approvals'[b] = approvals[b]
  BY <1>1, <1>6 DEF Live, Open
<1>8. Within(w, t) /\ HereOK(w, t)'
  <2>1. Stays(w)
    BY <1>2, <1>4, <1>5 DEF Stays
  <2> QED
    BY <1>1, <1>2, <1>6, <2>1, Still
<1>9. RestOK(w, t)'
  BY <1>3, <1>4, <1>7 DEF RestOK
<1>10. Known(w, t)' /\ job'[w].at # "idle"
  BY <1>1, <1>2, <1>4, <1>5, <1>7, <1>9, SubjectStays
<1> QED
  BY <1>2, <1>8, <1>10, StepAbout

\* A new approval for a step of t that has not run, when t has no live one.
LEMMA NewHere ==
  ASSUME WellFormed, NEW w \in Workers, OneRequest(w), NEW t \in Tasks, NEW k \in 1..Length,
         NEW c \in ApprovalIds, NewRow(c, t, k), UNCHANGED runs,
         \A b \in ApprovalIds : ~UsingUp(w, b)' \/ (UsingUp(w, b) /\ b # c),
         \A b \in ApprovalIds : UsingUp(w, b) => UsingUp(w, b)',
         \A b \in ApprovalIds : Live(w, b) => approvals[b].task # t,
         \A b \in ApprovalIds : ~(approvals[b].status = "rejected" /\ approvals[b].task = t),
         \A j \in 1..Length : j >= k => ~Ran(t, j)
  PROVE  /\ HereOK(w, t)' /\ RowsStay
         /\ Live(w, c)' /\ approvals'[c].task = t /\ approvals'[c].status = "pending"
         /\ \A b \in ApprovalIds : Live(w, b)' /\ approvals'[b].task = t => b = c
<1>1. /\ ~Asked(c) /\ approvals'[c].status = "pending" /\ approvals'[c].task = t
      /\ approvals'[c].step = k /\ ~approvals'[c].resumed
      /\ \A b \in ApprovalIds \ {c} : approvals'[b] = approvals[b]
  BY DEF NewRow
<1>2. Live(w, c)'
  BY <1>1 DEF Live, Open
<1>3. \A b \in ApprovalIds \ {c} : (Live(w, b)' <=> Live(w, b)) /\ (Open(b)' <=> Open(b))
  BY <1>1 DEF Live, Open
<1>4. \A b \in ApprovalIds : Live(w, b)' /\ approvals'[b].task = t => b = c
  BY <1>1, <1>3
<1>5. RowsStay
  BY <1>1 DEF RowsStay, Asked
<1>6. HereOK(w, t)'
  <2>1. HereOK(w, t)
    BY HereNow
  <2>2. \A b \in ApprovalIds, j \in 1..Length :
          Live(w, b)' /\ approvals'[b].task = t /\ j >= approvals'[b].step => ~Ran(t, j)'
    BY <1>1, <1>4 DEF Ran
  <2>3. \A b \in ApprovalIds : approvals'[b].status = "rejected" => approvals'[b].task # t
    BY <1>1
  <2>4. \A b \in ApprovalIds : approvals'[b].task = t =>
          (approvals'[b].resumed => approvals'[b].status = "approved")
    BY <1>1, <2>1 DEF HereOK
  <2> QED
    BY <1>4, <2>1, <2>2, <2>3, <2>4 DEF HereOK
<1> QED
  BY <1>1, <1>2, <1>4, <1>5, <1>6

\* The next approval is the only one of its task that is live.
LEMMA RestBlockAgrees ==
  ASSUME WellFormed, WellFormed', NEW w \in Workers, OneRequest(w), RestBlock(w)
  PROVE  OneRequest(w)'
<1>1. job[w].at = "rest" /\ UNCHANGED <<tasks, runs, created>>
  BY DEF RestBlock, At, history
<1>2. PICK a \in ApprovalIds, t \in Tasks :
        /\ job[w].appr = a /\ job[w].task = t /\ ~At(w, "idle") /\ t \in created
        /\ Asked(a) /\ RestOK(w, t)
        /\ approvals[a].status = "approved" /\ ~approvals[a].resumed
        /\ Mode[t] = "multitool" => tasks[t] # "absent"
        /\ \A b \in ApprovalIds :
             ~(approvals[b].status = "rejected" /\ approvals[b].task = t)
  BY <1>1, RestNow
<1>3. PICK k \in 1..Length : Here(w) = k
  BY RestBlockDoes, PlanAssumption
<1>4. /\ job[w].consumed
      /\ \A b \in ApprovalIds : Live(w, b) => approvals[b].task # t
      /\ \A j \in 1..Length : j >= k => ~Ran(t, j)
  BY <1>1, <1>2, <1>3 DEF RestOK
<1>5. PICK c \in ApprovalIds : NewRow(c, t, k)
  BY <1>2, <1>3, RestBlockDoes
<1>6. c # a /\ approvals'[a] = approvals[a]
  BY <1>2, <1>5 DEF NewRow
<1>7. /\ job'[w].at = "task" /\ job'[w].verdict = "waiting_approval"
      /\ job'[w].appr = a /\ job'[w].task = t /\ job'[w].consumed
  BY <1>2, <1>4, RestBlockDoes DEF SameSubject, SameResult
<1>8. \A b \in ApprovalIds : (UsingUp(w, b)' <=> b = a) /\ (UsingUp(w, b) <=> b = a)
  BY <1>1, <1>2, <1>4, <1>7 DEF UsingUp
<1>9. /\ HereOK(w, t)' /\ RowsStay
      /\ Live(w, c)' /\ approvals'[c].task = t /\ approvals'[c].status = "pending"
      /\ \A b \in ApprovalIds : Live(w, b)' /\ approvals'[b].task = t => b = c
  BY <1>1, <1>2, <1>4, <1>5, <1>6, <1>8, NewHere
<1>10. Within(w, t)
  BY <1>1, <1>2, <1>5, <1>7, <1>9 DEF Within, NewRow, Asked
<1>11. RestOK(w, t)'
  BY <1>7, <1>9 DEF RestOK
<1>12. Known(w, t)' /\ job'[w].at # "idle"
  BY <1>1, <1>2, <1>6, <1>7, <1>11, SubjectStays
<1> QED
  BY <1>2, <1>9, <1>10, <1>12, StepAbout

\* The task gets the status its approvals call for.
LEMMA UpdateTaskAgrees ==
  ASSUME WellFormed, WellFormed', NEW w \in Workers, OneRequest(w), UpdateTask(w)
  PROVE  OneRequest(w)'
<1>1. /\ job[w].at = "task" /\ UNCHANGED <<approvals, runs, created>>
      /\ UpdateTaskStatus(job[w].task, job[w].verdict)
  BY DEF UpdateTask, At, history
<1>2. PICK a \in ApprovalIds, t \in Tasks :
        /\ job[w].appr = a /\ job[w].task = t /\ ~At(w, "idle") /\ t \in created
        /\ Asked(a) /\ approvals[a].task = t /\ RestOK(w, t)
        /\ approvals[a].status = "approved" /\ ~approvals[a].resumed
        /\ Mode[t] = "multitool" => tasks[t] # "absent"
        /\ \A b \in ApprovalIds :
             ~(approvals[b].status = "rejected" /\ approvals[b].task = t)
  BY <1>1, RestNow
<1>3. /\ job'[w].at = "payload_read" /\ job'[w].appr = a /\ job'[w].task = t
      /\ job'[w].consumed = job[w].consumed
  <2>1. "payload_read" \in Points /\ job \in [Workers -> Requests]
    BY DEF Points, WellFormed, TypeOK
  <2> QED
    BY <1>2, <2>1, GotoJob DEF UpdateTask, SameSubject, SameResult
<1>4. PICK v \in TaskStatus : job[w].verdict = v
  BY DEF WellFormed, TypeOK, Requests
<1>5. /\ Mode[t] = "multitool" => tasks'[t] = v
      /\ \A u \in Tasks \ {t} : tasks'[u] = tasks[u]
  BY <1>1, <1>2, <1>4 DEF UpdateTaskStatus, WellFormed, TypeOK
<1>6. \A b \in ApprovalIds : UsingUp(w, b)' <=> UsingUp(w, b)
  BY <1>1, <1>2, <1>3 DEF UsingUp
<1>7. \A b \in ApprovalIds : /\ Live(w, b)' <=> Live(w, b)
                             /\ UsedUp(w, b)' <=> UsedUp(w, b)
                             /\ Open(b)' <=> Open(b)
                             /\ approvals'[b] = approvals[b]
  BY <1>1, <1>6 DEF Live, UsedUp, Open
<1>8. TaskAgrees(w, t)'
  <2> SUFFICES ASSUME Mode[t] = "multitool" PROVE TaskAgrees(w, t)'
    BY DEF TaskAgrees
  <2>1. tasks'[t] = v
    BY <1>5
  <2>2. v = "waiting_approval" =>
          \E b \in ApprovalIds : Live(w, b) /\ approvals[b].task = t
    BY <1>1, <1>2, <1>4 DEF RestOK
  <2>3. \A b \in ApprovalIds : Live(w, b) /\ approvals[b].task = t =>
          v = "waiting_approval" \/ (v = "failed" /\ approvals[b].status = "approved")
    BY <1>1, <1>2, <1>4 DEF RestOK
  <2> QED
    BY <1>2, <1>7, <2>1, <2>2, <2>3 DEF TaskAgrees
<1>9. HereOK(w, t)'
  <2>1. HereOK(w, t)
    BY HereNow
  <2> QED
    BY <1>1, <1>7, <2>1 DEF HereOK, Ran
<1>10. Within(w, t)
  BY <1>1, <1>2, <1>3, <1>5, <1>7 DEF Within, RowsStay, Asked
<1>11. SubjectOK(w, a, t)'
  BY <1>2, <1>3, <1>7, <1>8 DEF SubjectOK
<1>12. Known(w, t)' /\ job'[w].at # "idle"
  <2>1. job'[w].at \in AwayFromPlan
    BY <1>3 DEF AwayFromPlan, Bound, Points
  <2> QED
    BY <1>3, <1>11, <2>1, KnownAway
<1> QED
  BY <1>2, <1>9, <1>10, <1>12, StepAbout

\* What was used up is marked as such, and nothing else.
LEMMA PayloadWriteAgrees ==
  ASSUME WellFormed, WellFormed', NEW w \in Workers, OneRequest(w), PayloadWrite(w),
         UNCHANGED history
  PROVE  OneRequest(w)'
<1>1. job[w].at = "payload_write" /\ UNCHANGED <<tasks, runs, created>>
  BY DEF PayloadWrite, At, history
<1>2. PICK a \in ApprovalIds, t \in Tasks :
        /\ job[w].appr = a /\ job[w].task = t /\ ~At(w, "idle") /\ t \in created
        /\ SubjectOK(w, a, t) /\ Asked(a) /\ approvals[a].task = t
  <2>1. job[w].at \in Bound
    BY <1>1 DEF Bound, Points
  <2> QED
    BY <2>1, BoundKnown
<1>3. /\ TaskAgrees(w, t) /\ ~job[w].seen
      /\ approvals[a].status = "approved" /\ ~approvals[a].resumed
  BY <1>1, <1>2 DEF SubjectOK, AgreePoints, ResumePoints
<1>4. job'[w] = NoRequest
  <2>1. job \in [Workers -> Requests]
    BY DEF WellFormed, TypeOK
  <2> QED
    BY <2>1, DoneJob DEF PayloadWrite
<1>5. PICK c \in BOOLEAN : job[w].consumed = c
  BY DEF WellFormed, TypeOK, Requests
<1>6. /\ approvals'[a].resumed = c
      /\ approvals'[a].status = "approved" /\ approvals'[a].task = t
      /\ approvals'[a].step = approvals[a].step
      /\ approvals'[a].mode = approvals[a].mode
      /\ \A b \in ApprovalIds \ {a} : approvals'[b] = approvals[b]
  <2>1. approvals \in [ApprovalIds -> Rows]
    BY DEF WellFormed, TypeOK
  <2>2. [approvals[a] EXCEPT !.resumed = c] \in Rows
    BY <2>1 DEF Rows
  <2>3. (job[w].consumed \/ job[w].seen) = c
    BY <1>3, <1>5
  <2>4. PutRow(a, [approvals[a] EXCEPT !.resumed = c])
    BY <1>2, <2>3 DEF PayloadWrite
  <2>5. /\ approvals'[a] = [approvals[a] EXCEPT !.resumed = c]
        /\ \A b \in ApprovalIds \ {a} : approvals'[b] = approvals[b]
    BY <2>1, <2>2, <2>4, RowPut
  <2> QED
    BY <1>2, <1>3, <2>1, <2>5 DEF Rows
<1>7. /\ \A b \in ApprovalIds : UsingUp(w, b) <=> b = a /\ c
      /\ \A b \in ApprovalIds : ~UsingUp(w, b)'
  BY <1>1, <1>2, <1>4, <1>5 DEF UsingUp, NoRequest
<1>8. /\ Live(w, a) <=> ~c
      /\ Live(w, a)' <=> ~c
  BY <1>3, <1>6, <1>7 DEF Live, Open
<1>9. \A b \in ApprovalIds : /\ Live(w, b)' <=> Live(w, b)
                             /\ UsedUp(w, b)' <=> UsedUp(w, b)
                             /\ Open(b)' => Open(b)
                             /\ approvals'[b].task = approvals[b].task
                             /\ approvals'[b].step = approvals[b].step
                             /\ approvals'[b].status = approvals[b].status
  <2>1. \A b \in ApprovalIds \ {a} : (Live(w, b)' <=> Live(w, b)) /\ (Open(b)' <=> Open(b))
    BY <1>6, <1>7 DEF Live, Open
  <2>2. Open(a)
    BY <1>3 DEF Open
  <2>3. \A b \in ApprovalIds : /\ approvals'[b].task = approvals[b].task
                               /\ approvals'[b].step = approvals[b].step
                               /\ approvals'[b].status = approvals[b].status
    BY <1>2, <1>3, <1>6
  <2> QED
    BY <1>8, <2>1, <2>2, <2>3 DEF UsedUp
<1>10. TaskAgrees(w, t)'
  <2>1. tasks' = tasks
    BY <1>1
  <2> QED
    BY <1>3, <1>9, <2>1 DEF TaskAgrees
<1>11. HereOK(w, t)'
  <2>1. HereOK(w, t)
    BY HereNow
  <2>2. \A b \in ApprovalIds : approvals'[b].task = t =>
          (approvals'[b].resumed => approvals'[b].status = "approved")
    BY <1>6, <2>1 DEF HereOK
  <2> QED
    BY <1>1, <1>9, <2>1, <2>2 DEF HereOK, Ran
<1>12. Within(w, t)
  BY <1>1, <1>2, <1>3, <1>4, <1>6 DEF Within, RowsStay, Asked
<1> QED
  BY <1>2, <1>4, <1>10, <1>11, <1>12, StepAbout

-----------------------------------------------------------------------------
(* The first run of a plan.                                                *)

\* What is known of a request at work on the plan of its task.
LEMMA PlanNow ==
  ASSUME WellFormed, NEW w \in Workers, OneRequest(w), At(w, "plan")
  PROVE  \E t \in Tasks :
           /\ job[w].task = t /\ ~At(w, "idle") /\ t \in created
           /\ \A b \in ApprovalIds : Asked(b) => approvals[b].task # t
           /\ \A b \in ApprovalIds : Live(w, b) => approvals[b].task # t
           /\ \A b \in ApprovalIds : ~UsingUp(w, b)
           /\ \A j \in 1..Length : j >= Here(w) => ~Ran(t, j)
<1>1. ~At(w, "idle") /\ job[w].at = "plan"
  BY DEF At
<1>2. PICK t \in Tasks : job[w].task = t
  BY <1>1 DEF WellFormed, RequestOK
<1>3. CreationKnown(w, t)
  BY <1>2 DEF OneRequest, RequestKnown
<1>4. \A b \in ApprovalIds : Live(w, b) => Asked(b)
  BY DEF Live, Open, Asked
<1>5. \A b \in ApprovalIds : ~UsingUp(w, b)
  BY <1>1 DEF UsingUp
<1> QED
  BY <1>1, <1>2, <1>3, <1>4, <1>5 DEF CreationKnown

\* While a plan is run nothing is known but of its task.
LEMMA CreationOnly ==
  ASSUME NEW w \in Workers, NEW t \in Tasks, job'[w].at \in {"plan", "save"},
         CreationKnown(w, t)'
  PROVE  Known(w, t)' /\ job'[w].at # "idle"
BY DEF Known, RestOK, SubjectOK, AgreePoints, ResumePoints

\* The steps of a plan run one after the other, each once.
LEMMA PlanCallAgrees ==
  ASSUME WellFormed, WellFormed', NEW w \in Workers, OneRequest(w), PlanCall(w)
  PROVE  OneRequest(w)'
<1>1. At(w, "plan") /\ UNCHANGED <<approvals, tasks, created>>
  BY DEF PlanCall, stores
<1>2. PICK t \in Tasks :
        /\ job[w].task = t /\ ~At(w, "idle") /\ t \in created
        /\ \A b \in ApprovalIds : Asked(b) => approvals[b].task # t
        /\ \A b \in ApprovalIds : Live(w, b) => approvals[b].task # t
        /\ \A b \in ApprovalIds : ~UsingUp(w, b)
        /\ \A j \in 1..Length : j >= Here(w) => ~Ran(t, j)
  BY <1>1, PlanNow
<1>3. PICK k \in 1..Length : Here(w) = k
  BY PlanCallDoes
<1>4. ~Ran(t, k)
  BY <1>2, <1>3
<1>5. \/ job'[w].at = "plan" /\ job'[w].step = k + 1 /\ NowRan(t, k)
      \/ job'[w].at = "save" /\ UNCHANGED runs
  BY <1>2, <1>3, PlanCallDoes
<1>6. job'[w].task = t
  BY <1>2, PlanCallDoes DEF SameSubject
<1>7. \A b \in ApprovalIds : ~UsingUp(w, b)'
  BY <1>5 DEF UsingUp
<1>8. \A b \in ApprovalIds : /\ Live(w, b)' <=> Live(w, b)
                             /\ Open(b)' <=> Open(b)
                             /\ Asked(b)' <=> Asked(b)
                             /\ approvals'[b] = approvals[b]
  BY <1>1, <1>2, <1>7 DEF Live, Open, Asked
<1>9. CASE job'[w].at = "plan" /\ job'[w].step = k + 1 /\ NowRan(t, k)
  <2>1. FirstRun(t, k)
    <3>1. \E success \in BOOLEAN : Called(t, k, success)
      BY <1>2, <1>3 DEF PlanCall
    <3> QED
      BY <1>4, <1>9, <3>1, RunsFirst
  <2>2. Within(w, t)
    BY <1>1, <1>6, <1>8, <1>9, <2>1 DEF Within, FirstRun, Asked, RowsStay
  <2>3. HereOK(w, t)'
    <3>1. HereOK(w, t)
      BY HereNow
    <3>2. \A j \in 1..Length : runs'[t][j] <= 1
      BY <2>1, <3>1 DEF HereOK, FirstRun
    <3> QED
      BY <1>2, <1>8, <3>1, <3>2 DEF HereOK
  <2>4. CreationKnown(w, t)'
    <3>1. \A j \in 1..Length : j >= k + 1 => ~Ran(t, j)'
      BY <1>2, <1>3, <1>9 DEF NowRan
    <3> QED
      BY <1>1, <1>2, <1>8, <1>9, <3>1 DEF CreationKnown, Here
  <2> QED
    BY <1>2, <1>9, <2>2, <2>3, <2>4, CreationOnly, StepAbout
<1>10. CASE job'[w].at = "save" /\ UNCHANGED runs
  <2>1. Within(w, t) /\ HereOK(w, t)'
    <3>1. Stays(w)
      BY <1>2, <1>6, <1>10 DEF Stays
    <3> QED
      BY <1>1, <1>2, <1>7, <1>10, <3>1, Still
  <2>2. CreationKnown(w, t)'
    BY <1>1, <1>2, <1>8, <1>10 DEF CreationKnown
  <2> QED
    BY <1>2, <1>10, <2>1, <2>2, CreationOnly, StepAbout
<1> QED
  BY <1>5, <1>9, <1>10

\* A plan that ends asks for nothing.
LEMMA PlanOverAgrees ==
  ASSUME WellFormed, WellFormed', NEW w \in Workers, OneRequest(w), PlanOver(w)
  PROVE  OneRequest(w)'
<1>1. At(w, "plan") /\ UNCHANGED <<approvals, tasks, runs, created>>
  BY DEF PlanOver, stores, history
<1>2. PICK t \in Tasks :
        /\ job[w].task = t /\ ~At(w, "idle") /\ t \in created
        /\ \A b \in ApprovalIds : Asked(b) => approvals[b].task # t
        /\ \A b \in ApprovalIds : ~UsingUp(w, b)
  BY <1>1, PlanNow
<1>3. job'[w].at = "save" /\ job'[w].task = t
  BY <1>2, PlanStopDoes DEF SameSubject
<1>4. \A b \in ApprovalIds : ~UsingUp(w, b)'
  BY <1>3 DEF UsingUp
<1>5. Within(w, t) /\ HereOK(w, t)'
  <2>1. Stays(w)
    BY <1>2, <1>3 DEF Stays
  <2> QED
    BY <1>1, <1>2, <1>4, <2>1, Still
<1>6. CreationKnown(w, t)'
  BY <1>1, <1>2, <1>3 DEF CreationKnown, Asked
<1> QED
  BY <1>2, <1>3, <1>5, <1>6, CreationOnly, StepAbout

\* The first approval of a task is the only one.
LEMMA PlanBlockAgrees ==
  ASSUME WellFormed, WellFormed', NEW w \in Workers, OneRequest(w), PlanBlock(w)
  PROVE  OneRequest(w)'
<1>1. At(w, "plan") /\ UNCHANGED <<tasks, runs, created>>
  BY DEF PlanBlock, history
<1>2. PICK t \in Tasks :
        /\ job[w].task = t /\ ~At(w, "idle") /\ t \in created
        /\ \A b \in ApprovalIds : Asked(b) => approvals[b].task # t
        /\ \A b \in ApprovalIds : Live(w, b) => approvals[b].task # t
        /\ \A b \in ApprovalIds : ~UsingUp(w, b)
        /\ \A j \in 1..Length : j >= Here(w) => ~Ran(t, j)
  BY <1>1, PlanNow
<1>3. PICK k \in 1..Length : Here(w) = k
  BY PlanBlockDoes, PlanAssumption
<1>4. PICK c \in ApprovalIds : NewRow(c, t, k)
  BY <1>2, <1>3, PlanBlockDoes
<1>5. /\ job'[w].at = "save" /\ job'[w].task = t
      /\ Mode[t] = "multitool" => job'[w].verdict = "waiting_approval"
  BY <1>2, PlanBlockDoes DEF AfterBlock
<1>6. \A b \in ApprovalIds : ~UsingUp(w, b)'
  BY <1>5 DEF UsingUp
<1>7. \A b \in ApprovalIds : ~(approvals[b].status = "rejected" /\ approvals[b].task = t)
  BY <1>2 DEF Asked
<1>8. HereOK(w, t)' /\ RowsStay
  BY <1>1, <1>2, <1>3, <1>4, <1>6, <1>7, NewHere
<1>9. Within(w, t)
  BY <1>1, <1>4, <1>5, <1>8 DEF Within, NewRow, Asked
<1>10. CreationKnown(w, t)'
  BY <1>1, <1>2, <1>4, <1>5 DEF CreationKnown, NewRow, Asked
<1> QED
  BY <1>2, <1>5, <1>8, <1>9, <1>10, CreationOnly, StepAbout

\* A task is saved as waiting when it has asked for an approval.
LEMMA SaveAgrees ==
  ASSUME WellFormed, WellFormed', NEW w \in Workers, OneRequest(w), Save(w)
  PROVE  OneRequest(w)'
<1>1. /\ job[w].at = "save" /\ UNCHANGED <<approvals, runs, created>>
      /\ SaveTask(job[w].task, job[w].verdict)
  BY DEF Save, At, history
<1>2. ~At(w, "idle")
  BY <1>1 DEF At
<1>3. PICK t \in Tasks : job[w].task = t
  BY <1>2 DEF WellFormed, RequestOK
<1>4. /\ t \in created
      /\ \A b \in ApprovalIds : Asked(b) /\ approvals[b].task = t =>
           /\ approvals[b].status = "pending" /\ ~approvals[b].resumed
           /\ Mode[t] = "multitool" => job[w].verdict = "waiting_approval"
  BY <1>1, <1>3 DEF OneRequest, RequestKnown, CreationKnown
<1>5. job'[w] = NoRequest
  <2>1. job \in [Workers -> Requests]
    BY DEF WellFormed, TypeOK
  <2> QED
    BY <2>1, DoneJob DEF Save
<1>6. /\ tasks'[t] = job[w].verdict
      /\ \A u \in Tasks \ {t} : tasks'[u] = tasks[u]
  BY <1>1, <1>3 DEF SaveTask, WellFormed, TypeOK
<1>7. \A b \in ApprovalIds : ~UsingUp(w, b) /\ ~UsingUp(w, b)'
  BY <1>1, <1>5, NotUsing
<1>8. \A b \in ApprovalIds : /\ Live(w, b)' <=> Live(w, b)
                             /\ Open(b)' <=> Open(b)
                             /\ Live(w, b) => Asked(b)
                             /\ UsedUp(w, b)' => Asked(b) /\ approvals[b].status = "approved"
                             /\ approvals'[b] = approvals[b]
  BY <1>1, <1>7 DEF Live, Open, UsedUp, Asked
<1>9. TaskAgrees(w, t)'
  <2> SUFFICES ASSUME Mode[t] = "multitool" PROVE TaskAgrees(w, t)'
    BY DEF TaskAgrees
  <2>1. \A b \in ApprovalIds : Asked(b) /\ approvals[b].task = t =>
          approvals[b].status = "pending" /\ tasks'[t] = "waiting_approval"
    BY <1>4, <1>6
  <2>2. \A b \in ApprovalIds : approvals[b].status = "rejected" => Asked(b)
    BY DEF Asked
  <2> QED
    BY <1>8, <2>1, <2>2 DEF TaskAgrees
<1>10. HereOK(w, t)'
  <2>1. HereOK(w, t)
    BY HereNow
  <2> QED
    BY <1>1, <1>8, <2>1 DEF HereOK, Ran
<1>11. Within(w, t)
  BY <1>1, <1>5, <1>6, <1>8 DEF Within, RowsStay, Asked
<1> QED
  BY <1>2, <1>3, <1>4, <1>5, <1>9, <1>10, <1>11, StepAbout

-----------------------------------------------------------------------------
(* Requests arrive at an idle process.                                     *)

\* What an arrival leaves as it is.
LEMMA ArrivalKeeps ==
  ASSUME WellFormed, NEW w \in Workers, OneRequest(w), At(w, "idle"),
         UNCHANGED <<approvals, tasks, runs>>, created \subseteq created',
         job'[w].at \in {"plan", "decide", "resume"}
  PROVE  /\ StepOnce' /\ LiveOnce(w)' /\ RowsAgree'
         /\ \A t \in Tasks \ created' : TaskFresh(t)'
         /\ \A t \in Tasks : TaskAgrees(w, t)'
<1>1. \A a \in ApprovalIds : ~UsingUp(w, a) /\ ~UsingUp(w, a)'
  BY DEF UsingUp, At
<1>2. \A a \in ApprovalIds : /\ Live(w, a)' <=> Live(w, a)
                             /\ UsedUp(w, a)' <=> UsedUp(w, a)
                             /\ Open(a)' <=> Open(a)
                             /\ Asked(a)' <=> Asked(a)
                             /\ approvals'[a] = approvals[a]
  BY <1>1 DEF Live, UsedUp, Open, Asked
<1>3. tasks' = tasks /\ runs' = runs /\ approvals' = approvals
  OBVIOUS
<1>4. \A t \in Tasks : TaskAgrees(w, t)'
  BY <1>2, <1>3 DEF OneRequest, TaskAgrees
<1>5. \A t \in Tasks \ created' : TaskFresh(t)'
  BY <1>2, <1>3 DEF OneRequest, TaskFresh, Ran
<1>6. RowsAgree' /\ StepOnce'
  BY <1>2, <1>3 DEF OneRequest, RowsAgree, StepOnce
<1>7. LiveOnce(w)'
  BY <1>2, <1>3 DEF OneRequest, LiveOnce, Ran
<1> QED
  BY <1>4, <1>5, <1>6, <1>7

\* A request about an approval finds its task agreeing with it.
LEMMA ArrivalAgrees ==
  ASSUME WellFormed, WellFormed', NEW w \in Workers, OneRequest(w),
         DecisionRequests(w), UNCHANGED history
  PROVE  OneRequest(w)'
<1>1. PICK a \in ApprovalIds : Approve(w, a) \/ Reject(w, a) \/ ManualResume(w, a)
  BY DEF DecisionRequests
<1>2. PICK p \in {"decide", "resume"}, verb \in Decisions : Request(w, a, p, verb)
  BY <1>1 DEF Approve, Reject, ManualResume, Decisions
<1>3. Asked(a)
  BY <1>1 DEF Approve, Reject, ManualResume, Asked
<1>4. PICK t \in Tasks : approvals[a].task = t
  BY <1>3 DEF WellFormed, RowOK
<1>5. /\ At(w, "idle") /\ UNCHANGED <<approvals, tasks, runs, created>>
      /\ job'[w].at = p /\ job'[w].appr = a /\ job'[w].task = t
  <2>1. job'[w] = [NoRequest EXCEPT !.at = p, !.appr = a, !.verb = verb, !.task = t]
    BY <1>2, <1>4 DEF Request, PutJob, WellFormed, TypeOK
  <2> QED
    BY <1>2, <2>1 DEF Request, NoRequest, stores, history
<1>6. /\ StepOnce' /\ LiveOnce(w)' /\ RowsAgree'
      /\ \A u \in Tasks \ created' : TaskFresh(u)'
      /\ \A u \in Tasks : TaskAgrees(w, u)'
  BY <1>2, <1>5, ArrivalKeeps
<1>7. SubjectOK(w, a, t)'
  BY <1>2, <1>5, <1>6 DEF SubjectOK, ResumePoints
<1>8. RestOK(w, t)' /\ CreationKnown(w, t)'
  BY <1>2, <1>5 DEF RestOK, CreationKnown
<1>9. RequestKnown(w)'
  BY <1>5, <1>7, <1>8 DEF RequestKnown
<1> QED
  BY <1>6, <1>9 DEF OneRequest

\* A new task has neither approvals nor a history.
LEMMA CreateAgrees ==
  ASSUME WellFormed, NEW w \in Workers, OneRequest(w), NEW t \in Tasks,
         CreateTask(w, t)
  PROVE  OneRequest(w)'
<1>1. /\ At(w, "idle") /\ UNCHANGED <<approvals, tasks, runs>>
      /\ t \notin created /\ created' = created \cup {t}
  BY DEF CreateTask, stores
<1>2. job'[w].at = "plan" /\ job'[w].task = t
  BY CreateTaskDoes
<1>3. /\ StepOnce' /\ LiveOnce(w)' /\ RowsAgree'
      /\ \A u \in Tasks \ created' : TaskFresh(u)'
      /\ \A u \in Tasks : TaskAgrees(w, u)'
  BY <1>1, <1>2, ArrivalKeeps
<1>4. TaskFresh(t)
  BY <1>1 DEF OneRequest
<1>5. CreationKnown(w, t)'
  BY <1>1, <1>2, <1>4 DEF CreationKnown, TaskFresh, Asked, Ran
<1>6. RestOK(w, t)' /\ \A a \in ApprovalIds : SubjectOK(w, a, t)'
  BY <1>2 DEF RestOK, SubjectOK, AgreePoints, ResumePoints
<1>7. RequestKnown(w)'
  BY <1>2, <1>5, <1>6 DEF RequestKnown
<1> QED
  BY <1>3, <1>7 DEF OneRequest

-----------------------------------------------------------------------------
(* The theorems.                                                           *)

\* Without a bound on faults left there is none.
LEMMA NoFaultLeft == ASSUME TypeOK, MaxFaults = 0 PROVE ~Fault
BY DEF TypeOK, Fault

\* Every step of the only process keeps the invariant.
LEMMA OneRequestStep ==
  ASSUME MaxFaults = 0, WellFormed, NEW w \in Workers, OneRequest(w), Step(w)
  PROVE  OneRequest(w)'
<1>1. WellFormed'
  BY WellFormedStep
<1>2. ~(DecisionFaults(w) \/ PlanFault(w))
  BY NoFaultLeft DEF WellFormed, DecisionFaults, CancelTaskFault, Abort, PlanFault
<1>3. CASE DecisionSteps(w) /\ UNCHANGED history
  BY <1>1, <1>3, DecidingMoves, AuditingMoves, ResumingMoves, WritingAgrees,
     CancellingAgrees, PayloadWriteAgrees DEF DecisionSteps
<1>4. CASE CreateSteps(w)
  BY <1>1, <1>4, PlanCallAgrees, PlanBlockAgrees, PlanOverAgrees, SaveAgrees
     DEF CreateSteps
<1>5. CASE ResumeSteps(w)
  BY <1>1, <1>5, ResumingMoves, ApprovedStepAgrees, RestCallAgrees,
     RestBlockAgrees, RestOverAgrees, UpdateTaskAgrees DEF ResumeSteps
<1>6. CASE DecisionRequests(w) /\ UNCHANGED history
  BY <1>1, <1>6, ArrivalAgrees
<1>7. CASE \E t \in Tasks : CreateTask(w, t)
  BY <1>7, CreateAgrees
<1> QED
  BY <1>2, <1>3, <1>4, <1>5, <1>6, <1>7 DEF Step, Serve

\* The invariant holds of one process that no fault interrupts.
LEMMA OneRequestAlways ==
  ASSUME NEW w \in Workers, Workers = {w}, MaxFaults = 0
  PROVE  Spec => []OneRequest(w)
<1>1. Init => OneRequest(w)
  BY OneRequestInit
<1>2. WellFormed /\ OneRequest(w) /\ [Next]_vars => OneRequest(w)'
  <2>1. OneRequest(w) /\ UNCHANGED vars => OneRequest(w)'
    <3> SUFFICES ASSUME OneRequest(w), UNCHANGED vars PROVE OneRequest(w)'
      OBVIOUS
    <3>1. /\ approvals' = approvals /\ tasks' = tasks /\ job' = job
          /\ created' = created /\ runs' = runs
      BY DEF vars, stores
    <3>2. \A a \in ApprovalIds : /\ Asked(a)' <=> Asked(a)
                                 /\ Open(a)' <=> Open(a)
                                 /\ Live(w, a)' <=> Live(w, a)
                                 /\ UsedUp(w, a)' <=> UsedUp(w, a)
      BY <3>1 DEF Asked, Open, Live, UsedUp, UsingUp
    <3>3. \A t \in Tasks : /\ TaskAgrees(w, t)' <=> TaskAgrees(w, t)
                           /\ TaskFresh(t)' <=> TaskFresh(t)
                           /\ RestOK(w, t)' <=> RestOK(w, t)
                           /\ CreationKnown(w, t)' <=> CreationKnown(w, t)
      BY <3>1, <3>2 DEF TaskAgrees, TaskFresh, RestOK, CreationKnown, Ran, Here
    <3>4. \A a \in ApprovalIds, t \in Tasks : SubjectOK(w, a, t)' <=> SubjectOK(w, a, t)
      BY <3>1, <3>3 DEF SubjectOK
    <3>5. RequestKnown(w)'
      BY <3>1, <3>3, <3>4 DEF OneRequest, RequestKnown
    <3>6. StepOnce' /\ LiveOnce(w)' /\ RowsAgree'
      BY <3>1, <3>2 DEF OneRequest, StepOnce, LiveOnce, RowsAgree, Ran
    <3> QED
      BY <3>1, <3>3, <3>5, <3>6 DEF OneRequest, At
  <2> QED
    BY <2>1, OneRequestStep DEF Next
<1> QED
  BY <1>1, <1>2, WellFormedAlways, PTL DEF Spec

\* Resuming does not repeat what is done: with one process and no fault no step
\* of a plan succeeds twice, whatever is approved and resumed again.
THEOREM ShippedStepOnce ==
  ASSUME NEW w \in Workers, Workers = {w}, MaxFaults = 0
  PROVE  Spec => []StepOnce
<1>1. OneRequest(w) => StepOnce
  BY DEF OneRequest
<1> QED
  BY <1>1, OneRequestAlways, PTL

\* Between requests a task has one approval at most that can still lead to a
\* call: _execute_subsequent_steps asks for the next one only once the step of
\* the last is behind it, and a failed resume asks for none.
THEOREM ShippedOneOpenApproval ==
  ASSUME NEW w \in Workers, Workers = {w}, MaxFaults = 0
  PROVE  Spec => []OneOpenApproval
<1>1. WellFormed /\ OneRequest(w) => OneOpenApproval
  <2> SUFFICES ASSUME WellFormed, OneRequest(w), At(w, "idle"),
                      NEW a \in ApprovalIds, NEW b \in ApprovalIds, Open(a), Open(b),
                      approvals[a].task = approvals[b].task
               PROVE  a = b
    BY DEF OneOpenApproval, Quiet
  <2>1. Live(w, a) /\ Live(w, b)
    BY LiveElsewhere, LiveAsked
  <2> QED
    BY <2>1 DEF OneRequest, LiveOnce
<1> QED
  BY <1>1, OneRequestAlways, WellFormedAlways, PTL

\* Between requests the approvals of a multitool task and its status agree: what
\* the two stores say of a plan is one story, over any number of approvals.
THEOREM ShippedPlanAgrees ==
  ASSUME NEW w \in Workers, Workers = {w}, MaxFaults = 0
  PROVE  Spec => []PlanAgrees
<1>1. WellFormed /\ Reached /\ OneRequest(w) => PlanAgrees
  <2> SUFFICES ASSUME WellFormed, Reached, OneRequest(w), At(w, "idle"),
                      NEW a \in ApprovalIds, NEW t \in Tasks,
                      approvals[a].task = t, Asked(a), Mode[t] = "multitool"
        PROVE  /\ approvals[a].status = "pending" => tasks[t] = "waiting_approval"
               /\ approvals[a].status = "rejected" => tasks[t] = "cancelled"
               /\ approvals[a].status = "approved" /\ ~approvals[a].resumed =>
                    /\ tasks[t] \in {"waiting_approval", "failed"}
                    /\ ~Ran(t, approvals[a].step)
               /\ approvals[a].resumed /\ tasks[t] = "waiting_approval" =>
                    \E b \in ApprovalIds :
                      /\ Open(b) /\ approvals[b].task = t
                      /\ approvals[b].step > approvals[a].step
    BY LiveAsked DEF PlanAgrees, Quiet
  <2>1. TaskAgrees(w, t)
    BY DEF OneRequest
  <2>2. approvals[a].resumed => approvals[a].status = "approved"
    BY DEF OneRequest, RowsAgree
  <2>3. Live(w, a) <=> Open(a)
    BY LiveElsewhere
  <2>4. approvals[a].step \in 1..Length
    BY LiveAsked
  <2>5. approvals[a].status = "pending" => tasks[t] = "waiting_approval"
    BY <2>1, <2>2, <2>3 DEF TaskAgrees, Open
  <2>6. approvals[a].status = "rejected" => tasks[t] = "cancelled"
    BY <2>1 DEF TaskAgrees
  <2>7. approvals[a].status = "approved" /\ ~approvals[a].resumed =>
          /\ tasks[t] \in {"waiting_approval", "failed"}
          /\ ~Ran(t, approvals[a].step)
    <3> SUFFICES ASSUME Live(w, a), approvals[a].status = "approved"
                 PROVE  /\ tasks[t] \in {"waiting_approval", "failed"}
                        /\ ~Ran(t, approvals[a].step)
      BY <2>3 DEF Open
    <3>1. tasks[t] \in {"waiting_approval", "failed"}
      BY <2>1 DEF TaskAgrees
    <3>2. ~Ran(t, approvals[a].step)
      BY <2>4 DEF OneRequest, LiveOnce
    <3> QED
      BY <3>1, <3>2
  <2>8. ASSUME approvals[a].resumed, tasks[t] = "waiting_approval"
        PROVE  \E b \in ApprovalIds : /\ Open(b) /\ approvals[b].task = t
                                      /\ approvals[b].step > approvals[a].step
    <3>1. UsedUp(w, a)
      BY <2>2, <2>3, <2>8 DEF UsedUp, Open
    <3>2. PICK b \in ApprovalIds : Live(w, b) /\ approvals[b].task = t
      BY <2>1, <2>8, <3>1 DEF TaskAgrees
    <3>3. Open(b) /\ approvals[b].step \in 1..Length
      BY <3>2, LiveAsked
    <3>4. Ran(t, approvals[a].step)
      BY <2>8 DEF Reached, RowReached
    <3>5. ~(approvals[a].step >= approvals[b].step)
      BY <2>4, <3>2, <3>4 DEF OneRequest, LiveOnce
    <3> QED
      BY <2>4, <3>2, <3>3, <3>5
  <2> QED
    BY <2>5, <2>6, <2>7, <2>8
<1> QED
  BY <1>1, OneRequestAlways, WellFormedAlways, ReachedAlways, PTL

=============================================================================
