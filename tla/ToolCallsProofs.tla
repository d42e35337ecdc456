-------------------------- MODULE ToolCallsProofs --------------------------
(***************************************************************************)
(* Proofs about ToolCalls for every set of tool requests, discoveries and  *)
(* child processes, every retry policy and every bound on unread lines,    *)
(* whichever requests are too long for a pipe and however many it takes of *)
(* the others, whether or not the command wraps the server.                *)
(***************************************************************************)
EXTENDS ToolCalls, TLAPS, FiniteSetTheorems

-----------------------------------------------------------------------------
(* What is in a pipe.                                                      *)

Elems(s) == {s[i] : i \in DOMAIN s}

\* A message written to a pipe is in it, with what was there.
LEMMA ElemsOfAppend ==
  ASSUME NEW S, NEW s \in Seq(S), NEW e \in S
  PROVE  /\ Append(s, e) \in Seq(S)
         /\ Elems(Append(s, e)) = Elems(s) \cup {e}
<1>1. /\ Append(s, e) \in Seq(S) /\ Len(Append(s, e)) = Len(s) + 1
      /\ Append(s, e)[Len(s) + 1] = e
      /\ \A i \in 1..Len(s) : Append(s, e)[i] = s[i]
  OBVIOUS
<1>2. Len(s) \in Nat /\ DOMAIN s = 1..Len(s) /\ DOMAIN Append(s, e) = 1..(Len(s) + 1)
  BY <1>1
<1> QED
  BY <1>1, <1>2 DEF Elems

\* A message read from a pipe was in it; the others stay.
LEMMA ElemsOfTail ==
  ASSUME NEW S, NEW s \in Seq(S), s # <<>>
  PROVE  /\ Tail(s) \in Seq(S) /\ Head(s) \in S
         /\ Elems(s) = {Head(s)} \cup Elems(Tail(s))
         /\ Len(s) \in Nat /\ Len(s) > 0 /\ Head(s) = s[1]
         /\ DOMAIN s = 1..Len(s) /\ DOMAIN Tail(s) = 1..(Len(s) - 1)
         /\ \A i \in 1..(Len(s) - 1) : Tail(s)[i] = s[i + 1]
<1>1. /\ Tail(s) \in Seq(S) /\ Head(s) \in S /\ Head(s) = s[1]
      /\ Len(s) \in Nat /\ Len(s) > 0 /\ Len(Tail(s)) = Len(s) - 1
      /\ \A i \in 1..(Len(s) - 1) : Tail(s)[i] = s[i + 1]
  OBVIOUS
<1>2. DOMAIN s = 1..Len(s) /\ DOMAIN Tail(s) = 1..(Len(s) - 1)
  BY <1>1
<1>3. Elems(s) \subseteq {Head(s)} \cup Elems(Tail(s))
  <2> SUFFICES ASSUME NEW i \in 1..Len(s), i # 1
               PROVE  s[i] \in Elems(Tail(s))
    BY <1>1, <1>2 DEF Elems
  <2>1. i - 1 \in 1..(Len(s) - 1) /\ Tail(s)[i - 1] = s[i]
    BY <1>1
  <2> QED
    BY <2>1, <1>2 DEF Elems
<1>4. {Head(s)} \cup Elems(Tail(s)) \subseteq Elems(s)
  <2>1. \A i \in 1..(Len(s) - 1) : i + 1 \in 1..Len(s)
    BY <1>1
  <2>2. 1 \in 1..Len(s)
    BY <1>1
  <2> QED
    BY <2>1, <2>2, <1>1, <1>2 DEF Elems
<1> QED
  BY <1>1, <1>2, <1>3, <1>4

\* Lines written to a pipe are in it, with what was there.
LEMMA ElemsOfConcat ==
  ASSUME NEW S, NEW s \in Seq(S), NEW t \in Seq(S)
  PROVE  s \o t \in Seq(S) /\ Elems(s \o t) = Elems(s) \cup Elems(t)
<1>1. /\ s \o t \in Seq(S) /\ Len(s \o t) = Len(s) + Len(t)
      /\ Len(s) \in Nat /\ Len(t) \in Nat
      /\ \A i \in 1..(Len(s) + Len(t)) :
           (s \o t)[i] = IF i <= Len(s) THEN s[i] ELSE t[i - Len(s)]
  OBVIOUS
<1>2. DOMAIN s = 1..Len(s) /\ DOMAIN t = 1..Len(t)
      /\ DOMAIN (s \o t) = 1..(Len(s) + Len(t))
  BY <1>1
<1>3. Elems(s \o t) \subseteq Elems(s) \cup Elems(t)
  <2> SUFFICES ASSUME NEW i \in 1..(Len(s) + Len(t))
               PROVE  (s \o t)[i] \in Elems(s) \cup Elems(t)
    BY <1>2 DEF Elems
  <2>1. CASE i <= Len(s)
    BY <2>1, <1>1, <1>2 DEF Elems
  <2>2. CASE i > Len(s)
    <3>1. i - Len(s) \in 1..Len(t)
      BY <2>2, <1>1
    <3> QED
      BY <3>1, <2>2, <1>1, <1>2 DEF Elems
  <2> QED
    BY <2>1, <2>2, <1>1
<1>4. Elems(s) \subseteq Elems(s \o t)
  <2>1. \A i \in 1..Len(s) : i \in 1..(Len(s) + Len(t)) /\ (s \o t)[i] = s[i]
    BY <1>1
  <2> QED
    BY <2>1, <1>2 DEF Elems
<1>5. Elems(t) \subseteq Elems(s \o t)
  <2> SUFFICES ASSUME NEW i \in 1..Len(t)
               PROVE  t[i] \in Elems(s \o t)
    BY <1>2 DEF Elems
  <2>1. i + Len(s) \in 1..(Len(s) + Len(t)) /\ ~(i + Len(s) <= Len(s))
        /\ (i + Len(s)) - Len(s) = i
    BY <1>1
  <2>2. (s \o t)[i + Len(s)] = t[i]
    BY <2>1, <1>1
  <2> QED
    BY <2>1, <2>2, <1>2 DEF Elems
<1> QED
  BY <1>1, <1>3, <1>4, <1>5

\* An empty pipe has nothing in it.
LEMMA ElemsOfEmpty == Elems(<<>>) = {} /\ \A S : <<>> \in Seq(S)
BY DEF Elems

-----------------------------------------------------------------------------
(* The lock and the processes.                                             *)

Jobs == [at : Points, id : Nat, retries : Nat, attempt : 1..2, reading : BOOLEAN]
Answers == [how : {"none", "failed", "result"}, what : What,
            call : Calls \cup {NoCall}]

\* Points at which a call holds the lock, those after it has a process, and
\* those at which it does not.
Holding == {"start", "initialize", "request", "write", "await_handshake",
            "await_result", "terminate", "close"}
Bound == Holding \ {"start"}
Free == {"gateway", "lock", "done"}

\* A call under way holds the lock, and after its start there is a process.
CallOK(c) ==
  /\ job[c].at \in Holding <=> lock = c
  /\ job[c].at \in Bound => proc \in Servers
  /\ c \in ToolRequests => job[c].attempt = 1
  /\ At(c, "close") => alive = {}
  /\ At(c, "request") => initialized

\* Only the client's process runs, only its pipes have anything in them, and a
\* process that has ended has read and owes nothing.
OnlyProc ==
  /\ alive \subseteq {proc}
  /\ \A p \in Servers : p \notin alive =>
       owed[p] = {} /\ inbox[p] = <<>> /\ p \notin greeted /\ p \notin strayed
  /\ \A p \in Servers : p # proc => outbox[p] = <<>>

WellFormed ==
  /\ TypeOK
  /\ \A c \in Calls : CallOK(c)
  /\ OnlyProc

\* The initial state is well formed.
LEMMA WellFormedInit == Init => WellFormed
<1> SUFFICES ASSUME Init PROVE WellFormed
  OBVIOUS
<1> USE ToolCallsAssumption
<1>1. NewJob("gateway", 0) \in Jobs
  BY DEF NewJob, Jobs, Points
<1>2. NoAnswer \in Answers
  BY DEF NoAnswer, Answers, What
<1>3. \A c \in ToolRequests : c \in Calls /\ job[c].retries = 0 /\ MaxRetries[c] \in Nat
  BY DEF Init, Calls, NewJob
<1>4. TypeOK
  <2>1. job \in [Calls -> Jobs] /\ answer \in [Calls -> Answers]
    BY <1>1, <1>2 DEF Init
  <2>2. /\ owed \in [Servers -> SUBSET Requests]
        /\ inbox \in [Servers -> Seq(Requests)]
        /\ outbox \in [Servers -> Seq(Lines)]
    BY ElemsOfEmpty DEF Init
  <2>3. executed \in [Calls -> Nat]
    BY DEF Init
  <2>4. \A c \in ToolRequests : job[c].retries <= MaxRetries[c]
    BY <1>3
  <2> QED
    BY <2>1, <2>2, <2>3, <2>4 DEF Init, TypeOK, Jobs, Answers
<1>5. \A c \in Calls : CallOK(c)
  BY DEF Init, CallOK, At, NewJob, Holding, Bound
<1>6. OnlyProc
  BY DEF Init, OnlyProc
<1> QED
  BY <1>4, <1>5, <1>6 DEF WellFormed

\* Only the job of c may have changed.
OnlyJob(c) ==
  /\ job' \in [Calls -> Jobs]
  /\ \A d \in Calls \ {c} : job'[d] = job[d]

\* c goes from one point to another, in the same attempt.
Moves(c, to) ==
  /\ OnlyJob(c)
  /\ job'[c].at = to
  /\ job'[c].retries = job[c].retries /\ job'[c].attempt = job[c].attempt
  /\ UNCHANGED <<answer, lock>>

\* c lets go of the lock, for its next attempt or with an answer.
Leaves(c, a) ==
  /\ OnlyJob(c)
  /\ job'[c].attempt = 1
  /\ lock' = NoCall
  /\ \/ /\ c \in ToolRequests /\ job[c].retries < MaxRetries[c]
        /\ job'[c].at = "lock" /\ job'[c].retries = job[c].retries + 1
        /\ UNCHANGED answer
     \/ /\ job'[c].at = "done" /\ job'[c].retries = job[c].retries
        /\ answer' = [answer EXCEPT ![c] = a]

\* The jobs of well-formed states.
LEMMA JobsTyped ==
  ASSUME WellFormed
  PROVE  /\ job \in [Calls -> Jobs] /\ answer \in [Calls -> Answers]
         /\ \A c \in Calls :
              /\ job[c].at \in Points /\ job[c].id \in Nat
              /\ job[c].retries \in Nat /\ job[c].attempt \in 1..2
              /\ job[c].reading \in BOOLEAN
BY DEF WellFormed, TypeOK, Jobs, Answers

\* A fresh job is a job.
LEMMA NewJobTyped ==
  ASSUME NEW at \in Points, NEW n \in Nat
  PROVE  /\ NewJob(at, n) \in Jobs
         /\ NewJob(at, n).at = at /\ NewJob(at, n).retries = n
         /\ NewJob(at, n).attempt = 1
BY DEF NewJob, Jobs

\* Goto moves a call.
LEMMA GotoMoves ==
  ASSUME WellFormed, NEW c \in Calls, NEW to \in Points, Goto(c, to),
         UNCHANGED <<answer, lock>>
  PROVE  Moves(c, to)
<1> DEFINE r == [job[c] EXCEPT !.at = to]
<1>1. job[c] \in Jobs /\ job \in [Calls -> Jobs]
  BY JobsTyped
<1>2. /\ r \in Jobs /\ r.at = to /\ r.retries = job[c].retries
      /\ r.attempt = job[c].attempt
  BY <1>1 DEF Jobs
<1>3. job' = [job EXCEPT ![c] = r]
  BY <1>1 DEF Goto, Jobs
<1> QED
  BY <1>1, <1>2, <1>3 DEF Moves, OnlyJob

\* The end of a call lets go of the lock.
LEMMA AnswerLeaves ==
  ASSUME WellFormed, NEW c \in Calls, NEW a, Answer(c, a)
  PROVE  Leaves(c, a)
<1> DEFINE r == NewJob("done", job[c].retries)
<1>1. job[c].retries \in Nat /\ job \in [Calls -> Jobs]
  BY JobsTyped
<1>2. r \in Jobs /\ r.at = "done" /\ r.retries = job[c].retries /\ r.attempt = 1
  BY <1>1, NewJobTyped DEF Points
<1>3. job' = [job EXCEPT ![c] = r] /\ lock' = NoCall /\ answer' = [answer EXCEPT ![c] = a]
  BY DEF Answer
<1> HIDE DEF r
<1> QED
  BY <1>1, <1>2, <1>3 DEF Leaves, OnlyJob

\* So does the end of an attempt.
LEMMA RetryLeaves ==
  ASSUME WellFormed, NEW c \in Calls,
         IF c \in ToolRequests THEN RetryOrFail(c) ELSE Answer(c, Failed)
  PROVE  Leaves(c, Failed)
<1>1. CASE Answer(c, Failed)
  BY <1>1, AnswerLeaves
<1>2. CASE c \in ToolRequests /\ job[c].retries < MaxRetries[c] /\ RetryOrFail(c)
  <2> DEFINE r == NewJob("lock", job[c].retries + 1)
  <2>1. job[c].retries + 1 \in Nat /\ job \in [Calls -> Jobs]
    BY JobsTyped
  <2>2. r \in Jobs /\ r.at = "lock" /\ r.retries = job[c].retries + 1 /\ r.attempt = 1
    BY <2>1, NewJobTyped DEF Points
  <2>3. job' = [job EXCEPT ![c] = r] /\ lock' = NoCall /\ UNCHANGED answer
    BY <1>2 DEF RetryOrFail
  <2> HIDE DEF r
  <2> QED
    BY <1>2, <2>1, <2>2, <2>3 DEF Leaves, OnlyJob
<1> QED
  BY <1>1, <1>2 DEF RetryOrFail

-----------------------------------------------------------------------------
(* Every step of a call has one of eight forms.                            *)

\* The process stays the client's, and nothing is written to or by it.
ProcSame == UNCHANGED <<proc, initialized, request_id>>
ServerSame == UNCHANGED <<alive, greeted, owed, inbox, strayed, executed>>
ReadsLine == outbox[proc] # <<>> /\ TakeLine

\* Without the lock, or taking it.
Passes(c) ==
  /\ OnlyJob(c)
  /\ job'[c].retries = job[c].retries /\ job'[c].attempt = job[c].attempt
  /\ \/ /\ At(c, "gateway") /\ job'[c].at \in {"lock", "done"} /\ UNCHANGED lock
        /\ UNCHANGED answer \/ answer' = [answer EXCEPT ![c] = Failed]
     \/ /\ At(c, "lock") /\ job'[c].at = "start" /\ lock = NoCall /\ lock' = c
        /\ UNCHANGED answer
  /\ ProcSame /\ ServerSame /\ UNCHANGED <<registered, outbox>>

\* c has sent a request, which may not be written to its end.
Waits(c) == job[c].at \in {"write", "await_handshake", "await_result"}

\* With the process there is, or to its end.
Goes(c) ==
  /\ \/ /\ At(c, "start") /\ Running /\ UNCHANGED outbox
        /\ Moves(c, IF initialized THEN "request" ELSE "initialize")
     \/ /\ Waits(c) \/ At(c, "initialize") \/ At(c, "request")
        /\ UNCHANGED outbox \/ (Awaiting(c) /\ ReadsLine)
        /\ Moves(c, "terminate")
     \/ /\ At(c, "write") /\ UNCHANGED outbox
        /\ Moves(c, "await_result") /\ job'[c].id = job[c].id
  /\ ProcSame /\ ServerSame /\ UNCHANGED registered

\* With a new process.
Starts(c, p) ==
  /\ At(c, "start") /\ ~Running /\ Moves(c, "initialize")
  /\ NewProcess(p) /\ initialized' = FALSE
  /\ UNCHANGED <<registered, request_id, history>>

\* With a request.
Sends(c) ==
  /\ At(c, "initialize") \/ At(c, "request")
  /\ Running /\ request_id' = request_id + 1
  /\ OnlyJob(c)
  /\ job'[c].id = request_id + 1
  /\ job'[c].at = IF At(c, "initialize") THEN "await_handshake"
                  ELSE IF c \in Long THEN "write" ELSE "await_result"
  /\ job'[c].retries = job[c].retries /\ job'[c].attempt = job[c].attempt
  /\ inbox' = [inbox EXCEPT ![proc] =
                 Append(@, Request(request_id + 1, job[c].at, c))]
  /\ UNCHANGED <<gateway, lock, proc, initialized,
                 alive, greeted, owed, outbox, history>>

\* With the notification.
Greets(c) ==
  /\ At(c, "await_handshake") /\ ReadsLine /\ Running
  /\ Head(outbox[proc]).id = job[c].id
  /\ Moves(c, "request")
  /\ inbox' = [inbox EXCEPT ![proc] = Append(@, Request(0, "notice", c))]
  /\ initialized' = TRUE
  /\ UNCHANGED <<registered, proc, request_id, alive, greeted, owed, history>>

\* Out of an attempt that leaves the process as it is.
GivesUp(c, a) ==
  /\ Leaves(c, a)
  /\ \/ At(c, "start") /\ UNCHANGED outbox /\ a = Failed
     \/ Awaiting(c) /\ ReadsLine /\ Head(outbox[proc]).how = "stray" /\ a = Failed
     \/ /\ At(c, "await_result") /\ ReadsLine
        /\ Head(outbox[proc]).id = job[c].id
        /\ Head(outbox[proc]).how \in {"result", "refused"}
        /\ a \in {Failed, AnsweredBy(Head(outbox[proc]))}
  /\ registered' \in BOOLEAN
  /\ ProcSame /\ ServerSame

\* To the end of the process ...
Kills(c) ==
  /\ At(c, "terminate") /\ Moves(c, "close") /\ Gone(proc)
  /\ ProcSame /\ UNCHANGED <<registered, outbox, executed>>

\* ... and of its pipes.
Closes(c) ==
  /\ At(c, "close") /\ proc' = NoServer /\ initialized' = FALSE
  /\ outbox' = [outbox EXCEPT ![proc] = <<>>]
  /\ \/ Leaves(c, Failed)
     \/ /\ c \notin ToolRequests /\ OnlyJob(c) /\ job'[c].at = "start"
        /\ UNCHANGED <<answer, lock>>
  /\ ServerSame /\ UNCHANGED <<registered, request_id>>

\* The forms, action by action.  Looking up the tool.
LEMMA LookupPasses ==
  ASSUME WellFormed, NEW c \in Calls, Lookup(c)
  PROVE  Passes(c)
<1> PICK to \in {"lock", "done"} :
      /\ Goto(c, to)
      /\ UNCHANGED answer \/ answer' = [answer EXCEPT ![c] = Failed]
  BY DEF Lookup
<1>1. job \in [Calls -> Jobs] /\ job[c] \in Jobs
  BY JobsTyped
<1> DEFINE r == [job[c] EXCEPT !.at = to]
<1>2. /\ r \in Jobs /\ r.at = to /\ r.retries = job[c].retries
      /\ r.attempt = job[c].attempt
  BY <1>1 DEF Jobs, Points
<1>3. job' = [job EXCEPT ![c] = r]
  BY <1>1 DEF Goto, Jobs
<1> HIDE DEF r
<1>4. OnlyJob(c) /\ job'[c] = r
  BY <1>1, <1>2, <1>3 DEF OnlyJob
<1> QED
  BY <1>2, <1>4 DEF Passes, Lookup, ProcSame, ServerSame, client, server, history

\* Taking the lock.
LEMMA AcquirePasses ==
  ASSUME WellFormed, NEW c \in Calls, Acquire(c)
  PROVE  Passes(c)
<1>1. job \in [Calls -> Jobs] /\ job[c] \in Jobs
  BY JobsTyped
<1> DEFINE r == [job[c] EXCEPT !.at = "start"]
<1>2. /\ r \in Jobs /\ r.at = "start" /\ r.retries = job[c].retries
      /\ r.attempt = job[c].attempt
  BY <1>1 DEF Jobs, Points
<1>3. job' = [job EXCEPT ![c] = r]
  BY <1>1 DEF Goto, Jobs, Acquire
<1> HIDE DEF r
<1>4. OnlyJob(c) /\ job'[c] = r
  BY <1>1, <1>2, <1>3 DEF OnlyJob
<1> QED
  BY <1>2, <1>4 DEF Passes, Acquire, ProcSame, ServerSame, gateway, server, history

\* Going on with a process that runs.
LEMMA AlreadyStartedGoes ==
  ASSUME WellFormed, NEW c \in Calls, AlreadyStarted(c)
  PROVE  Goes(c)
<1> DEFINE to == IF initialized THEN "request" ELSE "initialize"
<1>1. to \in Points
  BY DEF Points
<1>2. Goto(c, to) /\ UNCHANGED <<answer, lock>>
  BY DEF AlreadyStarted, gateway, client
<1>3. Moves(c, to)
  BY <1>1, <1>2, GotoMoves
<1> QED
  BY <1>3 DEF Goes, AlreadyStarted, ProcSame, ServerSame, gateway, client, server, history

\* Starting a process.
LEMMA StartProcessStarts ==
  ASSUME WellFormed, NEW c \in Calls, StartProcess(c)
  PROVE  \E p \in Servers : Starts(c, p)
<1>1. Moves(c, "initialize")
  BY GotoMoves DEF StartProcess, gateway, Points
<1> QED
  BY <1>1 DEF Starts, StartProcess, gateway

\* A process that cannot be started ends the attempt.
LEMMA StartRaisesGivesUp ==
  ASSUME WellFormed, NEW c \in Calls, StartRaises(c)
  PROVE  \E a : GivesUp(c, a)
<1>1. Leaves(c, Failed)
  BY RetryLeaves DEF StartRaises
<1>2. registered' \in BOOLEAN
  BY DEF StartRaises, WellFormed, TypeOK
<1> QED
  BY <1>1, <1>2 DEF GivesUp, StartRaises, ProcSame, ServerSame, server, history

\* Sending, or finding that the process has exited.
LEMMA SendForms ==
  ASSUME WellFormed, NEW c \in Calls, Send(c)
  PROVE  Goes(c) \/ Sends(c)
<1>1. CASE ~Running
  <2>1. Moves(c, "terminate")
    BY <1>1, GotoMoves DEF Send, gateway, Points
  <2>2. ProcSame /\ ServerSame /\ UNCHANGED <<registered, outbox>>
    BY <1>1 DEF Send, ProcSame, ServerSame, gateway, history
  <2>3. At(c, "initialize") \/ At(c, "request")
    BY DEF Send
  <2> QED
    BY <2>1, <2>2, <2>3 DEF Goes
<1>2. CASE Running
  <2> DEFINE to == IF At(c, "initialize") THEN "await_handshake"
                   ELSE IF c \in Long THEN "write" ELSE "await_result"
             r == [job[c] EXCEPT !.id = request_id + 1, !.at = to]
  <2>1. job \in [Calls -> Jobs] /\ job[c] \in Jobs /\ request_id + 1 \in Nat
    BY JobsTyped DEF WellFormed, TypeOK
  <2>2. to \in Points
    BY DEF Points
  <2>3. /\ r \in Jobs /\ r.at = to /\ r.id = request_id + 1
        /\ r.retries = job[c].retries /\ r.attempt = job[c].attempt
    <3> HIDE DEF to
    <3> QED
      BY <2>1, <2>2 DEF Jobs
  <2>4. job' = [job EXCEPT ![c] = r]
    BY <1>2, <2>1 DEF Send, Jobs
  <2> HIDE DEF r
  <2>5. OnlyJob(c) /\ job'[c] = r
    BY <2>1, <2>3, <2>4 DEF OnlyJob
  <2> QED
    BY <1>2, <2>3, <2>5 DEF Sends, Send
<1> QED
  BY <1>1, <1>2

\* A long request is written.
LEMMA WrittenGoes ==
  ASSUME WellFormed, NEW c \in Calls, Written(c)
  PROVE  Goes(c)
<1>1. Goto(c, "await_result") /\ UNCHANGED <<answer, lock>>
  BY DEF Written, gateway, client
<1>2. Moves(c, "await_result")
  BY <1>1, GotoMoves DEF Points
<1>3. job'[c].id = job[c].id
  BY <1>1, JobsTyped DEF Goto, Jobs
<1>4. ProcSame /\ ServerSame /\ UNCHANGED <<registered, outbox>>
  BY DEF Written, ProcSame, ServerSame, gateway, client, server, history
<1>5. At(c, "write")
  BY DEF Written
<1> QED
  BY <1>2, <1>3, <1>4, <1>5 DEF Goes

\* A long request that nobody reads ends the process.
LEMMA WriteFailsGoes ==
  ASSUME WellFormed, NEW c \in Calls, WriteFails(c)
  PROVE  Goes(c)
<1>1. Moves(c, "terminate")
  BY GotoMoves DEF WriteFails, gateway, client, Points
<1>2. ProcSame /\ ServerSame /\ UNCHANGED <<registered, outbox>>
  BY DEF WriteFails, ProcSame, ServerSame, gateway, client, server, history
<1>3. Waits(c)
  BY DEF WriteFails, At, Waits
<1> QED
  BY <1>1, <1>2, <1>3 DEF Goes

\* A line that _request turns down ends the process.
LEMMA UnacceptableGoes ==
  ASSUME WellFormed, NEW c \in Calls, ReceiveUnacceptable(c)
  PROVE  Goes(c)
<1>1. Moves(c, "terminate")
  BY GotoMoves DEF ReceiveUnacceptable, gateway, client, Points
<1> QED
  BY <1>1 DEF Goes, ReceiveUnacceptable, Pending, Awaiting, Waits, At, ReadsLine,
              ProcSame, ServerSame, gateway, client, history

\* A line that is no object ends the attempt and leaves the process.
LEMMA StrayGivesUp ==
  ASSUME WellFormed, NEW c \in Calls, ReceiveStray(c)
  PROVE  \E a : GivesUp(c, a)
<1>1. Leaves(c, Failed)
  BY RetryLeaves DEF ReceiveStray
<1>2. registered' \in BOOLEAN
  BY DEF ReceiveStray, WellFormed, TypeOK
<1> QED
  BY <1>1, <1>2 DEF GivesUp, ReceiveStray, Pending, ReadsLine, ProcSame, ServerSame, history

\* The answer to the handshake: the notification, or the end of the process.
LEMMA HandshakeForms ==
  ASSUME WellFormed, NEW c \in Calls, ReceiveHandshake(c)
  PROVE  Goes(c) \/ Greets(c)
<1> DEFINE line == Head(outbox[proc])
<1>1. CASE line.how = "result" /\ Running
  <2>1. Moves(c, "request")
    BY <1>1, GotoMoves DEF ReceiveHandshake, gateway, Points
  <2> QED
    BY <1>1, <2>1 DEF Greets, ReceiveHandshake, Acceptable, Pending, ReadsLine, gateway
<1>2. CASE ~(line.how = "result" /\ Running)
  <2>1. Moves(c, "terminate")
    BY <1>2, GotoMoves DEF ReceiveHandshake, gateway, Points
  <2> QED
    BY <1>2, <2>1 DEF Goes, ReceiveHandshake, Pending, Awaiting, Waits, At, ReadsLine,
                      ProcSame, ServerSame, gateway, history
<1> QED
  BY <1>1, <1>2

\* The answer to the request ends the attempt.
LEMMA ResultGivesUp ==
  ASSUME WellFormed, NEW c \in Calls, ReceiveResult(c)
  PROVE  \E a : GivesUp(c, a)
<1> DEFINE line == Head(outbox[proc])
           a == IF line.how = "result" THEN AnsweredBy(line) ELSE Failed
<1>1. Leaves(c, a)
  BY AnswerLeaves, RetryLeaves DEF ReceiveResult
<1>2. registered' \in BOOLEAN
  BY DEF ReceiveResult
<1>3. GivesUp(c, a)
  BY <1>1, <1>2 DEF GivesUp, ReceiveResult, Acceptable, Pending, ReadsLine, ProcSame,
                    ServerSame, history
<1> QED
  BY <1>3

\* The end of the pipe.
LEMMA EndGoes ==
  ASSUME WellFormed, NEW c \in Calls, ReceiveEnd(c)
  PROVE  Goes(c)
<1>1. Moves(c, "terminate")
  BY GotoMoves DEF ReceiveEnd, gateway, client, Points
<1>2. ProcSame /\ ServerSame /\ UNCHANGED <<registered, outbox>>
  BY DEF ReceiveEnd, ProcSame, ServerSame, gateway, client, server, history
<1>3. Waits(c)
  BY DEF ReceiveEnd, Awaiting, Waits, At
<1> QED
  BY <1>1, <1>2, <1>3 DEF Goes

\* The timeout.
LEMMA TimeoutGoes ==
  ASSUME WellFormed, NEW c \in Calls, Timeout(c)
  PROVE  Goes(c)
<1> DEFINE r == [job[c] EXCEPT !.at = "terminate", !.reading = TRUE]
<1>1. job \in [Calls -> Jobs] /\ job[c] \in Jobs
  BY JobsTyped
<1>2. /\ r \in Jobs /\ r.at = "terminate" /\ r.retries = job[c].retries
      /\ r.attempt = job[c].attempt
  BY <1>1 DEF Jobs, Points
<1>3. job' = [job EXCEPT ![c] = r]
  BY <1>1 DEF Timeout, Jobs
<1> HIDE DEF r
<1>4. Moves(c, "terminate")
  BY <1>1, <1>2, <1>3 DEF Moves, OnlyJob, Timeout, gateway, client
<1>5. ProcSame /\ ServerSame /\ UNCHANGED <<registered, outbox>>
  BY DEF Timeout, ProcSame, ServerSame, gateway, client, server, history
<1>6. Waits(c)
  BY DEF Timeout, Awaiting, Waits, At
<1> QED
  BY <1>4, <1>5, <1>6 DEF Goes

\* The end of the process.
LEMMA TerminateKills ==
  ASSUME WellFormed, NEW c \in Calls, Terminate(c)
  PROVE  Kills(c)
<1>1. Moves(c, "close")
  BY GotoMoves DEF Terminate, gateway, client, Points
<1> QED
  BY <1>1 DEF Kills, Terminate, ProcSame, gateway, client

\* The end of its pipes; only a discovery tries again under the same lock.
LEMMA ClosePipesCloses ==
  ASSUME WellFormed, NEW c \in Calls, ClosePipes(c)
  PROVE  Closes(c)
<1>1. CASE job[c].attempt < Attempts(c)
  <2> DEFINE r == [NewJob("start", 0) EXCEPT !.attempt = 2]
  <2>1. c \notin ToolRequests
    <3>1. c \in ToolRequests => job[c].attempt = 1 /\ c \notin Discoveries
      BY ToolCallsAssumption DEF WellFormed, CallOK
    <3> QED
      BY <1>1, <3>1 DEF Attempts
  <2>2. job \in [Calls -> Jobs]
    BY JobsTyped
  <2>3. r \in Jobs /\ r.at = "start"
    <3>1. NewJob("start", 0) \in Jobs /\ NewJob("start", 0).at = "start" /\ 2 \in 1..2
      BY NewJobTyped DEF Points
    <3> QED
      BY <3>1 DEF Jobs
  <2>4. job' = [job EXCEPT ![c] = r] /\ UNCHANGED <<lock, answer>>
    BY <1>1 DEF ClosePipes
  <2> HIDE DEF r
  <2>5. OnlyJob(c) /\ job'[c].at = "start"
    BY <2>2, <2>3, <2>4 DEF OnlyJob
  <2> QED
    BY <2>1, <2>4, <2>5 DEF Closes, ClosePipes, ServerSame, history
<1>2. CASE ~(job[c].attempt < Attempts(c))
  <2>1. Leaves(c, Failed)
    BY <1>2, RetryLeaves DEF ClosePipes
  <2> QED
    BY <2>1 DEF Closes, ClosePipes, ServerSame, history
<1> QED
  BY <1>1, <1>2

\* A step of a call has one of the forms.
LEMMA ClientForms ==
  ASSUME WellFormed, NEW c \in Calls, ClientStep(c)
  PROVE  \/ Passes(c) \/ Goes(c) \/ Sends(c) \/ Greets(c) \/ Kills(c) \/ Closes(c)
         \/ \E p \in Servers : Starts(c, p)
         \/ \E a : GivesUp(c, a)
BY LookupPasses, AcquirePasses, AlreadyStartedGoes, StartProcessStarts,
   StartRaisesGivesUp, SendForms, WrittenGoes, WriteFailsGoes, UnacceptableGoes, StrayGivesUp, HandshakeForms,
   ResultGivesUp, EndGoes, TimeoutGoes, TerminateKills, ClosePipesCloses
DEF ClientStep

-----------------------------------------------------------------------------
(* WellFormed is inductive.                                                *)

\* The state of the gateway and the client's calls, apart from the pipes.
CallsTyped ==
  /\ job \in [Calls -> Jobs] /\ answer \in [Calls -> Answers]
  /\ \A c \in ToolRequests : job[c].retries <= MaxRetries[c]
  /\ lock \in Calls \cup {NoCall}

PipesTyped ==
  /\ alive \subseteq Servers /\ greeted \subseteq Servers /\ strayed \subseteq Servers
  /\ owed \in [Servers -> SUBSET Requests]
  /\ inbox \in [Servers -> Seq(Requests)] /\ outbox \in [Servers -> Seq(Lines)]
  /\ executed \in [Calls -> Nat]

\* The parts of the type invariant.
LEMMA TypeParts ==
  ASSUME CallsTyped', PipesTyped', registered' \in BOOLEAN,
         proc' \in Servers \cup {NoServer}, initialized' \in BOOLEAN,
         request_id' \in Nat
  PROVE  TypeOK'
BY DEF TypeOK, CallsTyped, PipesTyped, Jobs, Answers

\* A call that holds the lock is the only one under way.
LEMMA OneHolds ==
  ASSUME WellFormed, NEW c \in Calls, job[c].at \in Holding
  PROVE  lock = c /\ \A d \in Calls \ {c} : job[d].at \notin Holding /\ lock # d
BY DEF WellFormed, CallOK

\* Calls other than the one that makes a step are as they were.
LEMMA OthersOK ==
  ASSUME WellFormed, NEW c \in Calls, OnlyJob(c), lock' \in {c, lock, NoCall},
         \/ job[c].at \in Holding
         \/ lock' = lock /\ UNCHANGED <<proc, alive, initialized>>
         \/ lock = NoCall /\ UNCHANGED <<proc, alive, initialized>>
  PROVE  \A d \in Calls \ {c} : CallOK(d)'
<1> TAKE d \in Calls \ {c}
<1>1. job'[d] = job[d] /\ CallOK(d) /\ d # c /\ NoCall # d
  BY ToolCallsAssumption DEF OnlyJob, WellFormed
<1>2. CASE job[c].at \in Holding
  <2>1. lock = c /\ job[d].at \notin Holding
    BY <1>2, OneHolds
  <2>2. lock' # d
    BY <1>1, <2>1
  <2> QED
    BY <1>1, <2>1, <2>2 DEF CallOK, At, Bound, Holding
<1>3. CASE lock' = lock /\ UNCHANGED <<proc, alive, initialized>>
  BY <1>1, <1>3 DEF CallOK, At
<1>4. CASE lock = NoCall /\ UNCHANGED <<proc, alive, initialized>>
  <2>1. lock # d /\ lock' # d
    BY <1>1, <1>4
  <2> QED
    BY <1>1, <1>4, <2>1 DEF CallOK, At
<1> QED
  BY <1>2, <1>3, <1>4

\* Lines that a process may have written are lines, and so are those a step of
\* a call has read from.
LEMMA ReadTyped ==
  ASSUME WellFormed, NEW c \in Calls, job[c].at \in Bound, ReadsLine
  PROVE  /\ proc \in Servers /\ Head(outbox[proc]) \in Elems(outbox[proc])
         /\ outbox' \in [Servers -> Seq(Lines)]
         /\ \A p \in Servers : Elems(outbox'[p]) \subseteq Elems(outbox[p])
         /\ \A p \in Servers : p # proc => outbox'[p] = outbox[p]
<1>1. proc \in Servers /\ outbox \in [Servers -> Seq(Lines)]
  BY DEF WellFormed, TypeOK, CallOK
<1>2. /\ Tail(outbox[proc]) \in Seq(Lines)
      /\ Elems(outbox[proc]) = {Head(outbox[proc])} \cup Elems(Tail(outbox[proc]))
  BY <1>1, ElemsOfTail DEF ReadsLine
<1>3. /\ outbox'[proc] = Tail(outbox[proc])
      /\ \A p \in Servers : p # proc => outbox'[p] = outbox[p]
  BY <1>1 DEF ReadsLine, TakeLine
<1>4. outbox' \in [Servers -> Seq(Lines)]
  BY <1>1, <1>2 DEF ReadsLine, TakeLine
<1> QED
  BY <1>1, <1>2, <1>3, <1>4

\* One step of a call keeps the calls typed.
LEMMA JobsKeepType ==
  ASSUME WellFormed, NEW c \in Calls, OnlyJob(c), lock' \in Calls \cup {NoCall},
         answer' \in [Calls -> Answers],
         c \in ToolRequests => \/ job'[c].retries = job[c].retries
                               \/ /\ job[c].retries < MaxRetries[c]
                                  /\ job'[c].retries = job[c].retries + 1
  PROVE  CallsTyped'
<1>1. job' \in [Calls -> Jobs]
  BY DEF OnlyJob
<1>2. ASSUME NEW d \in ToolRequests
      PROVE  job'[d].retries <= MaxRetries[d]
  <2>1. d \in Calls /\ MaxRetries[d] \in Nat /\ job[d].retries <= MaxRetries[d]
        /\ job[d].retries \in Nat
    BY ToolCallsAssumption, JobsTyped DEF Calls, WellFormed, TypeOK
  <2>2. CASE d = c
    BY <2>1, <2>2
  <2>3. CASE d # c
    BY <2>1, <2>3 DEF OnlyJob
  <2> QED
    BY <2>2, <2>3
<1> QED
  BY <1>1, <1>2 DEF CallsTyped

\* Answers are answers.
LEMMA AnswersTyped ==
  ASSUME WellFormed
  PROVE  /\ Failed \in Answers
         /\ \A l \in Lines : AnsweredBy(l) \in Answers
         /\ \A c \in Calls, a \in Answers :
              [answer EXCEPT ![c] = a] \in [Calls -> Answers]
<1>1. Failed \in Answers /\ \A l \in Lines : AnsweredBy(l) \in Answers
  BY DEF Failed, NoAnswer, Answers, AnsweredBy, Lines, What
<1> QED
  BY <1>1, JobsTyped

\* Without the lock, or taking it.
LEMMA PassesWellFormed ==
  ASSUME WellFormed, NEW c \in Calls, Passes(c)
  PROVE  WellFormed'
<1>1. answer' \in [Calls -> Answers] /\ lock' \in Calls \cup {NoCall}
  BY JobsTyped, AnswersTyped DEF Passes, WellFormed, TypeOK
<1>2. CallsTyped'
  BY <1>1, JobsKeepType DEF Passes
<1>3. TypeOK'
  BY <1>2, TypeParts DEF Passes, ProcSame, ServerSame, WellFormed, TypeOK, PipesTyped
<1>4. OnlyProc'
  BY DEF Passes, ProcSame, ServerSame, WellFormed, OnlyProc
<1>5. \A d \in Calls \ {c} : CallOK(d)'
  BY OthersOK DEF Passes, ProcSame, ServerSame
<1>6. CallOK(c)'
  BY ToolCallsAssumption DEF Passes, ProcSame, ServerSame, WellFormed, CallOK, At, Holding, Bound
<1> QED
  BY <1>3, <1>4, <1>5, <1>6 DEF WellFormed

\* With the process there is, or to its end.
LEMMA GoesWellFormed ==
  ASSUME WellFormed, NEW c \in Calls, Goes(c)
  PROVE  WellFormed'
<1>1. /\ OnlyJob(c) /\ UNCHANGED <<answer, lock>>
      /\ job'[c].retries = job[c].retries /\ job'[c].attempt = job[c].attempt
      /\ job[c].at \in Holding
      /\ job'[c].at \in {"request", "initialize", "await_result", "terminate"}
      /\ job'[c].at = "request" => initialized
      /\ proc \in Servers
  BY ToolCallsAssumption DEF Goes, Moves, At, Waits, Holding, Running, WellFormed, TypeOK,
     CallOK, OnlyProc, Bound
<1>2. CallsTyped'
  BY <1>1, JobsKeepType DEF WellFormed, TypeOK, Answers
<1>3. /\ outbox' \in [Servers -> Seq(Lines)]
      /\ \A p \in Servers : p # proc => outbox'[p] = outbox[p]
  <2>1. CASE UNCHANGED outbox
    BY <2>1 DEF WellFormed, TypeOK
  <2>2. CASE Awaiting(c) /\ ReadsLine
    BY <2>2, ReadTyped DEF Awaiting, At, Bound, Holding
  <2> QED
    BY <2>1, <2>2 DEF Goes
<1>4. TypeOK'
  BY <1>2, <1>3, TypeParts DEF Goes, ProcSame, ServerSame, WellFormed, TypeOK, PipesTyped
<1>5. OnlyProc'
  BY <1>3 DEF Goes, ProcSame, ServerSame, WellFormed, OnlyProc
<1>6. \A d \in Calls \ {c} : CallOK(d)'
  BY <1>1, OthersOK
<1>7. CallOK(c)'
  BY <1>1 DEF Goes, ProcSame, WellFormed, CallOK, At, Holding, Bound
<1> QED
  BY <1>4, <1>5, <1>6, <1>7 DEF WellFormed

\* With a new process.
LEMMA StartsWellFormed ==
  ASSUME WellFormed, NEW c \in Calls, NEW p \in Servers, Starts(c, p)
  PROVE  WellFormed'
<1>1. /\ OnlyJob(c) /\ UNCHANGED <<answer, lock>>
      /\ job'[c].retries = job[c].retries /\ job'[c].attempt = job[c].attempt
      /\ job[c].at \in Holding /\ job'[c].at = "initialize"
  BY DEF Starts, Moves, At, Holding
<1>2. CallsTyped'
  BY <1>1, JobsKeepType DEF WellFormed, TypeOK, Answers
<1>3. /\ outbox' \in [Servers -> Seq(Lines)] /\ \A q \in Servers : outbox'[q] = <<>>
      /\ proc' = p /\ p \notin alive
      /\ UNCHANGED <<greeted, owed, inbox, strayed, executed>>
  BY ElemsOfEmpty DEF Starts, NewProcess, history
<1>4. alive = {} /\ alive' = {p}
  BY DEF Starts, NewProcess, Running, WellFormed, OnlyProc
<1>5. TypeOK'
  BY <1>2, <1>3, <1>4, TypeParts DEF Starts, WellFormed, TypeOK, PipesTyped
<1>6. OnlyProc'
  BY <1>3, <1>4 DEF WellFormed, OnlyProc
<1>7. \A d \in Calls \ {c} : CallOK(d)'
  BY <1>1, OthersOK
<1>8. CallOK(c)'
  BY <1>1, <1>3 DEF WellFormed, CallOK, At, Holding, Bound
<1> QED
  BY <1>5, <1>6, <1>7, <1>8 DEF WellFormed

\* A message of a call is a request.
LEMMA MessageTyped ==
  ASSUME NEW n \in Nat, NEW what \in What, NEW c \in Calls
  PROVE  /\ Request(n, what, c) \in Requests
         /\ Request(n, what, c).id = n /\ Request(n, what, c).what = what
         /\ Request(n, what, c).call = c
BY DEF Request, Requests

\* A message written to the process.
LEMMA InboxWritten ==
  ASSUME WellFormed, proc \in Servers, NEW m \in Requests,
         inbox' = [inbox EXCEPT ![proc] = Append(@, m)]
  PROVE  /\ inbox' \in [Servers -> Seq(Requests)]
         /\ inbox'[proc] = Append(inbox[proc], m)
         /\ Elems(inbox'[proc]) = Elems(inbox[proc]) \cup {m}
         /\ \A p \in Servers : p # proc => inbox'[p] = inbox[p]
<1>1. inbox \in [Servers -> Seq(Requests)]
  BY DEF WellFormed, TypeOK
<1>2. /\ Append(inbox[proc], m) \in Seq(Requests)
      /\ Elems(Append(inbox[proc], m)) = Elems(inbox[proc]) \cup {m}
  BY <1>1, ElemsOfAppend
<1> QED
  BY <1>1, <1>2

\* With a request.
LEMMA SendsWellFormed ==
  ASSUME WellFormed, NEW c \in Calls, Sends(c)
  PROVE  WellFormed'
<1>1. /\ OnlyJob(c) /\ UNCHANGED <<answer, lock>>
      /\ job'[c].retries = job[c].retries /\ job'[c].attempt = job[c].attempt
      /\ job[c].at \in {"initialize", "request"}
      /\ job'[c].at \in {"write", "await_handshake", "await_result"}
      /\ proc \in alive /\ proc \in Servers /\ request_id + 1 \in Nat
  BY DEF Sends, At, Running, gateway, WellFormed, TypeOK
<1>2. CallsTyped'
  BY <1>1, JobsKeepType DEF WellFormed, TypeOK, Answers
<1> DEFINE m == Request(request_id + 1, job[c].at, c)
<1>3. m \in Requests
  BY <1>1, MessageTyped DEF What
<1>4. /\ inbox' \in [Servers -> Seq(Requests)]
      /\ \A p \in Servers : p # proc => inbox'[p] = inbox[p]
  BY <1>1, <1>3, InboxWritten DEF Sends
<1>5. TypeOK'
  BY <1>1, <1>2, <1>4, TypeParts DEF Sends, gateway, history, WellFormed, TypeOK, PipesTyped
<1>6. OnlyProc'
  BY <1>1, <1>4 DEF Sends, history, WellFormed, OnlyProc
<1>7. \A d \in Calls \ {c} : CallOK(d)'
  BY <1>1, OthersOK DEF Holding
<1>8. CallOK(c)'
  BY <1>1 DEF Sends, WellFormed, CallOK, At, Holding, Bound
<1> QED
  BY <1>5, <1>6, <1>7, <1>8 DEF WellFormed

\* With the notification.
LEMMA GreetsWellFormed ==
  ASSUME WellFormed, NEW c \in Calls, Greets(c)
  PROVE  WellFormed'
<1>1. /\ OnlyJob(c) /\ UNCHANGED <<answer, lock>>
      /\ job'[c].retries = job[c].retries /\ job'[c].attempt = job[c].attempt
      /\ job[c].at = "await_handshake" /\ job'[c].at = "request" /\ initialized'
      /\ proc \in alive /\ proc \in Servers
  BY DEF Greets, Moves, At, Running, WellFormed, TypeOK
<1>2. CallsTyped'
  BY <1>1, JobsKeepType DEF WellFormed, TypeOK, Answers
<1>3. Request(0, "notice", c) \in Requests
  BY MessageTyped DEF What
<1>4. /\ inbox' \in [Servers -> Seq(Requests)]
      /\ \A p \in Servers : p # proc => inbox'[p] = inbox[p]
  BY <1>1, <1>3, InboxWritten DEF Greets
<1>5. /\ outbox' \in [Servers -> Seq(Lines)]
      /\ \A p \in Servers : p # proc => outbox'[p] = outbox[p]
  BY <1>1, ReadTyped DEF Greets, Bound, Holding
<1>6. TypeOK'
  BY <1>1, <1>2, <1>4, <1>5, TypeParts DEF Greets, history, WellFormed, TypeOK, PipesTyped
<1>7. OnlyProc'
  BY <1>1, <1>4, <1>5 DEF Greets, history, WellFormed, OnlyProc
<1>8. \A d \in Calls \ {c} : CallOK(d)'
  BY <1>1, OthersOK DEF Holding
<1>9. CallOK(c)'
  BY <1>1 DEF Greets, WellFormed, CallOK, At, Holding, Bound
<1> QED
  BY <1>6, <1>7, <1>8, <1>9 DEF WellFormed

\* Letting go of the lock keeps the calls well formed.
LEMMA LeavesTyped ==
  ASSUME WellFormed, NEW c \in Calls, NEW a \in Answers, Leaves(c, a),
         job[c].at \in Holding
  PROVE  /\ CallsTyped' /\ CallOK(c)' /\ \A d \in Calls \ {c} : CallOK(d)'
         /\ answer' \in [Calls -> Answers]
<1>1. answer' \in [Calls -> Answers]
  BY JobsTyped, AnswersTyped DEF Leaves
<1>2. CallsTyped'
  BY <1>1, JobsKeepType DEF Leaves
<1>3. \A d \in Calls \ {c} : CallOK(d)'
  BY OthersOK DEF Leaves
<1>4. CallOK(c)'
  BY ToolCallsAssumption DEF Leaves, CallOK, At, Holding, Bound
<1> QED
  BY <1>1, <1>2, <1>3, <1>4

\* Out of an attempt that leaves the process as it is.
LEMMA GivesUpWellFormed ==
  ASSUME WellFormed, NEW c \in Calls, NEW a, GivesUp(c, a)
  PROVE  WellFormed'
<1>1. job[c].at \in Holding
  BY DEF GivesUp, Awaiting, At, Holding
<1>2. /\ outbox' \in [Servers -> Seq(Lines)] /\ a \in Answers
      /\ \A p \in Servers : p # proc => outbox'[p] = outbox[p]
  <2>1. CASE UNCHANGED outbox /\ a = Failed
    BY <2>1, AnswersTyped DEF WellFormed, TypeOK
  <2>2. CASE Awaiting(c) /\ ReadsLine /\ a = Failed
    BY <2>2, ReadTyped, AnswersTyped DEF Awaiting, At, Bound, Holding
  <2>3. CASE /\ At(c, "await_result") /\ ReadsLine
             /\ a \in {Failed, AnsweredBy(Head(outbox[proc]))}
    <3>1. /\ outbox' \in [Servers -> Seq(Lines)]
          /\ \A p \in Servers : p # proc => outbox'[p] = outbox[p]
          /\ proc \in Servers
      BY <2>3, ReadTyped DEF At, Bound, Holding
    <3>2. Head(outbox[proc]) \in Lines
      BY <2>3, <3>1, ElemsOfTail DEF ReadsLine, WellFormed, TypeOK
    <3> QED
      BY <2>3, <3>1, <3>2, AnswersTyped
  <2> QED
    BY <2>1, <2>2, <2>3 DEF GivesUp
<1>3. CallsTyped' /\ \A d \in Calls : CallOK(d)'
  BY <1>1, <1>2, LeavesTyped DEF GivesUp
<1>4. TypeOK'
  BY <1>2, <1>3, TypeParts DEF GivesUp, ProcSame, ServerSame, WellFormed, TypeOK, PipesTyped
<1>5. OnlyProc'
  BY <1>2 DEF GivesUp, ProcSame, ServerSame, WellFormed, OnlyProc
<1> QED
  BY <1>3, <1>4, <1>5 DEF WellFormed

\* A process that is gone.
LEMMA GoneTyped ==
  ASSUME WellFormed, NEW p \in Servers, Gone(p), UNCHANGED <<proc, outbox, executed>>
  PROVE  /\ PipesTyped' /\ OnlyProc' /\ alive' = alive \ {p}
         /\ owed'[p] = {} /\ inbox'[p] = <<>>
         /\ \A q \in Servers : q # p =>
              /\ owed'[q] = owed[q] /\ inbox'[q] = inbox[q]
              /\ q \in greeted' <=> q \in greeted
              /\ q \in strayed' <=> q \in strayed
<1>1. /\ owed \in [Servers -> SUBSET Requests] /\ inbox \in [Servers -> Seq(Requests)]
      /\ <<>> \in Seq(Requests)
  BY ElemsOfEmpty DEF WellFormed, TypeOK
<1>2. /\ owed' \in [Servers -> SUBSET Requests] /\ inbox' \in [Servers -> Seq(Requests)]
      /\ alive' = alive \ {p} /\ owed'[p] = {} /\ inbox'[p] = <<>>
      /\ p \notin greeted' /\ p \notin strayed'
      /\ \A q \in Servers : q # p =>
              /\ owed'[q] = owed[q] /\ inbox'[q] = inbox[q]
              /\ q \in greeted' <=> q \in greeted
              /\ q \in strayed' <=> q \in strayed
  BY <1>1 DEF Gone
<1>3. PipesTyped'
  BY <1>2 DEF Gone, WellFormed, TypeOK, PipesTyped
<1>4. OnlyProc'
  BY <1>2 DEF WellFormed, OnlyProc
<1> QED
  BY <1>2, <1>3, <1>4

\* To the end of the process.
LEMMA KillsWellFormed ==
  ASSUME WellFormed, NEW c \in Calls, Kills(c)
  PROVE  WellFormed' /\ alive' = {}
<1>1. /\ OnlyJob(c) /\ UNCHANGED <<answer, lock>>
      /\ job'[c].retries = job[c].retries /\ job'[c].attempt = job[c].attempt
      /\ job[c].at = "terminate" /\ job'[c].at = "close" /\ proc \in Servers
  BY DEF Kills, Moves, At, WellFormed, CallOK, Bound, Holding
<1>2. CallsTyped'
  BY <1>1, JobsKeepType DEF WellFormed, TypeOK, Answers
<1>3. PipesTyped' /\ OnlyProc' /\ alive' = {}
  BY <1>1, GoneTyped DEF Kills, ProcSame, WellFormed, OnlyProc
<1>4. TypeOK'
  BY <1>2, <1>3, TypeParts DEF Kills, ProcSame, WellFormed, TypeOK
<1>5. \A d \in Calls \ {c} : CallOK(d)'
  BY <1>1, OthersOK DEF Holding
<1>6. CallOK(c)'
  BY <1>1, <1>3 DEF Kills, ProcSame, WellFormed, CallOK, At, Holding, Bound
<1> QED
  BY <1>3, <1>4, <1>5, <1>6 DEF WellFormed

\* To the end of its pipes.
LEMMA ClosesWellFormed ==
  ASSUME WellFormed, NEW c \in Calls, Closes(c)
  PROVE  WellFormed' /\ alive = {}
<1>1. /\ OnlyJob(c) /\ job[c].at = "close" /\ proc \in Servers /\ alive = {}
      /\ proc' = NoServer /\ initialized' = FALSE
  BY DEF Closes, Leaves, At, WellFormed, CallOK, Bound, Holding
<1>2. CallsTyped' /\ \A d \in Calls : CallOK(d)'
  <2>1. CASE Leaves(c, Failed)
    BY <2>1, <1>1, AnswersTyped, LeavesTyped DEF Holding
  <2>2. CASE /\ c \notin ToolRequests /\ OnlyJob(c) /\ job'[c].at = "start"
             /\ UNCHANGED <<answer, lock>>
    <3>1. CallsTyped'
      BY <2>2, JobsKeepType DEF WellFormed, TypeOK, Answers
    <3>2. \A d \in Calls \ {c} : CallOK(d)'
      BY <1>1, <2>2, OthersOK DEF Holding
    <3>3. CallOK(c)'
      BY <1>1, <2>2 DEF WellFormed, CallOK, At, Holding, Bound
    <3> QED
      BY <3>1, <3>2, <3>3
  <2> QED
    BY <2>1, <2>2 DEF Closes
<1>3. /\ outbox' \in [Servers -> Seq(Lines)] /\ outbox'[proc] = <<>>
      /\ \A p \in Servers : p # proc => outbox'[p] = outbox[p]
  BY <1>1, ElemsOfEmpty DEF Closes, WellFormed, TypeOK
<1>4. TypeOK'
  BY <1>1, <1>2, <1>3, TypeParts DEF Closes, ServerSame, WellFormed, TypeOK, PipesTyped
<1>5. OnlyProc'
  BY <1>1, <1>3 DEF Closes, ServerSame, WellFormed, OnlyProc
<1> QED
  BY <1>1, <1>2, <1>4, <1>5 DEF WellFormed

-----------------------------------------------------------------------------
(* The steps of a server.                                                  *)

\* Nothing of the gateway and the client changes.
ClientSame == UNCHANGED <<registered, job, answer, lock, proc, initialized, request_id>>

\* It takes r, the next request, to work on it.
Takes(p, r) ==
  /\ p \in alive /\ r \in Requests /\ inbox[p] # <<>> /\ r = Head(inbox[p])
  /\ inbox' \in [Servers -> Seq(Requests)] /\ inbox'[p] = Tail(inbox[p])
  /\ \A q \in Servers : q # p => inbox'[q] = inbox[q]
  /\ \/ r.what = "notice" /\ greeted' = greeted \cup {p} /\ UNCHANGED owed
     \/ /\ r.what # "notice" /\ UNCHANGED greeted
        /\ owed' = [owed EXCEPT ![p] = @ \cup {r}]
  /\ executed' \in [Calls -> Nat]
  /\ \A c \in Calls : executed'[c] =
       IF r.what = "request" /\ r.call = c /\ c \in ToolRequests
       THEN executed[c] + 1 ELSE executed[c]
  /\ ClientSame /\ UNCHANGED <<alive, outbox, strayed>>

\* What it may write about r.
Replies(r) == {Line(r, "result"), Line(r, "refused"), Unasked("garbage")}

\* It answers r, or writes lines that no request asked for.
Writes(p, new) ==
  /\ p \in alive
  /\ outbox' \in [Servers -> Seq(Lines)]
  /\ Elems(outbox'[p]) \subseteq Elems(outbox[p]) \cup new
  /\ \A q \in Servers : q # p => outbox'[q] = outbox[q]
  /\ ClientSame /\ UNCHANGED <<alive, greeted, inbox, executed>>

\* Take reads the head of the pipe.
LEMMA TakeTakes ==
  ASSUME WellFormed, NEW p \in Servers, Take(p)
  PROVE  \E r : Takes(p, r)
<1> DEFINE r == Head(inbox[p])
<1>1. /\ inbox \in [Servers -> Seq(Requests)] /\ inbox[p] \in Seq(Requests)
      /\ inbox[p] # <<>> /\ executed \in [Calls -> Nat]
  BY DEF WellFormed, TypeOK, Take
<1>2. Tail(inbox[p]) \in Seq(Requests) /\ r \in Requests
  BY <1>1, ElemsOfTail
<1>3. /\ inbox' \in [Servers -> Seq(Requests)] /\ inbox'[p] = Tail(inbox[p])
      /\ \A q \in Servers : q # p => inbox'[q] = inbox[q]
  BY <1>1, <1>2 DEF Take
<1>4. /\ executed' \in [Calls -> Nat]
      /\ \A c \in Calls : executed'[c] =
           IF r.what = "request" /\ r.call = c /\ c \in ToolRequests
           THEN executed[c] + 1 ELSE executed[c]
  <2>1. r.call \in Calls /\ executed[r.call] + 1 \in Nat
    BY <1>1, <1>2 DEF Requests
  <2>2. executed' = IF r.what = "request" /\ r.call \in ToolRequests
                    THEN [executed EXCEPT ![r.call] = @ + 1] ELSE executed
    BY DEF Take
  <2> HIDE DEF r
  <2> QED
    BY <1>1, <2>1, <2>2
<1>5. \/ r.what = "notice" /\ greeted' = greeted \cup {p} /\ UNCHANGED owed
      \/ /\ r.what # "notice" /\ UNCHANGED greeted
         /\ owed' = [owed EXCEPT ![p] = @ \cup {r}]
  BY DEF Take
<1>6. p \in alive /\ ClientSame /\ UNCHANGED <<alive, outbox, strayed>>
  BY DEF Take, ClientSame, gateway, client
<1>7. Takes(p, r)
  BY <1>1, <1>2, <1>3, <1>4, <1>5, <1>6 DEF Takes
<1> QED
  BY <1>7

\* A line of a server is a line.
LEMMA LinesTyped ==
  /\ \A r \in Requests : Replies(r) \subseteq Lines
  /\ Unasked("garbage") \in Lines /\ Unasked("stray") \in Lines
<1>1. ASSUME NEW r \in Requests, NEW how \in How
      PROVE  Line(r, how) \in Lines
  BY DEF Line, Requests, Lines
<1>2. ASSUME NEW how \in How
      PROVE  Unasked(how) \in Lines
  BY DEF Unasked, Line, Request, Lines, What
<1> QED
  BY <1>1, <1>2 DEF Replies, How

\* Reply writes only about the request it answers.
LEMMA ReplyWrites ==
  ASSUME WellFormed, NEW p \in Servers, Reply(p)
  PROVE  \E r \in owed[p] :
           /\ r \in Requests /\ Writes(p, Replies(r))
           /\ owed' = [owed EXCEPT ![p] = @ \ {r}] /\ UNCHANGED strayed
<1> PICK r \in owed[p] :
      /\ owed' = [owed EXCEPT ![p] = @ \ {r}]
      /\ \E lines \in {<<Line(r, "result")>>, <<Line(r, "refused")>>,
                       <<Line(r, "result"), Line(r, "result")>>,
                       <<Unasked("garbage")>>} :
           outbox' = [outbox EXCEPT ![p] = @ \o lines]
  BY DEF Reply
<1> PICK lines \in {<<Line(r, "result")>>, <<Line(r, "refused")>>,
                    <<Line(r, "result"), Line(r, "result")>>,
                    <<Unasked("garbage")>>} :
           outbox' = [outbox EXCEPT ![p] = @ \o lines]
  OBVIOUS
<1>1. r \in Requests /\ outbox \in [Servers -> Seq(Lines)]
  BY DEF WellFormed, TypeOK
<1>2. /\ Line(r, "result") \in Lines /\ Line(r, "refused") \in Lines
      /\ Unasked("garbage") \in Lines
  BY <1>1, LinesTyped DEF Replies
<1>3. lines \in Seq(Lines) /\ Elems(lines) \subseteq Replies(r)
  <2>1. ASSUME NEW l \in Lines, l \in Replies(r)
        PROVE  /\ <<l>> \in Seq(Lines) /\ Elems(<<l>>) \subseteq Replies(r)
               /\ <<l, l>> \in Seq(Lines) /\ Elems(<<l, l>>) \subseteq Replies(r)
    BY <2>1 DEF Elems
  <2> QED
    BY <1>2, <2>1 DEF Replies
<1>4. /\ outbox[p] \o lines \in Seq(Lines)
      /\ Elems(outbox[p] \o lines) = Elems(outbox[p]) \cup Elems(lines)
  BY <1>1, <1>3, ElemsOfConcat
<1>5. /\ outbox' \in [Servers -> Seq(Lines)] /\ outbox'[p] = outbox[p] \o lines
      /\ \A q \in Servers : q # p => outbox'[q] = outbox[q]
  BY <1>1, <1>4
<1>6. Elems(outbox'[p]) \subseteq Elems(outbox[p]) \cup Replies(r)
  BY <1>3, <1>4, <1>5
<1> QED
  BY <1>1, <1>5, <1>6 DEF Reply, Writes, ClientSame, gateway, client, history

\* Chatter writes a stray line.
LEMMA ChatterWrites ==
  ASSUME WellFormed, NEW p \in Servers, Chatter(p)
  PROVE  /\ Writes(p, {Unasked("stray")})
         /\ strayed' = strayed \cup {p} /\ UNCHANGED owed
<1>1. outbox \in [Servers -> Seq(Lines)] /\ Unasked("stray") \in Lines
  BY LinesTyped DEF WellFormed, TypeOK
<1>2. /\ Append(outbox[p], Unasked("stray")) \in Seq(Lines)
      /\ Elems(Append(outbox[p], Unasked("stray"))) = Elems(outbox[p]) \cup {Unasked("stray")}
  BY <1>1, ElemsOfAppend
<1>3. /\ outbox' \in [Servers -> Seq(Lines)]
      /\ outbox'[p] = Append(outbox[p], Unasked("stray"))
      /\ \A q \in Servers : q # p => outbox'[q] = outbox[q]
  BY <1>1, <1>2 DEF Chatter
<1> QED
  BY <1>2, <1>3 DEF Chatter, Writes, ClientSame, gateway, client

\* The calls do not see a step of a server, but for a process that ends.
LEMMA ServersLeaveCalls ==
  ASSUME WellFormed, ClientSame, alive' \subseteq alive
  PROVE  /\ \A c \in Calls : CallOK(c)'
         /\ CallsTyped'
BY DEF ClientSame, WellFormed, CallOK, At, CallsTyped, TypeOK, Jobs, Answers

\* A server that takes its next request.
LEMMA TakesWellFormed ==
  ASSUME WellFormed, NEW p \in Servers, NEW r, Takes(p, r)
  PROVE  WellFormed'
<1>1. \A c \in Calls : CallOK(c)'
  BY ServersLeaveCalls DEF Takes
<1>2. CallsTyped'
  BY ServersLeaveCalls DEF Takes
<1>3. owed' \in [Servers -> SUBSET Requests] /\ greeted' \subseteq Servers
      /\ \A q \in Servers : q \notin alive =>
           owed'[q] = owed[q] /\ inbox'[q] = inbox[q] /\ (q \in greeted' <=> q \in greeted)
  <2>1. /\ owed \in [Servers -> SUBSET Requests] /\ greeted \subseteq Servers
        /\ p \in alive /\ r \in Requests
        /\ \A q \in Servers : q # p => inbox'[q] = inbox[q]
    BY DEF Takes, WellFormed, TypeOK
  <2>2. CASE greeted' = greeted \cup {p} /\ UNCHANGED owed
    BY <2>1, <2>2
  <2>3. CASE UNCHANGED greeted /\ owed' = [owed EXCEPT ![p] = @ \cup {r}]
    BY <2>1, <2>3
  <2> QED
    BY <2>2, <2>3 DEF Takes
<1>4. TypeOK'
  BY <1>2, <1>3, TypeParts DEF Takes, ClientSame, WellFormed, TypeOK, PipesTyped
<1>5. OnlyProc'
  BY <1>3 DEF Takes, ClientSame, WellFormed, OnlyProc
<1> QED
  BY <1>1, <1>4, <1>5 DEF WellFormed

\* A server that writes.
LEMMA WritesWellFormed ==
  ASSUME WellFormed, NEW p \in Servers, NEW new, Writes(p, new),
         owed' \in [Servers -> SUBSET Requests],
         \A q \in Servers : q # p => owed'[q] = owed[q],
         strayed' \subseteq strayed \cup {p}
  PROVE  WellFormed'
<1>1. CallsTyped' /\ \A c \in Calls : CallOK(c)'
  BY ServersLeaveCalls DEF Writes
<1>2. TypeOK'
  BY <1>1, TypeParts DEF Writes, ClientSame, WellFormed, TypeOK, PipesTyped
<1>3. p = proc
  BY DEF Writes, WellFormed, OnlyProc
<1>4. OnlyProc'
  BY <1>3 DEF Writes, ClientSame, WellFormed, OnlyProc
<1> QED
  BY <1>1, <1>2, <1>4 DEF WellFormed

\* A server that exits.
LEMMA ExitsWellFormed ==
  ASSUME WellFormed, NEW p \in Servers, Exit(p)
  PROVE  WellFormed'
<1>1. ClientSame /\ UNCHANGED <<proc, outbox, executed>> /\ Gone(p)
  BY DEF Exit, ClientSame, gateway, client
<1>2. PipesTyped' /\ OnlyProc' /\ alive' = alive \ {p}
  BY <1>1, GoneTyped
<1>3. CallsTyped' /\ \A c \in Calls : CallOK(c)'
  BY <1>1, <1>2, ServersLeaveCalls
<1>4. TypeOK'
  BY <1>1, <1>2, <1>3, TypeParts DEF ClientSame, WellFormed, TypeOK
<1> QED
  BY <1>2, <1>3, <1>4 DEF WellFormed

\* The forms of a step of a server.
LEMMA ServerForms ==
  ASSUME WellFormed, NEW p \in Servers, ServerStep(p)
  PROVE  \/ \E r : Takes(p, r)
         \/ Reply(p) \/ Chatter(p) \/ Exit(p)
BY TakeTakes DEF ServerStep

\* Every step keeps the states well formed.
LEMMA WellFormedStep == WellFormed /\ [Next]_vars => WellFormed'
<1> SUFFICES ASSUME WellFormed, [Next]_vars PROVE WellFormed'
  OBVIOUS
<1>1. ASSUME NEW c \in Calls, ClientStep(c) PROVE WellFormed'
  BY <1>1, ClientForms, PassesWellFormed, GoesWellFormed, StartsWellFormed,
     SendsWellFormed, GreetsWellFormed, GivesUpWellFormed, KillsWellFormed,
     ClosesWellFormed
<1>2. ASSUME NEW p \in Servers, ServerStep(p) PROVE WellFormed'
  <2>1. CASE Reply(p)
    <3> PICK r \in owed[p] : /\ Writes(p, Replies(r))
                             /\ owed' = [owed EXCEPT ![p] = @ \ {r}]
                             /\ UNCHANGED strayed
      BY <2>1, ReplyWrites
    <3>1. owed' \in [Servers -> SUBSET Requests]
          /\ \A q \in Servers : q # p => owed'[q] = owed[q]
      BY DEF WellFormed, TypeOK
    <3> QED
      BY <3>1, WritesWellFormed
  <2>2. CASE Chatter(p)
    <3>1. owed' \in [Servers -> SUBSET Requests]
      BY <2>2, ChatterWrites DEF WellFormed, TypeOK
    <3> QED
      BY <2>2, <3>1, ChatterWrites, WritesWellFormed
  <2> QED
    BY <1>2, <2>1, <2>2, ServerForms, TakesWellFormed, ExitsWellFormed
<1>3. CASE UNCHANGED vars
  BY <1>3 DEF vars, gateway, client, server, history, WellFormed, TypeOK, CallOK, OnlyProc, At
<1> QED
  BY <1>1, <1>2, <1>3 DEF Next

\* Every reachable state is well formed.
LEMMA WellFormedAlways == Spec => []WellFormed
BY WellFormedInit, WellFormedStep, PTL DEF Spec

\* Calls, pipes and processes stay well formed, and the retries of the gateway
\* within their policy, whatever the server writes and whenever it exits.
THEOREM Typing == Spec => []TypeOK
<1>1. WellFormed => TypeOK
  BY DEF WellFormed
<1> QED
  BY <1>1, WellFormedAlways, PTL

-----------------------------------------------------------------------------
(* The handshake: no tool request reaches a process before it is greeted.  *)

\* The process has seen the notification, or will before what is written now.
Greeted(p) == p \in greeted \/ \E m \in Elems(inbox[p]) : m.what = "notice"

\* In the pipe of p a tool request has a notification before it.
GreetedFirst(p) ==
  p \notin greeted =>
    \A i \in DOMAIN inbox[p] : inbox[p][i].what = "request" =>
      \E j \in 1..(i - 1) : inbox[p][j].what = "notice"

Handshake ==
  /\ initialized /\ proc \in alive => Greeted(proc)
  /\ \A p \in Servers : GreetedFirst(p)

\* The pipes are empty to begin with.
LEMMA HandshakeInit == Init => Handshake
BY DEF Init, Handshake, GreetedFirst

\* A step that writes nothing to a process and starts afresh or keeps it.
LEMMA HandshakeSame ==
  ASSUME WellFormed, Handshake, UNCHANGED <<greeted, inbox>>,
         initialized' = FALSE \/ UNCHANGED <<proc, alive, initialized>>
  PROVE  Handshake'
BY DEF Handshake, Greeted, GreetedFirst

\* A message appended behind what is in the pipe of the process.
LEMMA HandshakeWrite ==
  ASSUME WellFormed, Handshake, proc \in Servers, NEW m \in Requests,
         inbox' = [inbox EXCEPT ![proc] = Append(@, m)],
         m.what = "request" => Greeted(proc),
         UNCHANGED <<greeted, proc, alive>>,
         initialized' = initialized \/ m.what = "notice"
  PROVE  Handshake'
<1> DEFINE s == inbox[proc]
<1>1. s \in Seq(Requests) /\ inbox'[proc] = Append(s, m)
      /\ Elems(inbox'[proc]) = Elems(s) \cup {m}
      /\ \A p \in Servers : p # proc => inbox'[p] = inbox[p]
  BY InboxWritten DEF WellFormed, TypeOK
<1>2. (initialized /\ proc \in alive => Greeted(proc))'
  BY <1>1 DEF Handshake, Greeted
<1>3. ASSUME NEW p \in Servers, p # proc
      PROVE  GreetedFirst(p)'
  BY <1>1, <1>3 DEF Handshake, GreetedFirst
<1>4. GreetedFirst(proc)'
  <2> SUFFICES ASSUME proc \notin greeted, NEW i \in DOMAIN Append(s, m),
                      Append(s, m)[i].what = "request"
               PROVE  \E j \in 1..(i - 1) : Append(s, m)[j].what = "notice"
    BY <1>1 DEF GreetedFirst
  <2>1. /\ Len(s) \in Nat /\ DOMAIN s = 1..Len(s) /\ i \in 1..(Len(s) + 1)
        /\ Append(s, m)[Len(s) + 1] = m
        /\ \A k \in 1..Len(s) : Append(s, m)[k] = s[k]
    BY <1>1
  <2>2. CASE i \in 1..Len(s)
    <3>1. PICK j \in 1..(i - 1) : s[j].what = "notice"
      BY <2>1, <2>2 DEF Handshake, GreetedFirst
    <3>2. j \in 1..Len(s)
      BY <2>1, <2>2
    <3> QED
      BY <2>1, <3>1, <3>2
  <2>3. CASE i = Len(s) + 1
    <3>1. PICK j \in DOMAIN s : s[j].what = "notice"
      BY <2>1, <2>3 DEF Greeted, Elems
    <3>2. j \in 1..(i - 1)
      BY <2>1, <2>3, <3>1
    <3> QED
      BY <2>1, <3>1, <3>2
  <2> QED
    BY <2>1, <2>2, <2>3
<1> QED
  BY <1>2, <1>3, <1>4 DEF Handshake

\* A process that ends.
LEMMA HandshakeGone ==
  ASSUME WellFormed, Handshake, NEW p \in Servers, Gone(p),
         UNCHANGED <<proc, initialized, outbox, executed>>
  PROVE  Handshake'
<1>1. /\ alive' = alive \ {p} /\ inbox'[p] = <<>>
      /\ \A q \in Servers : q # p =>
           inbox'[q] = inbox[q] /\ (q \in greeted' <=> q \in greeted)
  BY GoneTyped
<1>2. (initialized /\ proc \in alive => Greeted(proc))'
  <2> SUFFICES ASSUME initialized, proc \in alive' PROVE Greeted(proc)'
    BY DEF Greeted
  <2>1. proc \in alive /\ proc # p /\ proc \in Servers
    BY <1>1 DEF WellFormed, TypeOK
  <2> QED
    BY <1>1, <2>1 DEF Handshake, Greeted
<1>3. \A q \in Servers : GreetedFirst(q)'
  <2>1. GreetedFirst(p)'
    BY <1>1 DEF GreetedFirst
  <2>2. ASSUME NEW q \in Servers, q # p PROVE GreetedFirst(q)'
    BY <1>1, <2>2 DEF Handshake, GreetedFirst
  <2> QED
    BY <2>1, <2>2
<1> QED
  BY <1>2, <1>3 DEF Handshake

\* A process that reads its next message.
LEMMA HandshakeTake ==
  ASSUME WellFormed, Handshake, NEW p \in Servers, NEW r, Takes(p, r)
  PROVE  Handshake'
<1> DEFINE s == inbox[p]
<1>1. /\ s \in Seq(Requests) /\ s # <<>> /\ r = Head(s)
      /\ inbox'[p] = Tail(s)
      /\ \A q \in Servers : q # p => inbox'[q] = inbox[q]
      /\ UNCHANGED <<proc, alive, initialized>>
  BY DEF Takes, ClientSame, WellFormed, TypeOK
<1>2. /\ Elems(s) = {r} \cup Elems(Tail(s)) /\ Len(s) \in Nat
      /\ r = s[1] /\ DOMAIN s = 1..Len(s) /\ DOMAIN Tail(s) = 1..(Len(s) - 1)
      /\ \A i \in 1..(Len(s) - 1) : Tail(s)[i] = s[i + 1]
  BY <1>1, ElemsOfTail
<1>3. \/ r.what = "notice" /\ greeted' = greeted \cup {p}
      \/ r.what # "notice" /\ greeted' = greeted
  BY DEF Takes
<1>4. ASSUME NEW q \in Servers, q # p
      PROVE  GreetedFirst(q)' /\ (Greeted(q) => Greeted(q)')
  BY <1>1, <1>3, <1>4 DEF Handshake, GreetedFirst, Greeted
<1>5. GreetedFirst(p)' /\ (Greeted(p) => Greeted(p)')
  <2>1. CASE r.what = "notice"
    BY <1>3, <2>1 DEF GreetedFirst, Greeted
  <2>2. CASE r.what # "notice"
    <3>1. Greeted(p) => Greeted(p)'
      BY <1>1, <1>2, <1>3, <2>2 DEF Greeted
    <3>2. GreetedFirst(p)'
      <4> SUFFICES ASSUME p \notin greeted, NEW i \in DOMAIN Tail(s),
                          Tail(s)[i].what = "request"
                   PROVE  \E j \in 1..(i - 1) : Tail(s)[j].what = "notice"
        BY <1>1, <1>3, <2>2 DEF GreetedFirst
      <4>1. i \in 1..(Len(s) - 1) /\ i + 1 \in 1..Len(s) /\ s[i + 1].what = "request"
        BY <1>2
      <4>2. PICK k \in 1..((i + 1) - 1) : s[k].what = "notice"
        BY <1>2, <4>1 DEF Handshake, GreetedFirst
      <4>3. k # 1
        BY <1>2, <2>2, <4>2
      <4>4. /\ k - 1 \in 1..(i - 1) /\ k - 1 \in 1..(Len(s) - 1)
            /\ (k - 1) + 1 = k
        BY <1>2, <4>1, <4>2, <4>3
      <4>5. Tail(s)[k - 1] = s[k]
        BY <1>2, <4>4
      <4> QED
        BY <4>2, <4>4, <4>5
    <3> QED
      BY <3>1, <3>2
  <2> QED
    BY <2>1, <2>2
<1>6. (initialized /\ proc \in alive => Greeted(proc))'
  <2> SUFFICES ASSUME initialized, proc \in alive PROVE Greeted(proc)'
    BY <1>1
  <2>1. PICK q \in Servers : q = proc
    BY DEF WellFormed, TypeOK
  <2>2. Greeted(q)
    BY <2>1 DEF Handshake
  <2>3. Greeted(q)'
    BY <1>4, <1>5, <2>2
  <2> QED
    BY <1>1, <2>1, <2>3 DEF Greeted
<1> QED
  BY <1>4, <1>5, <1>6 DEF Handshake

\* Every step keeps the handshake.
LEMMA HandshakeStep == WellFormed /\ Handshake /\ [Next]_vars => Handshake'
<1> SUFFICES ASSUME WellFormed, Handshake, [Next]_vars PROVE Handshake'
  OBVIOUS
<1>1. ASSUME NEW c \in Calls, ClientStep(c) PROVE Handshake'
  <2>1. CASE Passes(c) \/ Goes(c) \/ Closes(c)
             \/ (\E p \in Servers : Starts(c, p)) \/ (\E a : GivesUp(c, a))
    BY <2>1, HandshakeSame DEF Passes, Goes, Closes, Starts, NewProcess, GivesUp,
       ProcSame, ServerSame
  <2>2. CASE Sends(c)
    <3> DEFINE m == Request(request_id + 1, job[c].at, c)
    <3>1. /\ proc \in Servers /\ proc \in alive /\ request_id + 1 \in Nat
          /\ job[c].at \in {"initialize", "request"}
          /\ job[c].at = "request" => initialized
      BY <2>2 DEF Sends, Running, At, WellFormed, TypeOK, CallOK
    <3>2. m \in Requests /\ m.what = job[c].at
      BY <3>1, MessageTyped DEF What
    <3>3. m.what = "request" => Greeted(proc)
      BY <3>1, <3>2 DEF Handshake
    <3>4. /\ inbox' = [inbox EXCEPT ![proc] = Append(@, m)]
          /\ UNCHANGED <<greeted, proc, alive, initialized>>
      BY <2>2 DEF Sends
    <3> HIDE DEF m
    <3> QED
      BY <3>1, <3>2, <3>3, <3>4, HandshakeWrite
  <2>3. CASE Greets(c)
    <3> DEFINE m == Request(0, "notice", c)
    <3>1. proc \in Servers /\ m \in Requests /\ m.what = "notice"
      BY <2>3, MessageTyped DEF Greets, Running, WellFormed, TypeOK, What
    <3>2. /\ inbox' = [inbox EXCEPT ![proc] = Append(@, m)]
          /\ UNCHANGED <<greeted, proc, alive>>
      BY <2>3 DEF Greets
    <3> HIDE DEF m
    <3> QED
      BY <3>1, <3>2, HandshakeWrite
  <2>4. CASE Kills(c)
    <3>1. proc \in Servers
      BY <2>4 DEF Kills, At, WellFormed, CallOK, Bound, Holding
    <3> QED
      BY <2>4, <3>1, HandshakeGone DEF Kills, ProcSame
  <2> QED
    BY <1>1, <2>1, <2>2, <2>3, <2>4, ClientForms
<1>2. ASSUME NEW p \in Servers, ServerStep(p) PROVE Handshake'
  <2>1. CASE Reply(p) \/ Chatter(p)
    BY <2>1, HandshakeSame DEF Reply, Chatter, client
  <2>2. CASE Exit(p)
    BY <2>2, HandshakeGone DEF Exit, client
  <2> QED
    BY <1>2, <2>1, <2>2, ServerForms, HandshakeTake
<1>3. CASE UNCHANGED vars
  BY <1>3, HandshakeSame DEF vars, client, server
<1> QED
  BY <1>1, <1>2, <1>3 DEF Next

\* After a restart only the client's process runs, and it gets no tool request
\* before the notification that ends its handshake, whatever has become of the
\* process before, the handshake with it and the requests it was sent.
THEOREM CleanRestarts == Spec => []RestartsClean
<1>1. WellFormed /\ Handshake => RestartsClean
  BY DEF WellFormed, OnlyProc, Handshake, GreetedFirst, RestartsClean
<1>2. Spec => [](WellFormed /\ Handshake)
  <2>1. Init => WellFormed /\ Handshake
    BY WellFormedInit, HandshakeInit
  <2>2. WellFormed /\ Handshake /\ [Next]_vars => (WellFormed /\ Handshake)'
    BY WellFormedStep, HandshakeStep
  <2> QED
    BY <2>1, <2>2, PTL DEF Spec
<1> QED
  BY <1>1, <1>2, PTL

-----------------------------------------------------------------------------
(* Steps by what they do to what the servers are asked and have written.   *)

\* What a call that waits has asked, and that it still waits for that.
Purpose(c) == IF At(c, "await_handshake") THEN "initialize" ELSE "request"
SameRequest(c) == job'[c].id = job[c].id /\ Purpose(c)' = Purpose(c)

\* A step that asks nothing, runs nothing and writes nothing.
Quieter ==
  /\ \A p \in Servers :
       /\ inbox'[p] \in {inbox[p], <<>>} /\ owed'[p] \in {owed[p], {}}
       /\ Elems(outbox'[p]) \subseteq Elems(outbox[p])
  /\ \A c \in Calls : Waits(c)' => Waits(c) /\ SameRequest(c)
  /\ UNCHANGED <<request_id, executed>>

\* A step of c that reads a line or none.
LEMMA ReadsLess ==
  ASSUME WellFormed, NEW c \in Calls, UNCHANGED outbox \/ (Awaiting(c) /\ ReadsLine)
  PROVE  \A p \in Servers : Elems(outbox'[p]) \subseteq Elems(outbox[p])
BY ReadTyped DEF Awaiting, At, Bound, Holding

\* A step of c that does not end in waiting makes nobody else wait.
LEMMA NobodyWaits ==
  ASSUME NEW c \in Calls, OnlyJob(c), ~Waits(c)'
  PROVE  \A d \in Calls : Waits(d)' => Waits(d) /\ SameRequest(d)
BY DEF OnlyJob, Waits, SameRequest, Purpose, At

\* All but four forms of a step are quiet.
LEMMA ClientQuieter ==
  ASSUME WellFormed, NEW c \in Calls,
         \/ Passes(c) \/ Goes(c) \/ Kills(c) \/ Closes(c)
         \/ \E p \in Servers : Starts(c, p)
         \/ \E a : GivesUp(c, a)
  PROVE  Quieter
<1>1. CASE Passes(c)
  <2>1. \A d \in Calls : Waits(d)' => Waits(d) /\ SameRequest(d)
    BY <1>1, NobodyWaits DEF Passes, Waits
  <2> QED
    BY <1>1, <2>1 DEF Passes, ProcSame, ServerSame, Quieter
<1>2. CASE Goes(c)
  <2>1. \A p \in Servers : Elems(outbox'[p]) \subseteq Elems(outbox[p])
    BY <1>2, ReadsLess DEF Goes
  <2>2. \A d \in Calls : Waits(d)' => Waits(d) /\ SameRequest(d)
    <3>1. CASE OnlyJob(c) /\ job'[c].at \in {"request", "initialize", "terminate"}
      BY <3>1, NobodyWaits DEF Waits
    <3>2. CASE /\ OnlyJob(c) /\ At(c, "write") /\ job'[c].at = "await_result"
               /\ job'[c].id = job[c].id
      BY <3>2 DEF OnlyJob, Waits, SameRequest, Purpose, At
    <3> QED
      BY <1>2, <3>1, <3>2 DEF Goes, Moves
  <2> QED
    BY <1>2, <2>1, <2>2 DEF Goes, ProcSame, ServerSame, Quieter
<1>3. CASE Kills(c)
  <2>1. proc \in Servers
    BY <1>3 DEF Kills, At, WellFormed, CallOK, Bound, Holding
  <2>2. \A p \in Servers : /\ inbox'[p] \in {inbox[p], <<>>} /\ owed'[p] \in {owed[p], {}}
                           /\ outbox'[p] = outbox[p]
    BY <1>3, <2>1, GoneTyped DEF Kills, ProcSame
  <2>3. \A d \in Calls : Waits(d)' => Waits(d) /\ SameRequest(d)
    BY <1>3, NobodyWaits DEF Kills, Moves, Waits
  <2> QED
    BY <1>3, <2>2, <2>3 DEF Kills, ProcSame, Quieter
<1>4. CASE Closes(c)
  <2>1. outbox \in [Servers -> Seq(Lines)]
    BY DEF WellFormed, TypeOK
  <2>2. \A p \in Servers : Elems(outbox'[p]) \subseteq Elems(outbox[p])
    BY <1>4, <2>1, ElemsOfEmpty DEF Closes
  <2>3. \A d \in Calls : Waits(d)' => Waits(d) /\ SameRequest(d)
    BY <1>4, NobodyWaits DEF Closes, Leaves, Waits
  <2> QED
    BY <1>4, <2>2, <2>3 DEF Closes, ServerSame, Quieter
<1>5. ASSUME NEW p \in Servers, Starts(c, p) PROVE Quieter
  <2>1. \A q \in Servers : Elems(outbox'[q]) \subseteq Elems(outbox[q])
    BY <1>5, ElemsOfEmpty DEF Starts, NewProcess
  <2>2. \A d \in Calls : Waits(d)' => Waits(d) /\ SameRequest(d)
    BY <1>5, NobodyWaits DEF Starts, Moves, Waits
  <2> QED
    BY <1>5, <2>1, <2>2 DEF Starts, NewProcess, history, Quieter
<1>6. ASSUME NEW a, GivesUp(c, a) PROVE Quieter
  <2>1. UNCHANGED outbox \/ (Awaiting(c) /\ ReadsLine)
    BY <1>6 DEF GivesUp, Awaiting
  <2>2. \A d \in Calls : Waits(d)' => Waits(d) /\ SameRequest(d)
    BY <1>6, NobodyWaits DEF GivesUp, Leaves, Waits
  <2> QED
    BY <1>6, <2>1, <2>2, ReadsLess DEF GivesUp, ProcSame, ServerSame, Quieter
<1> QED
  BY <1>1, <1>2, <1>3, <1>4, <1>5, <1>6

\* So is the exit of a server.
LEMMA ExitQuieter ==
  ASSUME WellFormed, NEW p \in Servers, Exit(p)
  PROVE  Quieter
<1>1. Gone(p) /\ UNCHANGED <<proc, outbox, executed, job, request_id>>
  BY DEF Exit, client
<1>2. \A q \in Servers : inbox'[q] \in {inbox[q], <<>>} /\ owed'[q] \in {owed[q], {}}
  BY <1>1, GoneTyped
<1> QED
  BY <1>1, <1>2 DEF Quieter, Waits, SameRequest, Purpose, At

\* A step that changes nothing is quiet.
LEMMA StutterQuieter == UNCHANGED vars => Quieter
BY DEF vars, client, server, history, Quieter, Waits, SameRequest, Purpose, At

\* A server answers r, or writes a line that nobody asked for.
Speaks(p) ==
  \/ \E r \in owed[p] : /\ r \in Requests /\ Writes(p, Replies(r))
                        /\ owed' = [owed EXCEPT ![p] = @ \ {r}]
                        /\ UNCHANGED strayed
  \/ /\ Writes(p, {Unasked("stray")})
     /\ strayed' = strayed \cup {p} /\ UNCHANGED owed

\* The steps, by what they do to the traffic.
LEMMA TrafficForms ==
  ASSUME WellFormed, [Next]_vars
  PROVE  \/ Quieter
         \/ \E c \in Calls : Sends(c) \/ Greets(c)
         \/ \E p \in Servers : Speaks(p) \/ \E r : Takes(p, r)
<1>1. ASSUME NEW c \in Calls, ClientStep(c) PROVE Quieter \/ Sends(c) \/ Greets(c)
  BY <1>1, ClientForms, ClientQuieter
<1>2. ASSUME NEW p \in Servers, ServerStep(p)
      PROVE  Quieter \/ Speaks(p) \/ \E r : Takes(p, r)
  BY <1>2, ServerForms, ReplyWrites, ChatterWrites, ExitQuieter DEF Speaks
<1> QED
  BY <1>1, <1>2, StutterQuieter DEF Next

-----------------------------------------------------------------------------
(* Whose requests and answers there are.                                   *)

\* The requests that p has still to answer.
Asked(p) == {m \in Elems(inbox[p]) : m.what # "notice"} \cup owed[p]

\* What there is has been numbered in the order in which it was sent.
Numbered(p) ==
  /\ \A m \in Asked(p) \cup Elems(inbox[p]) \cup Elems(outbox[p]) : m.id <= request_id
  /\ \A i, j \in DOMAIN inbox[p] :
       i < j /\ inbox[p][j].what # "notice" => inbox[p][i].id < inbox[p][j].id

\* The last request is that of the call that waits, and so is every answer to it.
OwnRequest(c) ==
  Waits(c) =>
    /\ job[c].id = request_id /\ request_id > 0
    /\ \A p \in Servers : \A m \in Asked(p) \cup Elems(outbox[p]) :
         m.id = request_id => m.call = c /\ m.what = Purpose(c)

\* A tool call that is worked on, or about which there is a line, has been run.
HasRun(m) == m.what = "request" /\ m.call \in ToolRequests => executed[m.call] > 0
WorkedOn(p) == \A m \in owed[p] \cup Elems(outbox[p]) : HasRun(m)

Traffic ==
  /\ \A p \in Servers : Numbered(p) /\ WorkedOn(p)
  /\ \A c \in Calls : OwnRequest(c)

\* There is nothing to begin with.
LEMMA TrafficInit == Init => Traffic
BY ElemsOfEmpty DEF Init, Traffic, Numbered, WorkedOn, OwnRequest, Waits, Asked, NewJob

\* The types of what there is.
LEMMA TrafficTyped ==
  ASSUME WellFormed, NEW p \in Servers
  PROVE  /\ inbox[p] \in Seq(Requests) /\ outbox[p] \in Seq(Lines)
         /\ \A m \in Elems(inbox[p]) : m \in Requests
         /\ \A m \in owed[p] : m \in Requests
         /\ \A m \in Asked(p) : m \in Requests
         /\ \A m \in Elems(outbox[p]) : m \in Lines
         /\ request_id \in Nat
<1>1. /\ inbox[p] \in Seq(Requests) /\ outbox[p] \in Seq(Lines)
      /\ owed[p] \subseteq Requests /\ request_id \in Nat
  BY DEF WellFormed, TypeOK
<1>2. \A S, s : s \in Seq(S) => Elems(s) \subseteq S
  BY DEF Elems
<1> QED
  BY <1>1, <1>2 DEF Asked

\* A quiet step asks nothing new.
LEMMA QuieterAsks ==
  ASSUME Quieter, NEW p \in Servers
  PROVE  /\ Asked(p)' \subseteq Asked(p) /\ Elems(inbox'[p]) \subseteq Elems(inbox[p])
         /\ owed'[p] \subseteq owed[p] /\ Elems(outbox'[p]) \subseteq Elems(outbox[p])
BY ElemsOfEmpty DEF Quieter, Asked

\* A quiet step.
LEMMA TrafficQuieter ==
  ASSUME WellFormed, Traffic, Quieter
  PROVE  Traffic'
<1>1. ASSUME NEW p \in Servers PROVE Numbered(p)'
  <2>1. \A m \in Asked(p)' \cup Elems(inbox'[p]) \cup Elems(outbox'[p]) : m.id <= request_id
    BY QuieterAsks DEF Traffic, Numbered
  <2>2. \A i, j \in DOMAIN inbox'[p] :
          i < j /\ inbox'[p][j].what # "notice" => inbox'[p][i].id < inbox'[p][j].id
    <3>1. CASE inbox'[p] = inbox[p]
      BY <3>1 DEF Traffic, Numbered
    <3>2. CASE inbox'[p] = <<>>
      BY <3>2
    <3> QED
      BY <3>1, <3>2 DEF Quieter
  <2> QED
    BY <2>1, <2>2 DEF Quieter, Numbered
<1>2. ASSUME NEW p \in Servers PROVE WorkedOn(p)'
  BY QuieterAsks DEF Quieter, Traffic, WorkedOn, HasRun
<1>3. ASSUME NEW c \in Calls PROVE OwnRequest(c)'
  <2> SUFFICES ASSUME Waits(c)'
               PROVE  /\ job'[c].id = request_id' /\ request_id' > 0
                      /\ \A p \in Servers : \A m \in Asked(p)' \cup Elems(outbox'[p]) :
                           m.id = request_id => m.call = c /\ m.what = Purpose(c)'
    BY DEF OwnRequest, Quieter
  <2>1. Waits(c) /\ SameRequest(c) /\ request_id' = request_id
    BY DEF Quieter
  <2>2. OwnRequest(c)
    BY DEF Traffic
  <2> QED
    BY <2>1, <2>2, QuieterAsks DEF OwnRequest, SameRequest
<1> QED
  BY <1>1, <1>2, <1>3 DEF Traffic

\* A message appended keeps the numbers in order.
LEMMA NumberedAppend ==
  ASSUME NEW s \in Seq(Requests), NEW m \in Requests,
         \A i, j \in DOMAIN s : i < j /\ s[j].what # "notice" => s[i].id < s[j].id,
         m.what = "notice" \/ \A k \in Elems(s) : k.id < m.id
  PROVE  \A i, j \in DOMAIN Append(s, m) :
           i < j /\ Append(s, m)[j].what # "notice" => Append(s, m)[i].id < Append(s, m)[j].id
<1> TAKE i, j \in DOMAIN Append(s, m)
<1>1. /\ Len(s) \in Nat /\ DOMAIN s = 1..Len(s)
      /\ i \in 1..(Len(s) + 1) /\ j \in 1..(Len(s) + 1)
      /\ Append(s, m)[Len(s) + 1] = m
      /\ \A k \in 1..Len(s) : Append(s, m)[k] = s[k]
  OBVIOUS
<1> SUFFICES ASSUME i < j, Append(s, m)[j].what # "notice"
             PROVE  Append(s, m)[i].id < Append(s, m)[j].id
  OBVIOUS
<1>2. i \in 1..Len(s)
  BY <1>1
<1>3. CASE j \in 1..Len(s)
  BY <1>1, <1>2, <1>3
<1>4. CASE j = Len(s) + 1
  BY <1>1, <1>2, <1>4 DEF Elems
<1> QED
  BY <1>1, <1>3, <1>4

\* A message written to the process leaves the rest of the traffic as it is.
LEMMA WriteAsks ==
  ASSUME WellFormed, proc \in Servers, NEW m \in Requests,
         inbox' = [inbox EXCEPT ![proc] = Append(@, m)], UNCHANGED owed
  PROVE  \A p \in Servers :
           Asked(p)' = IF p = proc /\ m.what # "notice" THEN Asked(p) \cup {m} ELSE Asked(p)
<1> TAKE p \in Servers
<1>1. Elems(inbox'[p]) = IF p = proc THEN Elems(inbox[p]) \cup {m} ELSE Elems(inbox[p])
  BY InboxWritten
<1> QED
  BY <1>1 DEF Asked

\* A request is sent.
LEMMA TrafficSends ==
  ASSUME WellFormed, Traffic, NEW c \in Calls, Sends(c)
  PROVE  Traffic'
<1> DEFINE m == Request(request_id + 1, job[c].at, c)
<1>1. /\ proc \in Servers /\ request_id \in Nat /\ request_id' = request_id + 1
      /\ request_id + 1 \in Nat
      /\ job[c].at \in {"initialize", "request"}
      /\ inbox' = [inbox EXCEPT ![proc] = Append(@, m)]
      /\ UNCHANGED <<owed, outbox, executed>>
  BY DEF Sends, Running, At, history, WellFormed, TypeOK
<1>2. m \in Requests /\ m.id = request_id + 1 /\ m.what = job[c].at /\ m.call = c
  BY <1>1, MessageTyped DEF What
<1> HIDE DEF m
<1>3. \A p \in Servers : Asked(p)' \subseteq Asked(p) \cup {m}
  BY <1>1, <1>2, WriteAsks
<1>4. /\ Elems(inbox'[proc]) = Elems(inbox[proc]) \cup {m}
      /\ inbox'[proc] = Append(inbox[proc], m)
      /\ \A p \in Servers : p # proc => inbox'[p] = inbox[p]
  BY <1>1, <1>2, InboxWritten
<1>5. \A p \in Servers : \A k \in Asked(p) \cup Elems(inbox[p]) \cup Elems(outbox[p]) :
        k.id \in Nat /\ k.id <= request_id
  BY TrafficTyped DEF Traffic, Numbered, Requests, Lines
<1>6. ASSUME NEW p \in Servers PROVE Numbered(p)'
  <2>1. \A k \in Asked(p)' \cup Elems(inbox'[p]) \cup Elems(outbox'[p]) : k.id <= request_id'
    <3>1. /\ Elems(inbox'[p]) \subseteq Elems(inbox[p]) \cup {m}
          /\ Elems(outbox'[p]) = Elems(outbox[p])
      BY <1>1, <1>4 DEF Elems
    <3>2. ASSUME NEW k \in Asked(p) \cup Elems(inbox[p]) \cup Elems(outbox[p])
          PROVE  k.id <= request_id'
      BY <1>1, <1>5, <3>2
    <3>3. m.id <= request_id'
      BY <1>1, <1>2
    <3> QED
      BY <1>3, <3>1, <3>2, <3>3
  <2>2. \A i, j \in DOMAIN inbox'[p] :
          i < j /\ inbox'[p][j].what # "notice" => inbox'[p][i].id < inbox'[p][j].id
    <3>1. CASE p = proc
      <4>1. inbox[proc] \in Seq(Requests)
        BY <1>1, TrafficTyped
      <4>2. \A i, j \in DOMAIN inbox[proc] : i < j /\ inbox[proc][j].what # "notice"
              => inbox[proc][i].id < inbox[proc][j].id
        BY <1>1 DEF Traffic, Numbered
      <4>3. \A k \in Elems(inbox[proc]) : k.id < m.id
        BY <1>1, <1>2, <1>5
      <4>4. \A i, j \in DOMAIN Append(inbox[proc], m) :
              i < j /\ Append(inbox[proc], m)[j].what # "notice"
                => Append(inbox[proc], m)[i].id < Append(inbox[proc], m)[j].id
        BY <1>2, <4>1, <4>2, <4>3, NumberedAppend
      <4>5. inbox'[p] = Append(inbox[proc], m)
        BY <1>4, <3>1
      <4> QED
        BY <4>4, <4>5, Zenon
    <3>2. CASE p # proc
      BY <1>4, <3>2 DEF Traffic, Numbered
    <3> QED
      BY <3>1, <3>2
  <2> QED
    BY <2>1, <2>2 DEF Numbered
<1>7. ASSUME NEW p \in Servers PROVE WorkedOn(p)'
  BY <1>1 DEF Traffic, WorkedOn, HasRun
<1>8. ASSUME NEW d \in Calls PROVE OwnRequest(d)'
  <2> SUFFICES ASSUME Waits(d)'
               PROVE  /\ job'[d].id = request_id' /\ request_id' > 0
                      /\ \A p \in Servers : \A k \in Asked(p)' \cup Elems(outbox'[p]) :
                           k.id = request_id' => k.call = d /\ k.what = Purpose(d)'
    BY DEF OwnRequest
  <2>1. d = c
    <3>1. \A e \in Calls \ {c} : job'[e] = job[e] /\ job[e].at \notin Holding
      BY <1>1, OneHolds DEF Sends, OnlyJob, Holding
    <3> QED
      BY <3>1 DEF Waits, Holding
  <2>2. job'[c].id = request_id' /\ request_id' > 0
    BY <1>1 DEF Sends
  <2>3. Purpose(c)' = m.what
    BY <1>1, <1>2 DEF Purpose, At, Sends
  <2>4. \A p \in Servers : \A k \in Asked(p)' \cup Elems(outbox'[p]) :
          k.id = request_id' => k = m
    BY <1>1, <1>2, <1>3, <1>5
  <2> QED
    BY <1>2, <2>1, <2>2, <2>3, <2>4
<1> QED
  BY <1>6, <1>7, <1>8 DEF Traffic

\* The notification is sent.
LEMMA TrafficGreets ==
  ASSUME WellFormed, Traffic, NEW c \in Calls, Greets(c)
  PROVE  Traffic' /\ \A p \in Servers : Asked(p)' = Asked(p)
<1> DEFINE m == Request(0, "notice", c)
<1>1. /\ proc \in Servers /\ request_id \in Nat
      /\ inbox' = [inbox EXCEPT ![proc] = Append(@, m)]
      /\ UNCHANGED <<owed, executed, request_id>>
  BY DEF Greets, Running, history, WellFormed, TypeOK
<1>2. m \in Requests /\ m.id = 0 /\ m.what = "notice"
  BY MessageTyped DEF What
<1> HIDE DEF m
<1>3. \A p \in Servers : Asked(p)' = Asked(p)
  BY <1>1, <1>2, WriteAsks
<1>4. /\ Elems(inbox'[proc]) = Elems(inbox[proc]) \cup {m}
      /\ inbox'[proc] = Append(inbox[proc], m)
      /\ \A p \in Servers : p # proc => inbox'[p] = inbox[p]
  BY <1>1, <1>2, InboxWritten
<1>5. \A p \in Servers : Elems(outbox'[p]) \subseteq Elems(outbox[p])
  BY ReadTyped DEF Greets, At, Bound, Holding
<1>6. ASSUME NEW p \in Servers PROVE Numbered(p)'
  <2>1. \A k \in Asked(p)' \cup Elems(inbox'[p]) \cup Elems(outbox'[p]) : k.id <= request_id'
    <3>1. /\ Elems(inbox'[p]) \subseteq Elems(inbox[p]) \cup {m}
          /\ Elems(outbox'[p]) \subseteq Elems(outbox[p])
      BY <1>4, <1>5
    <3>2. ASSUME NEW k \in Asked(p) \cup Elems(inbox[p]) \cup Elems(outbox[p])
          PROVE  k.id <= request_id'
      BY <1>1, <3>2 DEF Traffic, Numbered
    <3>3. m.id <= request_id'
      BY <1>1, <1>2
    <3> QED
      BY <1>3, <3>1, <3>2, <3>3
  <2>2. \A i, j \in DOMAIN inbox'[p] :
          i < j /\ inbox'[p][j].what # "notice" => inbox'[p][i].id < inbox'[p][j].id
    <3>1. CASE p = proc
      <4>1. inbox[proc] \in Seq(Requests)
        BY <1>1, TrafficTyped
      <4>2. \A i, j \in DOMAIN inbox[proc] : i < j /\ inbox[proc][j].what # "notice"
              => inbox[proc][i].id < inbox[proc][j].id
        BY <1>1 DEF Traffic, Numbered
      <4>3. \A i, j \in DOMAIN Append(inbox[proc], m) :
              i < j /\ Append(inbox[proc], m)[j].what # "notice"
                => Append(inbox[proc], m)[i].id < Append(inbox[proc], m)[j].id
        BY <1>2, <4>1, <4>2, NumberedAppend
      <4>4. inbox'[p] = Append(inbox[proc], m)
        BY <1>4, <3>1
      <4> QED
        BY <4>3, <4>4, Zenon
    <3>2. CASE p # proc
      BY <1>4, <3>2 DEF Traffic, Numbered
    <3> QED
      BY <3>1, <3>2
  <2> QED
    BY <2>1, <2>2 DEF Numbered
<1>7. ASSUME NEW p \in Servers PROVE WorkedOn(p)'
  BY <1>1, <1>5 DEF Traffic, WorkedOn, HasRun
<1>8. ASSUME NEW d \in Calls PROVE OwnRequest(d)'
  <2>1. \A e \in Calls \ {c} : job'[e] = job[e] /\ job[e].at \notin Holding
    BY OneHolds DEF Greets, Moves, OnlyJob, At, Holding
  <2>2. job'[c].at = "request"
    BY DEF Greets, Moves
  <2>3. ~Waits(d)'
    BY <2>1, <2>2 DEF Waits, Holding
  <2> QED
    BY <2>3 DEF OwnRequest
<1> QED
  BY <1>3, <1>6, <1>7, <1>8 DEF Traffic

\* A server takes its next request: it is asked what it was asked.
LEMMA TakesAsks ==
  ASSUME WellFormed, NEW p \in Servers, NEW r, Takes(p, r)
  PROVE  /\ \A q \in Servers : Asked(q)' = Asked(q)
         /\ r \in Elems(inbox[p]) /\ Elems(inbox'[p]) \subseteq Elems(inbox[p])
         /\ \A q \in Servers : q # p => inbox'[q] = inbox[q] /\ owed'[q] = owed[q]
         /\ owed'[p] = IF r.what = "notice" THEN owed[p] ELSE owed[p] \cup {r}
<1>1. inbox[p] \in Seq(Requests) /\ inbox[p] # <<>> /\ r = Head(inbox[p])
  BY DEF Takes, WellFormed, TypeOK
<1>2. Elems(inbox[p]) = {r} \cup Elems(inbox'[p])
  BY <1>1, ElemsOfTail DEF Takes
<1>3. /\ \A q \in Servers : q # p => inbox'[q] = inbox[q] /\ owed'[q] = owed[q]
      /\ owed'[p] = IF r.what = "notice" THEN owed[p] ELSE owed[p] \cup {r}
  BY DEF Takes, WellFormed, TypeOK
<1>4. ASSUME NEW q \in Servers PROVE Asked(q)' = Asked(q)
  <2>1. CASE q # p
    BY <1>3, <2>1 DEF Asked
  <2>2. CASE q = p
    BY <1>2, <1>3, <2>2 DEF Asked
  <2> QED
    BY <2>1, <2>2
<1> QED
  BY <1>2, <1>3, <1>4

\* The messages behind the one that is taken stay in order.
LEMMA NumberedTail ==
  ASSUME NEW s \in Seq(Requests), s # <<>>,
         \A i, j \in DOMAIN s : i < j /\ s[j].what # "notice" => s[i].id < s[j].id
  PROVE  /\ \A i, j \in DOMAIN Tail(s) :
              i < j /\ Tail(s)[j].what # "notice" => Tail(s)[i].id < Tail(s)[j].id
         /\ \A m \in Elems(Tail(s)) : m.what # "notice" => Head(s).id < m.id
<1>1. /\ Len(s) \in Nat /\ Len(s) > 0 /\ Head(s) = s[1]
      /\ DOMAIN s = 1..Len(s) /\ DOMAIN Tail(s) = 1..(Len(s) - 1)
      /\ \A i \in 1..(Len(s) - 1) : Tail(s)[i] = s[i + 1]
  BY ElemsOfTail
<1>2. ASSUME NEW i \in DOMAIN Tail(s), NEW j \in DOMAIN Tail(s),
             i < j, Tail(s)[j].what # "notice"
      PROVE  Tail(s)[i].id < Tail(s)[j].id
  <2>1. i + 1 \in DOMAIN s /\ j + 1 \in DOMAIN s /\ i + 1 < j + 1
    BY <1>1, <1>2
  <2> QED
    BY <1>1, <1>2, <2>1
<1>3. ASSUME NEW i \in DOMAIN Tail(s), Tail(s)[i].what # "notice"
      PROVE  Head(s).id < Tail(s)[i].id
  <2>1. 1 \in DOMAIN s /\ i + 1 \in DOMAIN s /\ 1 < i + 1
    BY <1>1, <1>3
  <2> QED
    BY <1>1, <1>3, <2>1
<1> QED
  BY <1>2, <1>3 DEF Elems

\* A server that takes its next request works on what has now been run.
LEMMA TrafficTakes ==
  ASSUME WellFormed, Traffic, NEW p \in Servers, NEW r, Takes(p, r)
  PROVE  Traffic'
<1>1. UNCHANGED <<job, request_id, outbox>>
  BY DEF Takes, ClientSame
<1>2. ASSUME NEW q \in Servers PROVE Numbered(q)'
  <2>1. \A m \in Asked(q)' \cup Elems(inbox'[q]) \cup Elems(outbox'[q]) : m.id <= request_id'
    BY <1>1, TakesAsks DEF Traffic, Numbered
  <2>2. \A i, j \in DOMAIN inbox'[q] :
          i < j /\ inbox'[q][j].what # "notice" => inbox'[q][i].id < inbox'[q][j].id
    <3>1. CASE q = p
      <4>1. inbox[p] \in Seq(Requests) /\ inbox[p] # <<>> /\ inbox'[p] = Tail(inbox[p])
        BY DEF Takes, WellFormed, TypeOK
      <4>2. \A i, j \in DOMAIN inbox[p] : i < j /\ inbox[p][j].what # "notice"
              => inbox[p][i].id < inbox[p][j].id
        BY DEF Traffic, Numbered
      <4> QED
        BY <3>1, <4>1, <4>2, NumberedTail
    <3>2. CASE q # p
      BY <3>2, TakesAsks DEF Traffic, Numbered
    <3> QED
      BY <3>1, <3>2
  <2> QED
    BY <2>1, <2>2 DEF Numbered
<1>3. ASSUME NEW q \in Servers PROVE WorkedOn(q)'
  <2>1. \A m : HasRun(m) => HasRun(m)'
    <3> SUFFICES ASSUME NEW m, HasRun(m), m.what = "request", m.call \in ToolRequests
                 PROVE  executed'[m.call] > 0
      BY DEF HasRun
    <3>1. PICK c \in Calls : c = m.call
      BY DEF Calls
    <3>2. executed[c] \in Nat /\ executed[c] > 0
      BY <3>1 DEF HasRun, WellFormed, TypeOK
    <3>3. executed'[c] \in {executed[c], executed[c] + 1}
      BY DEF Takes
    <3> QED
      BY <3>1, <3>2, <3>3
  <2>2. HasRun(r)'
    <3> SUFFICES ASSUME r.what = "request", r.call \in ToolRequests
                 PROVE  executed'[r.call] > 0
      BY DEF HasRun
    <3>1. PICK c \in Calls : c = r.call
      BY DEF Calls
    <3>2. executed[c] \in Nat /\ executed'[c] = executed[c] + 1
      BY <3>1 DEF Takes, WellFormed, TypeOK
    <3> QED
      BY <3>1, <3>2
  <2>3. \A m \in owed'[q] \cup Elems(outbox'[q]) : m \in owed[q] \cup Elems(outbox[q]) \/ m = r
    <3>1. owed'[p] \subseteq owed[p] \cup {r} /\ \A o \in Servers : o # p => owed'[o] = owed[o]
      BY TakesAsks
    <3>2. owed'[q] \subseteq owed[q] \cup {r}
      BY <3>1
    <3> QED
      BY <1>1, <3>2
  <2> QED
    BY <2>1, <2>2, <2>3 DEF Traffic, WorkedOn
<1>4. ASSUME NEW c \in Calls PROVE OwnRequest(c)'
  <2>1. \A q \in Servers : Asked(q)' = Asked(q) /\ Elems(outbox'[q]) = Elems(outbox[q])
    BY <1>1, TakesAsks
  <2>2. Waits(c)' = Waits(c) /\ Purpose(c)' = Purpose(c)
    BY <1>1 DEF Waits, At, Purpose
  <2>3. OwnRequest(c)
    BY DEF Traffic
  <2> QED
    BY <1>1, <2>1, <2>2, <2>3 DEF OwnRequest
<1> QED
  BY <1>2, <1>3, <1>4 DEF Traffic

\* A line about r carries its number, its call and what it asks.
LEMMA RepliesAbout ==
  ASSUME NEW r \in Requests, NEW l \in Replies(r)
  PROVE  \/ l.id = r.id /\ l.call = r.call /\ l.what = r.what /\ l.how # "stray"
         \/ l.id = 0 /\ l.what = "notice" /\ l.how # "stray"
BY DEF Replies, Line, Unasked, Request

\* What a server that speaks adds to its lines: about a request it worked on,
\* or what nobody asked for.
LEMMA SpeaksAdds ==
  ASSUME WellFormed, NEW p \in Servers, Speaks(p)
  PROVE  /\ \A q \in Servers : Asked(q)' \subseteq Asked(q) /\ owed'[q] \subseteq owed[q]
         /\ \A q \in Servers : q # p => outbox'[q] = outbox[q]
         /\ \A l \in Elems(outbox'[p]) :
              \/ l \in Elems(outbox[p])
              \/ l.id = 0 /\ l.what = "notice"
              \/ \E r \in owed[p] : l.id = r.id /\ l.call = r.call /\ l.what = r.what
         /\ UNCHANGED <<job, request_id, inbox, executed, alive>>
<1>1. CASE \E r \in owed[p] : /\ r \in Requests /\ Writes(p, Replies(r))
                              /\ owed' = [owed EXCEPT ![p] = @ \ {r}]
                              /\ UNCHANGED strayed
  <2> PICK r \in owed[p] : /\ r \in Requests /\ Writes(p, Replies(r))
                           /\ owed' = [owed EXCEPT ![p] = @ \ {r}]
    BY <1>1
  <2>1. \A q \in Servers : owed'[q] \subseteq owed[q]
    BY DEF WellFormed, TypeOK
  <2>2. \A l \in Elems(outbox'[p]) : l \in Elems(outbox[p]) \/ l \in Replies(r)
    BY DEF Writes
  <2>3. \A q \in Servers : q # p => outbox'[q] = outbox[q]
    BY DEF Writes
  <2>4. UNCHANGED <<job, request_id, inbox, executed, alive>>
    BY DEF Writes, ClientSame
  <2>5. \A q \in Servers : Asked(q)' \subseteq Asked(q)
    BY <2>1, <2>4 DEF Asked
  <2> QED
    BY <2>1, <2>2, <2>3, <2>4, <2>5, RepliesAbout
<1>2. CASE Writes(p, {Unasked("stray")}) /\ UNCHANGED owed
  <2>1. Unasked("stray").id = 0 /\ Unasked("stray").what = "notice"
    BY DEF Unasked, Line, Request
  <2>2. \A l \in Elems(outbox'[p]) : l \in Elems(outbox[p]) \/ l = Unasked("stray")
    BY <1>2 DEF Writes
  <2>3. \A q \in Servers : q # p => outbox'[q] = outbox[q]
    BY <1>2 DEF Writes
  <2>4. UNCHANGED <<job, request_id, inbox, executed, alive, owed>>
    BY <1>2 DEF Writes, ClientSame
  <2>5. \A q \in Servers : Asked(q)' = Asked(q)
    BY <2>4 DEF Asked
  <2> QED
    BY <2>1, <2>2, <2>3, <2>4, <2>5
<1> QED
  BY <1>1, <1>2 DEF Speaks

\* A server that speaks writes about requests it has run.
LEMMA TrafficSpeaks ==
  ASSUME WellFormed, Traffic, NEW p \in Servers, Speaks(p)
  PROVE  Traffic'
<1>1. UNCHANGED <<job, request_id, inbox, executed>>
  BY SpeaksAdds
<1>2. ASSUME NEW q \in Servers, NEW l \in Elems(outbox'[q])
      PROVE  \/ l \in Elems(outbox[q])
             \/ l.id = 0 /\ l.what = "notice"
             \/ \E r \in owed[q] : l.id = r.id /\ l.call = r.call /\ l.what = r.what
  <2>1. CASE q = p
    BY <1>2, <2>1, SpeaksAdds
  <2>2. CASE q # p
    BY <1>2, <2>2, SpeaksAdds
  <2> QED
    BY <2>1, <2>2
<1>3. ASSUME NEW q \in Servers PROVE Numbered(q)'
  <2>1. \A m \in Asked(q)' \cup Elems(inbox'[q]) : m.id <= request_id'
    BY <1>1, SpeaksAdds DEF Traffic, Numbered
  <2>2. \A m \in Elems(outbox'[q]) : m.id <= request_id'
    <3> TAKE m \in Elems(outbox'[q])
    <3>1. CASE m \in Elems(outbox[q])
      BY <1>1, <3>1 DEF Traffic, Numbered
    <3>2. CASE m.id = 0
      BY <1>1, <3>2, TrafficTyped
    <3>3. CASE \E r \in owed[q] : m.id = r.id
      BY <1>1, <3>3 DEF Traffic, Numbered, Asked
    <3> QED
      BY <1>2, <3>1, <3>2, <3>3
  <2> QED
    BY <1>1, <2>1, <2>2 DEF Traffic, Numbered
<1>4. ASSUME NEW q \in Servers PROVE WorkedOn(q)'
  <2>1. \A m : HasRun(m)' <=> HasRun(m)
    BY <1>1 DEF HasRun
  <2>2. \A m \in owed[q] \cup Elems(outbox[q]) : HasRun(m)
    BY DEF Traffic, WorkedOn
  <2>3. ASSUME NEW l \in Elems(outbox'[q]) PROVE HasRun(l)
    <3>1. CASE l.what = "notice"
      BY <3>1 DEF HasRun
    <3>2. CASE \E r \in owed[q] : l.call = r.call /\ l.what = r.what
      BY <2>2, <3>2 DEF HasRun
    <3> QED
      BY <1>2, <2>2, <2>3, <3>1, <3>2
  <2> QED
    BY <2>1, <2>2, <2>3, SpeaksAdds DEF WorkedOn
<1>5. ASSUME NEW c \in Calls PROVE OwnRequest(c)'
  <2> SUFFICES ASSUME Waits(c)'
               PROVE  /\ job[c].id = request_id /\ request_id > 0
                      /\ \A q \in Servers : \A m \in Asked(q)' \cup Elems(outbox'[q]) :
                           m.id = request_id => m.call = c /\ m.what = Purpose(c)
    BY <1>1 DEF OwnRequest, Purpose, At
  <2>1. Waits(c)
    BY <1>1 DEF Waits
  <2>2. /\ job[c].id = request_id /\ request_id > 0
        /\ \A q \in Servers : \A m \in Asked(q) \cup Elems(outbox[q]) :
                           m.id = request_id => m.call = c /\ m.what = Purpose(c)
    BY <2>1 DEF Traffic, OwnRequest
  <2>3. ASSUME NEW q \in Servers, NEW m \in Elems(outbox'[q]), m.id = request_id
        PROVE  m.call = c /\ m.what = Purpose(c)
    <3>1. CASE m \in Elems(outbox[q])
      BY <2>2, <2>3, <3>1
    <3>2. CASE m.id = 0
      BY <2>2, <2>3, <3>2
    <3>3. CASE \E r \in owed[q] : m.id = r.id /\ m.call = r.call /\ m.what = r.what
      BY <2>2, <2>3, <3>3 DEF Asked
    <3> QED
      BY <1>2, <3>1, <3>2, <3>3
  <2> QED
    BY <2>2, <2>3, SpeaksAdds
<1> QED
  BY <1>3, <1>4, <1>5 DEF Traffic

\* Every step keeps the traffic in order.
LEMMA TrafficStep == WellFormed /\ Traffic /\ [Next]_vars => Traffic'
BY TrafficForms, TrafficQuieter, TrafficSends, TrafficGreets, TrafficTakes, TrafficSpeaks

-----------------------------------------------------------------------------
(* A call is answered with its own result.                                 *)

\* What has been run has been run.
LEMMA RunsStay ==
  ASSUME WellFormed, [Next]_vars, NEW c \in Calls, executed[c] > 0
  PROVE  executed'[c] > 0
<1>1. CASE UNCHANGED executed
  BY <1>1
<1>2. ASSUME NEW p \in Servers, NEW r, Takes(p, r)
      PROVE  executed'[c] > 0
  <2>1. executed[c] \in Nat /\ executed'[c] \in {executed[c], executed[c] + 1}
    BY <1>2 DEF Takes, WellFormed, TypeOK
  <2> QED
    BY <2>1
<1> QED
  BY <1>1, <1>2, TrafficForms, SpeaksAdds DEF Quieter, Sends, Greets, history

\* Only the end of an attempt that was answered answers anything but a failure.
LEMMA AnswersNext ==
  ASSUME WellFormed, [Next]_vars
  PROVE  \/ UNCHANGED answer
         \/ \E c \in Calls : answer' = [answer EXCEPT ![c] = Failed]
         \/ \E c \in Calls :
              /\ At(c, "await_result") /\ ReadsLine
              /\ Head(outbox[proc]).id = job[c].id
              /\ answer' = [answer EXCEPT ![c] = AnsweredBy(Head(outbox[proc]))]
<1>1. ASSUME NEW c \in Calls, ClientStep(c)
      PROVE  \/ UNCHANGED answer
             \/ answer' = [answer EXCEPT ![c] = Failed]
             \/ /\ At(c, "await_result") /\ ReadsLine
                /\ Head(outbox[proc]).id = job[c].id
                /\ answer' = [answer EXCEPT ![c] = AnsweredBy(Head(outbox[proc]))]
  <2>1. CASE Passes(c) \/ Goes(c) \/ Sends(c) \/ Greets(c) \/ Kills(c)
             \/ \E p \in Servers : Starts(c, p)
    BY <2>1 DEF Passes, Goes, Sends, Greets, Kills, Starts, Moves, gateway
  <2>2. CASE Closes(c) \/ \E a : GivesUp(c, a)
    BY <2>2 DEF Closes, GivesUp, Leaves
  <2> QED
    BY <1>1, <2>1, <2>2, ClientForms
<1>2. ASSUME NEW p \in Servers, ServerStep(p)
      PROVE  UNCHANGED answer
  BY <1>2 DEF ServerStep, Take, Reply, Chatter, Exit, gateway
<1>3. CASE UNCHANGED vars
  BY <1>3 DEF vars, gateway
<1> QED
  BY <1>1, <1>2, <1>3 DEF Next

\* Every step keeps AnswerIsOwn: the line of a result is about the last request,
\* and the last request is that of the call that waits.
LEMMA AnswerStep ==
  WellFormed /\ Traffic /\ AnswerIsOwn /\ [Next]_vars => AnswerIsOwn'
<1> SUFFICES ASSUME WellFormed, Traffic, AnswerIsOwn, [Next]_vars PROVE AnswerIsOwn'
  OBVIOUS
<1> DEFINE Own(a, c) == a.how = "result" =>
                          /\ a.what = "request" /\ a.call = c
                          /\ c \in ToolRequests => executed'[c] > 0
<1>1. \A c \in Calls : Own(answer[c], c)
  BY RunsStay DEF AnswerIsOwn
<1>2. \A c \in Calls : Own(Failed, c)
  BY DEF Failed, NoAnswer
<1>3. ASSUME NEW c \in Calls, At(c, "await_result"), ReadsLine,
             Head(outbox[proc]).id = job[c].id
      PROVE  Own(AnsweredBy(Head(outbox[proc])), c)
  <2> DEFINE l == Head(outbox[proc])
  <2>1. proc \in Servers /\ l \in Elems(outbox[proc])
    BY <1>3, ReadTyped DEF At, Bound, Holding
  <2>2. l.id = request_id
    BY <1>3 DEF Traffic, OwnRequest, Waits, At
  <2>3. l.call = c /\ l.what = "request"
    BY <1>3, <2>1, <2>2 DEF Traffic, OwnRequest, Waits, Purpose, At
  <2>4. c \in ToolRequests => executed[c] > 0
    BY <2>1, <2>3 DEF Traffic, WorkedOn, HasRun
  <2>5. c \in ToolRequests => executed'[c] > 0
    BY <2>4, RunsStay
  <2> QED
    BY <2>3, <2>5 DEF AnsweredBy
<1>4. answer \in [Calls -> Answers]
  BY JobsTyped
<1>5. ASSUME NEW a, NEW c \in Calls, Own(a, c), answer' = [answer EXCEPT ![c] = a]
      PROVE  AnswerIsOwn'
  <2>1. \A d \in Calls : Own(answer'[d], d)
    BY <1>1, <1>4, <1>5
  <2> QED
    BY <2>1 DEF AnswerIsOwn
<1>6. CASE UNCHANGED answer
  BY <1>1, <1>6 DEF AnswerIsOwn
<1> HIDE DEF Own
<1> QED
  BY <1>2, <1>3, <1>5, <1>6, AnswersNext

\* A call is answered with its own result, and a tool call that succeeds has been
\* executed, whatever lines the requests before it have left in the pipes.
THEOREM OwnAnswers == Spec => []AnswerIsOwn
<1>1. Init => WellFormed /\ Traffic /\ AnswerIsOwn
  <2>1. Init => AnswerIsOwn
    BY DEF Init, AnswerIsOwn, NoAnswer
  <2> QED
    BY <2>1, WellFormedInit, TrafficInit
<1>2. WellFormed /\ Traffic /\ AnswerIsOwn /\ [Next]_vars
        => (WellFormed /\ Traffic /\ AnswerIsOwn)'
  BY WellFormedStep, TrafficStep, AnswerStep
<1> QED
  BY <1>1, <1>2, PTL DEF Spec

-----------------------------------------------------------------------------
(* A request that was given up takes its process with it.                  *)

\* Nobody waits for an answer or is about to end the process.
Idle == \A c \in Calls : ~Waits(c) /\ ~At(c, "terminate")

\* Processes that run and have written no stray line.
Sound == alive \ strayed

\* p has at most the last request to answer, and has not begun before it has
\* read what there is; once it has answered, nothing.
LastOnly(p) ==
  /\ \A m \in Asked(p) : m.id = request_id
  /\ owed[p] # {} => \A m \in Elems(inbox[p]) : m.what = "notice"
  /\ (\E l \in Elems(outbox[p]) : l.id = request_id) => Asked(p) = {}

Debts ==
  /\ \A p \in alive : (\E l \in Elems(outbox[p]) : l.how = "stray") => p \in strayed
  /\ Idle => \A p \in Sound : Asked(p) = {}
  /\ \A c \in Calls : Waits(c) => \A p \in Sound : LastOnly(p)

\* No process runs to begin with.
LEMMA DebtsInit == Init => Debts
BY DEF Init, Debts, Sound

\* Processes that run are child processes.
LEMMA SoundServers ==
  ASSUME WellFormed
  PROVE  alive \subseteq Servers /\ Sound \subseteq Servers
BY DEF WellFormed, TypeOK, Sound

\* A process that has ended is asked nothing.
LEMMA EndedAsksNothing ==
  ASSUME WellFormed, NEW p \in Servers, p \notin alive
  PROVE  Asked(p) = {}
BY ElemsOfEmpty DEF WellFormed, OnlyProc, Asked

\* While a call waits that has been answered, or has read a stray line, no sound
\* process is asked anything.
LEMMA AnsweredSettles ==
  ASSUME WellFormed, Traffic, Debts, NEW c \in Calls, Awaiting(c), ReadsLine,
         \/ Head(outbox[proc]).how = "stray"
         \/ Head(outbox[proc]).id = job[c].id
  PROVE  \A p \in Sound : Asked(p) = {}
<1> TAKE p \in Sound
<1>1. p = proc /\ p \in alive /\ p \notin strayed /\ proc \in Servers
  BY SoundServers DEF WellFormed, OnlyProc, Sound
<1>2. Head(outbox[proc]) \in Elems(outbox[proc])
  BY ReadTyped DEF Awaiting, At, Bound, Holding
<1>3. Head(outbox[proc]).how # "stray"
  BY <1>1, <1>2 DEF Debts
<1>4. Head(outbox[proc]).id = request_id
  BY <1>3 DEF Traffic, OwnRequest, Awaiting, Waits, At
<1>5. LastOnly(p)
  BY DEF Debts, Awaiting, Waits, At
<1> QED
  BY <1>1, <1>2, <1>4, <1>5 DEF LastOnly

\* A quiet step that adds no process but one that is asked nothing.
LEMMA DebtsQuieter ==
  ASSUME WellFormed, Debts, Quieter,
         \A p \in alive' : p \in Servers,
         \A p \in alive' : \/ p \in alive /\ (p \in strayed => p \in strayed')
                           \/ Asked(p) = {} /\ outbox'[p] = <<>>,
         Idle' => Idle \/ (\A p \in Sound : Asked(p) = {}) \/ alive' = {}
  PROVE  Debts'
<1>1. ASSUME NEW p \in alive', NEW l \in Elems(outbox'[p]), l.how = "stray"
      PROVE  p \in strayed'
  <2>1. p \in alive /\ (p \in strayed => p \in strayed')
    BY <1>1, ElemsOfEmpty
  <2>2. l \in Elems(outbox[p])
    BY <1>1, QuieterAsks
  <2> QED
    BY <1>1, <2>1, <2>2 DEF Debts
<1>2. \A p \in Sound' : p \in Servers /\ (p \in Sound \/ Asked(p) = {})
  BY DEF Sound
<1>3. ASSUME Idle', NEW p \in Sound' PROVE Asked(p)' = {}
  <2>1. alive' # {}
    BY <1>3 DEF Sound
  <2>2. Asked(p) = {}
    BY <1>2, <1>3, <2>1 DEF Debts
  <2> QED
    BY <1>2, <1>3, <2>2, QuieterAsks
<1>4. ASSUME NEW c \in Calls, Waits(c)', NEW p \in Sound' PROVE LastOnly(p)'
  <2>0. p \in Servers
    BY <1>2, <1>4
  <2>1. /\ Asked(p)' \subseteq Asked(p) /\ Elems(inbox'[p]) \subseteq Elems(inbox[p])
        /\ owed'[p] \subseteq owed[p] /\ Elems(outbox'[p]) \subseteq Elems(outbox[p])
        /\ owed'[p] \subseteq Asked(p)' /\ request_id' = request_id
    BY <2>0, QuieterAsks DEF Quieter, Asked
  <2>2. CASE Asked(p) = {}
    BY <2>1, <2>2 DEF LastOnly
  <2>3. CASE p \in Sound
    <3>1. LastOnly(p)
      BY <1>4, <2>3 DEF Quieter, Debts
    <3> QED
      BY <2>1, <3>1 DEF LastOnly
  <2> QED
    BY <1>2, <1>4, <2>2, <2>3
<1> QED
  BY <1>1, <1>3, <1>4 DEF Debts

\* If nobody waits after a step of a call that did not wait, nobody did before.
LEMMA IdleBefore ==
  ASSUME NEW c \in Calls, OnlyJob(c), ~Waits(c), ~At(c, "terminate"), Idle'
  PROVE  Idle
BY DEF OnlyJob, Idle, Waits, At

\* The quiet steps.
LEMMA DebtsClientQuieter ==
  ASSUME WellFormed, Traffic, Debts, NEW c \in Calls,
         \/ Passes(c) \/ Goes(c) \/ Kills(c) \/ Closes(c)
         \/ \E p \in Servers : Starts(c, p)
         \/ \E a : GivesUp(c, a)
  PROVE  Debts'
<1>0. Quieter /\ alive \subseteq Servers
  BY ClientQuieter, SoundServers
<1>1. CASE Passes(c)
  <2>1. UNCHANGED <<alive, strayed>> /\ (Idle' => Idle)
    BY <1>1, IdleBefore DEF Passes, ServerSame, Waits, At
  <2> QED
    BY <1>0, <2>1, DebtsQuieter
<1>2. CASE Goes(c)
  <2>1. UNCHANGED <<alive, strayed>>
    BY <1>2 DEF Goes, ServerSame
  <2>2. Idle' => Idle
    <3>1. CASE At(c, "start") /\ OnlyJob(c)
      BY <3>1, IdleBefore DEF Waits, At
    <3>2. CASE job'[c].at \in {"terminate", "await_result"}
      BY <3>2 DEF Idle, Waits, At
    <3> QED
      BY <1>2, <3>1, <3>2 DEF Goes, Moves
  <2> QED
    BY <1>0, <2>1, <2>2, DebtsQuieter
<1>3. CASE Kills(c)
  <2>1. alive' = {}
    BY <1>3, KillsWellFormed
  <2> QED
    BY <1>0, <2>1, DebtsQuieter
<1>4. CASE Closes(c)
  <2>1. alive' = {}
    BY <1>4, ClosesWellFormed DEF Closes, ServerSame
  <2> QED
    BY <1>0, <2>1, DebtsQuieter
<1>5. ASSUME NEW p \in Servers, Starts(c, p) PROVE Debts'
  <2>1. /\ p \notin alive /\ alive' = alive \cup {p} /\ outbox'[p] = <<>>
        /\ UNCHANGED strayed
    BY <1>5 DEF Starts, NewProcess, history
  <2>2. Asked(p) = {}
    BY <2>1, EndedAsksNothing
  <2>3. Idle' => Idle
    BY <1>5, IdleBefore DEF Starts, Moves, Waits, At
  <2> QED
    BY <1>0, <2>1, <2>2, <2>3, DebtsQuieter
<1>6. ASSUME NEW a, GivesUp(c, a) PROVE Debts'
  <2>1. UNCHANGED <<alive, strayed>>
    BY <1>6 DEF GivesUp, ServerSame
  <2>2. Idle' => Idle \/ \A p \in Sound : Asked(p) = {}
    <3>1. CASE At(c, "start") /\ OnlyJob(c)
      BY <3>1, IdleBefore DEF Waits, At
    <3>2. CASE /\ Awaiting(c) /\ ReadsLine
               /\ \/ Head(outbox[proc]).how = "stray"
                  \/ Head(outbox[proc]).id = job[c].id
      BY <3>2, AnsweredSettles
    <3> QED
      BY <1>6, <3>1, <3>2 DEF GivesUp, Leaves, Awaiting
  <2> QED
    BY <1>0, <2>1, <2>2, DebtsQuieter
<1> QED
  BY <1>1, <1>2, <1>3, <1>4, <1>5, <1>6

\* A server exits, or nothing happens.
LEMMA DebtsExit ==
  ASSUME WellFormed, Debts, (\E p \in Servers : Exit(p)) \/ UNCHANGED vars
  PROVE  Debts'
<1>1. Quieter
  BY ExitQuieter, StutterQuieter
<1>2. UNCHANGED job
  BY DEF Exit, vars
<1>3. alive' \subseteq alive /\ \A p \in alive' : p \in strayed => p \in strayed'
  BY DEF Exit, Gone, vars, server, history
<1>4. Idle' => Idle
  BY <1>2 DEF Idle, Waits, At
<1> QED
  BY <1>1, <1>3, <1>4, SoundServers, DebtsQuieter

\* A request is sent when nothing is owed.
LEMMA DebtsSends ==
  ASSUME WellFormed, Traffic, Debts, NEW c \in Calls, Sends(c)
  PROVE  Debts'
<1> DEFINE m == Request(request_id + 1, job[c].at, c)
<1>1. /\ proc \in Servers /\ request_id \in Nat /\ request_id' = request_id + 1
      /\ request_id + 1 \in Nat
      /\ job[c].at \in {"initialize", "request"}
      /\ inbox' = [inbox EXCEPT ![proc] = Append(@, m)]
      /\ UNCHANGED <<alive, owed, outbox, strayed>>
  BY DEF Sends, Running, At, history, WellFormed, TypeOK
<1>2. m \in Requests /\ m.id = request_id + 1 /\ m.what = job[c].at
  BY <1>1, MessageTyped DEF What
<1> HIDE DEF m
<1>3. \A p \in Servers : Asked(p)' \subseteq Asked(p) \cup {m}
  BY <1>1, <1>2, WriteAsks
<1>4. Idle
  <2>1. \A d \in Calls \ {c} : job[d].at \notin Holding
    BY <1>1, OneHolds DEF Holding
  <2> QED
    BY <1>1, <2>1 DEF Idle, Waits, At, Holding
<1>5. ~Idle'
  BY DEF Sends, Idle, Waits, At
<1>6. ASSUME NEW p \in Sound' PROVE LastOnly(p)'
  <2>1. p \in Sound /\ p \in Servers
    BY <1>1, SoundServers DEF Sound
  <2>2. Asked(p) = {} /\ owed[p] = {}
    BY <1>4, <2>1 DEF Debts, Asked
  <2>3. \A k \in Asked(p)' : k = m
    BY <1>3, <2>1, <2>2
  <2>4. ~\E l \in Elems(outbox'[p]) : l.id = request_id'
    BY <1>1, <2>1, TrafficTyped DEF Traffic, Numbered, Lines
  <2> QED
    BY <1>1, <1>2, <2>2, <2>3, <2>4 DEF LastOnly
<1>7. \A p \in alive' : (\E l \in Elems(outbox'[p]) : l.how = "stray") => p \in strayed'
  BY <1>1 DEF Debts
<1> QED
  BY <1>5, <1>6, <1>7 DEF Debts

\* The notification is sent when the handshake has been answered.
LEMMA DebtsGreets ==
  ASSUME WellFormed, Traffic, Debts, NEW c \in Calls, Greets(c)
  PROVE  Debts'
<1>1. /\ UNCHANGED <<alive, strayed>> /\ alive \subseteq Servers
      /\ Awaiting(c) /\ ReadsLine /\ Head(outbox[proc]).id = job[c].id
  BY SoundServers DEF Greets, history, Awaiting
<1>2. \A p \in Sound : Asked(p) = {}
  BY <1>1, AnsweredSettles
<1>3. \A p \in Sound' : Asked(p)' = {}
  BY <1>1, <1>2, TrafficGreets DEF Sound
<1>4. ASSUME NEW d \in Calls PROVE ~Waits(d)'
  <2>1. \A e \in Calls \ {c} : job'[e] = job[e] /\ job[e].at \notin Holding
    BY OneHolds DEF Greets, Moves, OnlyJob, At, Holding
  <2>2. job'[c].at = "request"
    BY DEF Greets, Moves
  <2> QED
    BY <2>1, <2>2 DEF Waits, Holding
<1>5. \A p \in Servers : Elems(outbox'[p]) \subseteq Elems(outbox[p])
  BY <1>1, ReadsLess
<1>6. \A p \in alive' : (\E l \in Elems(outbox'[p]) : l.how = "stray") => p \in strayed'
  BY <1>1, <1>5 DEF Debts
<1> QED
  BY <1>3, <1>4, <1>6 DEF Debts

\* A server takes its next request.
LEMMA DebtsTakes ==
  ASSUME WellFormed, Traffic, Debts, NEW p \in Servers, NEW r, Takes(p, r)
  PROVE  Debts'
<1>1. UNCHANGED <<job, request_id, outbox, alive, strayed>>
  BY DEF Takes, ClientSame
<1>2. /\ \A q \in Servers : Asked(q)' = Asked(q)
      /\ r \in Elems(inbox[p]) /\ Elems(inbox'[p]) \subseteq Elems(inbox[p])
      /\ \A q \in Servers : q # p => inbox'[q] = inbox[q] /\ owed'[q] = owed[q]
      /\ owed'[p] = IF r.what = "notice" THEN owed[p] ELSE owed[p] \cup {r}
  BY TakesAsks
<1>3. alive \subseteq Servers /\ Sound \subseteq Servers /\ Sound' = Sound
  BY <1>1, SoundServers DEF Sound
<1>4. Idle' => \A q \in Sound' : Asked(q)' = {}
  BY <1>1, <1>2, <1>3 DEF Debts, Idle, Waits, At
<1>5. ASSUME NEW c \in Calls, Waits(c)', NEW q \in Sound' PROVE LastOnly(q)'
  <2>1. q \in Servers /\ LastOnly(q)
    BY <1>1, <1>3, <1>5 DEF Debts, Waits
  <2>2. owed'[q] # {} => \A m \in Elems(inbox'[q]) : m.what = "notice"
    <3>1. CASE q # p
      BY <1>2, <2>1, <3>1 DEF LastOnly
    <3>2. CASE q = p /\ r.what = "notice"
      BY <1>2, <2>1, <3>2 DEF LastOnly
    <3>3. CASE q = p /\ r.what # "notice"
      <4>1. /\ inbox[p] \in Seq(Requests) /\ inbox[p] # <<>> /\ r = Head(inbox[p])
            /\ inbox'[p] = Tail(inbox[p])
        BY DEF Takes, WellFormed, TypeOK
      <4>2. \A i, j \in DOMAIN inbox[p] : i < j /\ inbox[p][j].what # "notice"
              => inbox[p][i].id < inbox[p][j].id
        BY DEF Traffic, Numbered
      <4>3. \A m \in Elems(inbox'[p]) : m.what # "notice" => r.id < m.id
        BY <4>1, <4>2, NumberedTail
      <4>4. r.id = request_id /\ request_id \in Nat
        BY <1>2, <2>1, <3>3, TrafficTyped DEF LastOnly, Asked
      <4>5. \A m \in Elems(inbox'[p]) : m.what # "notice" => m.id = request_id
        BY <1>2, <2>1, <3>3 DEF LastOnly, Asked
      <4> QED
        BY <3>3, <4>3, <4>4, <4>5
    <3> QED
      BY <3>1, <3>2, <3>3
  <2> QED
    BY <1>1, <1>2, <2>1, <2>2 DEF LastOnly
<1>6. \A q \in alive' : (\E l \in Elems(outbox'[q]) : l.how = "stray") => q \in strayed'
  BY <1>1 DEF Debts
<1> QED
  BY <1>4, <1>5, <1>6 DEF Debts

\* A server that answers the last request owes nothing any more.
LEMMA LastAnswered ==
  ASSUME WellFormed, Traffic, Debts, NEW c \in Calls, Waits(c),
         NEW p \in Sound, NEW r \in owed[p], p \in Servers
  PROVE  owed[p] = {r} /\ \A m \in Elems(inbox[p]) : m.what = "notice"
<1>1. LastOnly(p) /\ OwnRequest(c) /\ r \in Requests
  BY TrafficTyped DEF Debts, Traffic
<1>2. \A m \in Elems(inbox[p]) : m.what = "notice"
  BY <1>1 DEF LastOnly
<1>3. ASSUME NEW m \in owed[p] PROVE m = r
  <2>1. m \in Requests /\ m.id = request_id /\ r.id = request_id
    BY <1>1, <1>3, TrafficTyped DEF LastOnly, Asked
  <2>2. m.call = c /\ m.what = Purpose(c) /\ r.call = c /\ r.what = Purpose(c)
    BY <1>1, <1>3, <2>1 DEF OwnRequest, Asked
  <2> QED
    BY <1>1, <2>1, <2>2 DEF Requests
<1> QED
  BY <1>2, <1>3

\* A server speaks.
LEMMA DebtsSpeaks ==
  ASSUME WellFormed, Traffic, Debts, NEW p \in Servers, Speaks(p)
  PROVE  Debts'
<1>1. /\ \A q \in Servers : Asked(q)' \subseteq Asked(q) /\ owed'[q] \subseteq owed[q]
      /\ \A q \in Servers : q # p => outbox'[q] = outbox[q]
      /\ UNCHANGED <<job, request_id, inbox, alive>>
  BY SpeaksAdds
<1>2. alive \subseteq Servers /\ Sound \subseteq Servers
  BY SoundServers
<1>3. strayed \subseteq strayed' /\ Sound' \subseteq Sound
  BY <1>1 DEF Speaks, Sound
<1>4. ASSUME NEW q \in alive', NEW l \in Elems(outbox'[q]), l.how = "stray"
      PROVE  q \in strayed'
  <2>1. q \in Servers /\ q \in alive
    BY <1>1, <1>2, <1>4
  <2>2. CASE l \in Elems(outbox[q])
    BY <1>3, <1>4, <2>1, <2>2 DEF Debts
  <2>3. CASE q = p /\ strayed' = strayed \cup {p}
    BY <2>3
  <2>4. ASSUME q = p, NEW r \in owed[p], r \in Requests, Writes(p, Replies(r))
        PROVE  l \in Elems(outbox[q])
    BY <1>4, <2>4, RepliesAbout DEF Writes
  <2> QED
    BY <1>1, <1>4, <2>1, <2>2, <2>3, <2>4 DEF Speaks
<1>5. Idle' => \A q \in Sound' : Asked(q)' = {}
  BY <1>1, <1>2, <1>3 DEF Debts, Idle, Waits, At
<1>6. ASSUME NEW c \in Calls, Waits(c)', NEW q \in Sound' PROVE LastOnly(q)'
  <2>1. Waits(c) /\ q \in Sound /\ q \in Servers /\ LastOnly(q)
    BY <1>1, <1>2, <1>3, <1>6 DEF Debts, Waits
  <2>2. CASE q # p
    BY <1>1, <2>1, <2>2 DEF LastOnly
  <2>3. CASE q = p
    <3>1. p \notin strayed'
      BY <1>6, <2>3 DEF Sound
    <3> PICK r \in owed[p] : owed' = [owed EXCEPT ![p] = @ \ {r}]
      BY <3>1 DEF Speaks
    <3>2. owed[p] = {r} /\ \A m \in Elems(inbox[p]) : m.what = "notice"
      BY <2>1, <2>3, LastAnswered
    <3>3. owed'[p] = {}
      BY <3>2 DEF WellFormed, TypeOK
    <3>4. Asked(p)' = {}
      BY <1>1, <3>2, <3>3 DEF Asked
    <3> QED
      BY <2>3, <3>3, <3>4 DEF LastOnly
  <2> QED
    BY <2>2, <2>3
<1> QED
  BY <1>4, <1>5, <1>6 DEF Debts

\* Every step keeps the debts.
LEMMA DebtsStep == WellFormed /\ Traffic /\ Debts /\ [Next]_vars => Debts'
<1> SUFFICES ASSUME WellFormed, Traffic, Debts, [Next]_vars PROVE Debts'
  OBVIOUS
<1>1. ASSUME NEW c \in Calls, ClientStep(c) PROVE Debts'
  BY <1>1, ClientForms, DebtsClientQuieter, DebtsSends, DebtsGreets
<1>2. ASSUME NEW p \in Servers, ServerStep(p) PROVE Debts'
  BY <1>2, ServerForms, ReplyWrites, ChatterWrites, DebtsTakes, DebtsSpeaks, DebtsExit
  DEF Speaks
<1>3. CASE UNCHANGED vars
  BY <1>3, DebtsExit
<1> QED
  BY <1>1, <1>2, <1>3 DEF Next

\* When a request is about to be sent, the process owes no answer to an earlier
\* one and has none left to read, unless it wrote a line on which the client
\* gave up without noticing that the process had failed.
THEOREM NoDebts == Spec => []NothingOwed
<1>1. WellFormed /\ Debts => NothingOwed
  <2> SUFFICES ASSUME WellFormed, Debts, NEW c \in Calls,
                      At(c, "request") \/ At(c, "initialize"), proc \notin strayed
               PROVE  /\ owed[proc] = {}
                      /\ \A i \in DOMAIN inbox[proc] : inbox[proc][i].what = "notice"
    BY DEF NothingOwed
  <2>1. proc \in Servers
    BY DEF WellFormed, CallOK, At, Bound, Holding
  <2>2. Idle
    <3>1. \A d \in Calls \ {c} : job[d].at \notin Holding
      BY OneHolds DEF At, Holding
    <3> QED
      BY <3>1 DEF Idle, Waits, At, Holding
  <2>3. Asked(proc) = {}
    BY <2>1, <2>2, EndedAsksNothing DEF Debts, Sound
  <2> QED
    BY <2>3 DEF Asked, Elems
<1>2. Spec => [](WellFormed /\ Traffic /\ Debts)
  <2>1. Init => WellFormed /\ Traffic /\ Debts
    BY WellFormedInit, TrafficInit, DebtsInit
  <2>2. WellFormed /\ Traffic /\ Debts /\ [Next]_vars => (WellFormed /\ Traffic /\ Debts)'
    BY WellFormedStep, TrafficStep, DebtsStep
  <2> QED
    BY <2>1, <2>2, PTL DEF Spec
<1> QED
  BY <1>1, <1>2, PTL

-----------------------------------------------------------------------------
(* A tool call is executed at most once for each attempt.                  *)

\* The numbers of the requests of c that no process has taken yet.
Queued(c) ==
  {n \in 0..request_id : \E p \in Servers : \E m \in Elems(inbox[p]) :
     m.what = "request" /\ m.call = c /\ m.id = n}

\* Requests that the attempt of c under way may have sent.
Sent(c) ==
  IF job[c].at \in {"write", "await_result", "terminate", "close", "done"} THEN 1 ELSE 0

\* What has been executed and what may still be does not exceed what was sent.
Counted(c) == executed[c] + Cardinality(Queued(c)) <= job[c].retries + Sent(c)

\* The numbers are finitely many.
LEMMA QueuedFinite ==
  ASSUME WellFormed, NEW c
  PROVE  IsFiniteSet(Queued(c)) /\ Cardinality(Queued(c)) \in Nat
<1>1. request_id \in Int /\ 0 \in Int
  BY DEF WellFormed, TypeOK
<1>2. IsFiniteSet(0..request_id)
  BY <1>1, FS_Interval
<1>3. Queued(c) \subseteq 0..request_id
  BY DEF Queued
<1> QED
  BY <1>2, <1>3, FS_Subset, FS_CardinalityType

\* So are they after a step.
LEMMA QueuedFiniteNext ==
  ASSUME WellFormed', NEW c
  PROVE  IsFiniteSet(Queued(c)') /\ Cardinality(Queued(c))' \in Nat
<1>1. request_id' \in Int /\ 0 \in Int
  BY DEF WellFormed, TypeOK
<1>2. IsFiniteSet(0..request_id')
  BY <1>1, FS_Interval
<1>3. Queued(c)' \subseteq 0..request_id'
  BY DEF Queued
<1> QED
  BY <1>2, <1>3, FS_Subset, FS_CardinalityType

\* Nothing is sent to begin with.
LEMMA CountedInit == Init => \A c \in ToolRequests : Counted(c)
<1> SUFFICES ASSUME Init, NEW c \in ToolRequests PROVE Counted(c)
  OBVIOUS
<1>1. Queued(c) = {}
  BY ElemsOfEmpty DEF Init, Queued
<1>2. Cardinality(Queued(c)) = 0
  BY <1>1, FS_EmptySet
<1>3. c \in Calls
  BY DEF Calls
<1> QED
  BY <1>2, <1>3 DEF Init, Counted, Sent, NewJob

\* A step that executes and sends nothing of c.
LEMMA CountedStays ==
  ASSUME WellFormed, WellFormed', NEW c \in ToolRequests, Counted(c),
         Queued(c)' \subseteq Queued(c), executed'[c] = executed[c],
         job[c].retries + Sent(c) <= job'[c].retries + Sent(c)'
  PROVE  Counted(c)'
<1>1. Cardinality(Queued(c))' <= Cardinality(Queued(c))
  BY QueuedFinite, FS_Subset
<1>2. /\ Cardinality(Queued(c)) \in Nat /\ Cardinality(Queued(c))' \in Nat
      /\ executed[c] \in Nat
      /\ job[c].retries \in Nat /\ job'[c].retries \in Nat
      /\ Sent(c) \in Nat /\ Sent(c)' \in Nat
  BY QueuedFinite, QueuedFiniteNext DEF WellFormed, TypeOK, Calls, Sent
<1> QED
  BY <1>1, <1>2 DEF Counted

\* A quiet step queues nothing.
LEMMA QuieterQueues ==
  ASSUME Quieter, NEW c
  PROVE  Queued(c)' \subseteq Queued(c)
<1>1. \A p \in Servers : Elems(inbox'[p]) \subseteq Elems(inbox[p])
  BY QuieterAsks
<1> QED
  BY <1>1 DEF Queued, Quieter

\* What may have been sent in an attempt is counted when it is retried.
LEMMA AttemptsCounted ==
  ASSUME WellFormed, NEW d \in Calls, NEW c \in ToolRequests,
         \/ Passes(d) \/ Goes(d) \/ Kills(d) \/ Closes(d)
         \/ \E p \in Servers : Starts(d, p)
         \/ \E a : GivesUp(d, a)
  PROVE  job[c].retries + Sent(c) <= job'[c].retries + Sent(c)'
<1>1. c \in Calls /\ job[c].retries \in Nat
  BY JobsTyped DEF Calls
<1>2. OnlyJob(d)
  BY DEF Passes, Goes, Kills, Closes, Starts, GivesUp, Moves, Leaves
<1>3. CASE c # d
  BY <1>1, <1>2, <1>3 DEF OnlyJob, Sent
<1>4. CASE c = d
  <2>1. CASE Passes(c)
    BY <1>1, <2>1 DEF Passes, At, Sent
  <2>2. CASE Goes(c)
    <3>1. \/ job[c].at = "start" /\ job'[c].at \in {"request", "initialize"}
          \/ job'[c].at \in {"await_result", "terminate"}
      BY <2>2 DEF Goes, Moves, At
    <3>2. job'[c].retries = job[c].retries
      BY <2>2 DEF Goes, Moves
    <3> QED
      BY <1>1, <3>1, <3>2 DEF Sent
  <2>3. CASE Kills(c)
    BY <1>1, <2>3 DEF Kills, Moves, At, Sent
  <2>4. CASE Leaves(c, Failed) \/ \E a : Leaves(c, a)
    BY <1>1, <2>4 DEF Leaves, Sent
  <2>5. CASE \E p \in Servers : Starts(c, p)
    <3>1. /\ job[c].at = "start" /\ job'[c].at = "initialize"
          /\ job'[c].retries = job[c].retries
      BY <2>5 DEF Starts, Moves, At
    <3> QED
      BY <1>1, <3>1 DEF Sent
  <2> QED
    BY <1>4, <2>1, <2>2, <2>3, <2>4, <2>5 DEF Closes, GivesUp
<1> QED
  BY <1>3, <1>4

\* A request is sent.
LEMMA CountedSends ==
  ASSUME WellFormed, WellFormed', Traffic, NEW d \in Calls, Sends(d),
         NEW c \in ToolRequests, Counted(c)
  PROVE  Counted(c)'
<1> DEFINE m == Request(request_id + 1, job[d].at, d)
<1>1. /\ proc \in Servers /\ request_id \in Nat /\ request_id' = request_id + 1
      /\ request_id + 1 \in Nat /\ c \in Calls
      /\ job[d].at \in {"initialize", "request"}
      /\ inbox' = [inbox EXCEPT ![proc] = Append(@, m)]
      /\ executed'[c] = executed[c]
  BY DEF Sends, Running, At, history, WellFormed, TypeOK, Calls
<1>2. m \in Requests /\ m.id = request_id + 1 /\ m.what = job[d].at /\ m.call = d
  BY <1>1, MessageTyped DEF What
<1> HIDE DEF m
<1>3. \A p \in Servers : Elems(inbox'[p]) \subseteq Elems(inbox[p]) \cup {m}
  BY <1>1, <1>2, InboxWritten
<1>4. ASSUME NEW n \in Queued(c)', n \notin Queued(c)
      PROVE  n = request_id + 1 /\ c = d /\ job[d].at = "request"
  <2>1. PICK p \in Servers : \E k \in Elems(inbox'[p]) :
          k.what = "request" /\ k.call = c /\ k.id = n
    BY <1>4 DEF Queued
  <2>2. PICK k \in Elems(inbox'[p]) : k.what = "request" /\ k.call = c /\ k.id = n
    BY <2>1
  <2>3. k \notin Elems(inbox[p])
    <3> SUFFICES ASSUME k \in Elems(inbox[p]) PROVE FALSE
      OBVIOUS
    <3>1. k \in Requests /\ k.id <= request_id
      BY TrafficTyped DEF Traffic, Numbered
    <3>2. n \in 0..request_id
      BY <1>1, <2>2, <3>1 DEF Requests
    <3> QED
      BY <1>4, <2>2, <3>2 DEF Queued
  <2>4. k = m
    BY <1>3, <2>2, <2>3
  <2> QED
    BY <1>2, <2>2, <2>4
<1>5. CASE c = d /\ job[d].at = "request"
  <2>1. Queued(c)' \subseteq Queued(c) \cup {request_id + 1}
    BY <1>4
  <2>2. IsFiniteSet(Queued(c)) /\ Cardinality(Queued(c)) \in Nat
    BY QueuedFinite
  <2>3. /\ IsFiniteSet(Queued(c) \cup {request_id + 1})
        /\ Cardinality(Queued(c) \cup {request_id + 1}) <= Cardinality(Queued(c)) + 1
    <3>1. /\ IsFiniteSet(Queued(c) \cup {request_id + 1})
          /\ Cardinality(Queued(c) \cup {request_id + 1}) =
               IF request_id + 1 \in Queued(c) THEN Cardinality(Queued(c))
               ELSE Cardinality(Queued(c)) + 1
      BY <2>2, FS_AddElement
    <3> HIDE DEF Queued
    <3> QED
      BY <2>2, <3>1
  <2>4. /\ Cardinality(Queued(c) \cup {request_id + 1}) \in Nat
        /\ Cardinality(Queued(c))' <= Cardinality(Queued(c) \cup {request_id + 1})
    BY <2>1, <2>3, FS_Subset, FS_CardinalityType
  <2>5. Sent(c) = 0 /\ Sent(c)' = 1 /\ job'[c].retries = job[c].retries
    BY <1>5 DEF Sends, Sent, At
  <2>6. /\ Cardinality(Queued(c))' \in Nat
        /\ executed[c] \in Nat /\ job[c].retries \in Nat
    BY <1>1, QueuedFiniteNext, JobsTyped DEF WellFormed, TypeOK
  <2>7. executed[c] + Cardinality(Queued(c)) <= job[c].retries + 0
    BY <2>5 DEF Counted
  <2>8. executed[c] + Cardinality(Queued(c))' <= job[c].retries + 1
    BY <2>2, <2>3, <2>4, <2>6, <2>7
  <2> QED
    BY <1>1, <2>5, <2>8 DEF Counted
<1>6. CASE ~(c = d /\ job[d].at = "request")
  <2>1. Queued(c)' \subseteq Queued(c)
    BY <1>4, <1>6
  <2>2. job'[c].retries = job[c].retries /\ job[c].retries \in Nat
    BY <1>1, JobsTyped DEF Sends, OnlyJob
  <2>3. Sent(c)' = Sent(c)
    <3>1. CASE c # d
      BY <1>1, <3>1 DEF Sends, OnlyJob, Sent
    <3>2. CASE c = d /\ job[d].at = "initialize"
      BY <3>2 DEF Sends, At, Sent
    <3> QED
      BY <1>1, <1>6, <3>1, <3>2
  <2>4. job[c].retries + Sent(c) <= job'[c].retries + Sent(c)'
    BY <2>2, <2>3 DEF Sent
  <2> QED
    BY <1>1, <2>1, <2>4, CountedStays
<1> QED
  BY <1>5, <1>6

\* The notification is sent.
LEMMA CountedGreets ==
  ASSUME WellFormed, WellFormed', NEW d \in Calls, Greets(d),
         NEW c \in ToolRequests, Counted(c)
  PROVE  Counted(c)'
<1> DEFINE m == Request(0, "notice", d)
<1>1. /\ proc \in Servers /\ c \in Calls
      /\ inbox' = [inbox EXCEPT ![proc] = Append(@, m)]
      /\ UNCHANGED <<executed, request_id>>
  BY DEF Greets, Running, history, WellFormed, TypeOK, Calls
<1>2. m \in Requests /\ m.what = "notice"
  BY MessageTyped DEF What
<1> HIDE DEF m
<1>3. \A p \in Servers : Elems(inbox'[p]) \subseteq Elems(inbox[p]) \cup {m}
  BY <1>1, <1>2, InboxWritten
<1>4. Queued(c)' \subseteq Queued(c)
  BY <1>1, <1>2, <1>3 DEF Queued
<1>5. job'[c].retries = job[c].retries /\ job[c].retries \in Nat
  BY <1>1, JobsTyped DEF Greets, Moves, OnlyJob
<1>6. Sent(c)' = Sent(c)
  BY <1>1 DEF Greets, Moves, OnlyJob, At, Sent
<1>7. job[c].retries + Sent(c) <= job'[c].retries + Sent(c)'
  BY <1>5, <1>6 DEF Sent
<1> QED
  BY <1>1, <1>4, <1>7, CountedStays

\* A server takes its next request, and runs it if it is a tool call.
LEMMA CountedTakes ==
  ASSUME WellFormed, WellFormed', Traffic, NEW p \in Servers, NEW r, Takes(p, r),
         NEW c \in ToolRequests, Counted(c)
  PROVE  Counted(c)'
<1>1. /\ UNCHANGED <<job, request_id>> /\ c \in Calls /\ r \in Requests
      /\ inbox[p] \in Seq(Requests) /\ inbox[p] # <<>> /\ r = Head(inbox[p])
      /\ inbox'[p] = Tail(inbox[p]) /\ p \in alive
      /\ executed'[c] = IF r.what = "request" /\ r.call = c THEN executed[c] + 1
                        ELSE executed[c]
  BY DEF Takes, ClientSame, Calls, WellFormed, TypeOK
<1>2. \A q \in Servers : Elems(inbox'[q]) \subseteq Elems(inbox[q])
  BY TakesAsks
<1>3. Queued(c)' \subseteq Queued(c)
  BY <1>1, <1>2 DEF Queued
<1>4. Sent(c)' = Sent(c) /\ Sent(c) \in Nat /\ job[c].retries \in Nat
      /\ executed[c] \in Nat
  BY <1>1, JobsTyped DEF Sent, WellFormed, TypeOK
<1>5. CASE r.what = "request" /\ r.call = c
  <2>1. r.id \in Queued(c)
    <3>1. r \in Elems(inbox[p]) /\ r.id <= request_id /\ request_id \in Nat /\ r.id \in Nat
      BY <1>1, TakesAsks, TrafficTyped DEF Traffic, Numbered, Requests
    <3> QED
      BY <1>5, <3>1 DEF Queued
  <2>2. r.id \notin Queued(c)'
    <3>1. \A i, j \in DOMAIN inbox[p] : i < j /\ inbox[p][j].what # "notice"
            => inbox[p][i].id < inbox[p][j].id
      BY DEF Traffic, Numbered
    <3>2. \A m \in Elems(inbox'[p]) : m.what # "notice" => r.id < m.id
      BY <1>1, <3>1, NumberedTail
    <3>3. \A q \in Servers : q # p => Elems(inbox'[q]) = {}
      <4>1. p = proc /\ \A q \in Servers : q # p => inbox[q] = <<>>
        BY <1>1 DEF WellFormed, OnlyProc
      <4> QED
        BY <1>2, <4>1, ElemsOfEmpty
    <3>4. \A m \in Elems(inbox'[p]) : m.what = "request" => m.id # r.id
      <4>1. r.id \in Nat /\ \A m \in Elems(inbox'[p]) : m.id \in Nat
        BY <1>1, <1>2, TrafficTyped DEF Requests
      <4> QED
        BY <3>2, <4>1
    <3> QED
      BY <3>3, <3>4 DEF Queued
  <2>3. IsFiniteSet(Queued(c)) /\ Cardinality(Queued(c)) \in Nat
    BY QueuedFinite
  <2>4. /\ IsFiniteSet(Queued(c) \ {r.id})
        /\ Cardinality(Queued(c) \ {r.id}) = Cardinality(Queued(c)) - 1
    BY <2>1, <2>3, FS_RemoveElement
  <2>5. Cardinality(Queued(c))' <= Cardinality(Queued(c) \ {r.id})
    <3>1. Queued(c)' \subseteq Queued(c) \ {r.id}
      BY <1>3, <2>2
    <3> QED
      BY <2>4, <3>1, FS_Subset
  <2>6. Cardinality(Queued(c))' \in Nat
    BY QueuedFiniteNext
  <2> QED
    <3>1. executed'[c] = executed[c] + 1
      BY <1>1, <1>5
    <3>2. job'[c].retries = job[c].retries
      BY <1>1
    <3>3. Cardinality(Queued(c))' <= Cardinality(Queued(c)) - 1
      BY <2>4, <2>5
    <3>4. executed[c] + Cardinality(Queued(c)) <= job[c].retries + Sent(c)
      BY DEF Counted
    <3>5. Sent(c)' = Sent(c) /\ Sent(c) \in Nat /\ job[c].retries \in Nat
          /\ executed[c] \in Nat
      BY <1>4
    <3> HIDE DEF Queued, Sent
    <3>6. executed'[c] + Cardinality(Queued(c))' <= job'[c].retries + Sent(c)'
      BY <2>3, <2>6, <3>1, <3>2, <3>3, <3>4, <3>5
    <3> QED
      BY <3>6 DEF Counted
<1>6. CASE ~(r.what = "request" /\ r.call = c)
  <2>1. executed'[c] = executed[c]
    BY <1>1, <1>6
  <2>2. job[c].retries + Sent(c) <= job'[c].retries + Sent(c)'
    BY <1>1, <1>4
  <2> QED
    BY <1>3, <2>1, <2>2, CountedStays
<1> QED
  BY <1>5, <1>6

\* A step that is none of these and leaves the calls alone.
LEMMA CountedOthers ==
  ASSUME WellFormed, WellFormed', NEW c \in ToolRequests, Counted(c),
         UNCHANGED <<job, request_id, executed>>,
         \A q \in Servers : Elems(inbox'[q]) \subseteq Elems(inbox[q])
  PROVE  Counted(c)'
<1>1. Queued(c)' \subseteq Queued(c)
  BY DEF Queued
<1>2. Sent(c)' = Sent(c) /\ Sent(c) \in Nat /\ job[c].retries \in Nat
  BY JobsTyped DEF Sent, Calls
<1> QED
  BY <1>1, <1>2, CountedStays

\* Every step keeps the count.
LEMMA CountedStep ==
  ASSUME WellFormed, WellFormed', Traffic, [Next]_vars, NEW c \in ToolRequests, Counted(c)
  PROVE  Counted(c)'
<1>1. ASSUME NEW d \in Calls, ClientStep(d) PROVE Counted(c)'
  <2>1. CASE \/ Passes(d) \/ Goes(d) \/ Kills(d) \/ Closes(d)
             \/ \E p \in Servers : Starts(d, p)
             \/ \E a : GivesUp(d, a)
    <3>1. Quieter
      BY <2>1, ClientQuieter
    <3>2. executed'[c] = executed[c] /\ Queued(c)' \subseteq Queued(c)
      BY <3>1, QuieterQueues DEF Quieter
    <3>3. job[c].retries + Sent(c) <= job'[c].retries + Sent(c)'
      BY <2>1, AttemptsCounted
    <3> QED
      BY <3>2, <3>3, CountedStays
  <2> QED
    BY <1>1, <2>1, ClientForms, CountedSends, CountedGreets
<1>2. ASSUME NEW p \in Servers, ServerStep(p) PROVE Counted(c)'
  <2>1. CASE Speaks(p)
    BY <2>1, SpeaksAdds, CountedOthers
  <2>2. CASE Exit(p)
    BY <2>2, ExitQuieter, QuieterAsks, CountedOthers DEF Quieter, Exit
  <2> QED
    BY <1>2, <2>1, <2>2, ServerForms, ReplyWrites, ChatterWrites, CountedTakes DEF Speaks
<1>3. CASE UNCHANGED vars
  BY <1>3, CountedOthers DEF vars, client, server, history
<1> QED
  BY <1>1, <1>2, <1>3 DEF Next

\* A tool call is executed at most once for each attempt of the gateway, however
\* many of its requests were given up, left in a pipe or answered late.
THEOREM NoReplay == Spec => []NotReplayed
<1> DEFINE I == WellFormed /\ Traffic /\ \A c \in ToolRequests : Counted(c)
<1>1. Init => I
  BY WellFormedInit, TrafficInit, CountedInit
<1>2. I /\ [Next]_vars => I'
  <2> SUFFICES ASSUME I, [Next]_vars PROVE I'
    OBVIOUS
  <2>1. WellFormed' /\ Traffic'
    BY WellFormedStep, TrafficStep
  <2>2. \A c \in ToolRequests : Counted(c)'
    BY <2>1, CountedStep
  <2> QED
    BY <2>1, <2>2
<1>3. I => NotReplayed
  <2> SUFFICES ASSUME I, NEW c \in ToolRequests
               PROVE  executed[c] <= 1 + job[c].retries
    BY DEF NotReplayed
  <2>1. /\ executed[c] \in Nat /\ job[c].retries \in Nat /\ Sent(c) \in {0, 1}
        /\ Cardinality(Queued(c)) \in Nat
    BY QueuedFinite, JobsTyped DEF WellFormed, TypeOK, Calls, Sent
  <2>2. executed[c] + Cardinality(Queued(c)) <= job[c].retries + Sent(c)
    BY DEF Counted
  <2> QED
    BY <2>1, <2>2
<1> QED
  BY <1>1, <1>2, <1>3, PTL DEF Spec
=============================================================================
