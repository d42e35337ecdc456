----------------------------- MODULE ToolCalls -----------------------------
(***************************************************************************)
(* A tool call from ToolGateway.call through StdioMCPClient to an MCP      *)
(* server at the other end of a pair of pipes.                             *)
(*                                                                         *)
(* The threads of the application share the client: each holds its lock    *)
(* from the start of a request to the end of the clean-up after it.  A     *)
(* child process that has failed is terminated and a new one is started by *)
(* the next request.  The server is external: it may answer, refuse,       *)
(* answer garbage, answer twice, late or never, write what nobody asked    *)
(* for, or exit.  It may stop reading as well: say because it is stuck     *)
(* writing to its stderr, whose reader needs the client's lock.            *)
(*                                                                         *)
(* executed and strayed are history variables: how often a server has run  *)
(* a tool call, and which processes have written a line that is JSON but   *)
(* not an object.                                                          *)
(***************************************************************************)
EXTENDS Naturals, Sequences, FiniteSets

CONSTANTS
  ToolRequests,  \* ToolGateway.call of a tool of the server
  Discoveries,   \* ToolGateway.discover_mcp_tools
  Servers,       \* child processes
  MaxRetries,    \* retry_policy["max_retries"] of the tool of each request
  Long,          \* tool requests that are longer than what a pipe takes
  Room,          \* how many of the other requests a pipe takes unread
  MaxUnread,     \* bound: unread lines to which a server adds unasked
  Wrapped,       \* TRUE: the command starts the server as a child of its own,
                 \* which survives it and keeps the pipes open
  NoServer, NoCall

Calls == ToolRequests \cup Discoveries

ASSUME ToolCallsAssumption ==
  /\ ToolRequests \cap Discoveries = {}
  /\ MaxRetries \in [ToolRequests -> Nat] /\ MaxUnread \in Nat
  /\ Long \subseteq ToolRequests /\ Room \in Nat \ {0}
  /\ Wrapped \in BOOLEAN
  /\ NoServer \notin Servers
  /\ NoCall \notin Calls

VARIABLES
  registered,  \* the tools of the server are in the registry of the gateway
  job,         \* where each call is
  answer,      \* what each call was answered
  lock,        \* the call that holds the client's lock
  proc,        \* the client's child process
  initialized, \* the client takes the handshake with proc for done
  request_id,
  alive,       \* child processes that run
  greeted,     \* child processes that have seen notifications/initialized
  owed,        \* requests a child process is working on
  inbox, outbox, \* the pipes of each child process
  strayed, executed

gateway == <<registered, answer>>
client == <<lock, proc, initialized, request_id>>
server == <<alive, greeted, owed, inbox, outbox>>
history == <<strayed, executed>>
vars == <<gateway, job, client, server, history>>

What == {"initialize", "notice", "request"}
Request(id, what, c) == [id |-> id, what |-> what, call |-> c]

\* A line of the server: to which request it answers, and how.  "refused" is a
\* result that reports a failure: isError of a tool, a tool list that is none,
\* a protocol version that is not supported.  "garbage" is every line that
\* _request itself turns down, an error response included; "stray" is JSON that
\* is no object, on which it raises what no client method catches.
Line(r, how) == [id |-> r.id, what |-> r.what, call |-> r.call, how |-> how]
How == {"result", "refused", "garbage", "stray"}
Unasked(how) == Line(Request(0, "notice", NoCall), how)

NoAnswer == [how |-> "none", what |-> "notice", call |-> NoCall]
Failed == [NoAnswer EXCEPT !.how = "failed"]
AnsweredBy(line) == [how |-> "result", what |-> line.what, call |-> line.call]

\* Where a call is: its next step, the id of its last request, the retry_count
\* of the gateway, the attempt of list_tools, and whether a thread it has given
\* up still reads from the pipe.
NewJob(at, retries) == [at |-> at, id |-> 0, retries |-> retries,
                        attempt |-> 1, reading |-> FALSE]

Init ==
  /\ registered = FALSE
  /\ job = [c \in Calls |-> NewJob("gateway", 0)]
  /\ answer = [c \in Calls |-> NoAnswer]
  /\ lock = NoCall /\ proc = NoServer /\ initialized = FALSE
  /\ request_id = 0
  /\ alive = {} /\ greeted = {} /\ owed = [p \in Servers |-> {}]
  /\ inbox = [p \in Servers |-> <<>>] /\ outbox = [p \in Servers |-> <<>>]
  /\ strayed = {} /\ executed = [c \in Calls |-> 0]

At(c, p) == job[c].at = p
Goto(c, p) == job' = [job EXCEPT ![c].at = p]
Running == proc \in alive

-----------------------------------------------------------------------------
(* ToolGateway.                                                            *)

\* The end of a call; the caller lets go of the lock.
Answer(c, a) ==
  /\ job' = [job EXCEPT ![c] = NewJob("done", @.retries)]
  /\ answer' = [answer EXCEPT ![c] = a]
  /\ lock' = NoCall

\* A tool that is not registered fails at once.
Lookup(c) ==
  /\ At(c, "gateway")
  /\ IF c \in Discoveries \/ registered
     THEN Goto(c, "lock") /\ UNCHANGED answer
     ELSE Goto(c, "done") /\ answer' = [answer EXCEPT ![c] = Failed]
  /\ UNCHANGED <<registered, client, server, history>>

\* Faulty: one retry too many.
RetryOrFailOneMore(c) ==
  IF job[c].retries <= MaxRetries[c]
  THEN /\ job' = [job EXCEPT ![c] = NewJob("lock", @.retries + 1)]
       /\ lock' = NoCall
       /\ UNCHANGED answer
  ELSE Answer(c, Failed)

\* The loop of _call_mcp_with_retry: the lock is free between two attempts.
RetryOrFail(c) ==
  IF job[c].retries < MaxRetries[c]
  THEN /\ job' = [job EXCEPT ![c] = NewJob("lock", @.retries + 1)]
       /\ lock' = NoCall
       /\ UNCHANGED answer
  ELSE Answer(c, Failed)

-----------------------------------------------------------------------------
(* StdioMCPClient.                                                         *)

Acquire(c) ==
  /\ At(c, "lock") /\ lock = NoCall
  /\ lock' = c
  /\ Goto(c, "start")
  /\ UNCHANGED <<gateway, proc, initialized, request_id, server, history>>

\* _ensure_started, with a process that runs.
AlreadyStarted(c) ==
  /\ At(c, "start") /\ Running
  /\ Goto(c, IF initialized THEN "request" ELSE "initialize")
  /\ UNCHANGED <<gateway, client, server, history>>

\* A fresh process with empty pipes.
NewProcess(p) ==
  /\ p \notin alive
  /\ alive' = alive \cup {p}
  /\ outbox' = [q \in Servers |-> <<>>]
  /\ proc' = p
  /\ UNCHANGED <<greeted, owed, inbox>>

\* A process is gone, and what it knew and had still to read with it.
Gone(p) ==
  /\ alive' = alive \ {p}
  /\ greeted' = greeted \ {p}
  /\ owed' = [owed EXCEPT ![p] = {}]
  /\ inbox' = [inbox EXCEPT ![p] = <<>>]
  /\ strayed' = strayed \ {p}

\* Faulty: takes the handshake of the process before for its own.
StartProcessKeepsInitialized(c) ==
  /\ At(c, "start") /\ ~Running
  /\ \E p \in Servers : NewProcess(p)
  /\ Goto(c, IF initialized THEN "request" ELSE "initialize")
  /\ UNCHANGED <<gateway, lock, initialized, request_id, history>>

\* _start_process.  A process that has exited is left as it is.
StartProcess(c) ==
  /\ At(c, "start") /\ ~Running
  /\ \E p \in Servers : NewProcess(p)
  /\ initialized' = FALSE
  /\ Goto(c, "initialize")
  /\ UNCHANGED <<gateway, lock, request_id, history>>

\* Popen raises, which no client method catches; the gateway does.
StartRaises(c) ==
  /\ At(c, "start") /\ ~Running
  /\ IF c \in ToolRequests THEN RetryOrFail(c) ELSE Answer(c, Failed)
  /\ UNCHANGED <<registered, proc, initialized, request_id, server, history>>

\* The first half of _request: a process that has exited is an error.  The
\* write to a pipe that is full blocks, without a timeout and under the lock.
Send(c) ==
  /\ \/ At(c, "initialize") \/ At(c, "request")
  /\ IF Running
     THEN /\ Len(inbox[proc]) < Room
          /\ request_id' = request_id + 1
          /\ job' = [job EXCEPT ![c].id = request_id + 1,
                       ![c].at = IF At(c, "initialize") THEN "await_handshake"
                                 ELSE IF c \in Long THEN "write" ELSE "await_result"]
          /\ inbox' = [inbox EXCEPT ![proc] =
                         Append(@, Request(request_id + 1, job[c].at, c))]
     ELSE Goto(c, "terminate") /\ UNCHANGED <<request_id, inbox>>
  /\ UNCHANGED <<gateway, lock, proc, initialized,
                 alive, greeted, owed, outbox, history>>

\* The server has not read the request of c to its end.
Unread(c) == \E i \in DOMAIN inbox[proc] : inbox[proc][i].id = job[c].id

\* A long request is written when the server has read it.
Written(c) ==
  /\ At(c, "write") /\ Running /\ ~Unread(c)
  /\ Goto(c, "await_result")
  /\ UNCHANGED <<gateway, client, server, history>>

\* The write fails when nobody has the other end of the pipe any more.
WriteFails(c) ==
  /\ At(c, "write") /\ ~Running /\ ~Wrapped
  /\ Goto(c, "terminate")
  /\ UNCHANGED <<gateway, client, server, history>>

Awaiting(c) == At(c, "await_handshake") \/ At(c, "await_result")
Pending(c) == Awaiting(c) /\ outbox[proc] # <<>>
TakeLine == outbox' = [outbox EXCEPT ![proc] = Tail(@)]

\* Faulty: never looks at the id.
AcceptableAnyId(c, line) == line.how \in {"result", "refused"}

\* What _request lets through.
Acceptable(c, line) ==
  line.how \in {"result", "refused"} /\ line.id = job[c].id

ReceiveUnacceptable(c) ==
  /\ Pending(c)
  /\ Head(outbox[proc]).how # "stray" /\ ~Acceptable(c, Head(outbox[proc]))
  /\ TakeLine
  /\ Goto(c, "terminate")
  /\ UNCHANGED <<gateway, client, alive, greeted, owed, inbox, history>>

\* The exception passes through the client, which leaves the process as it is,
\* to the gateway, or through the discovery.
ReceiveStray(c) ==
  /\ Pending(c) /\ Head(outbox[proc]).how = "stray"
  /\ TakeLine
  /\ IF c \in ToolRequests THEN RetryOrFail(c) ELSE Answer(c, Failed)
  /\ UNCHANGED <<registered, proc, initialized, request_id,
                 alive, greeted, owed, inbox, history>>

\* The second half of _initialize: the version, then the notification, for which
\* there is room: the server has read all that came before its answer.
ReceiveHandshake(c) ==
  /\ At(c, "await_handshake") /\ Pending(c)
  /\ LET line == Head(outbox[proc]) IN
     /\ Acceptable(c, line)
     /\ IF line.how = "result" /\ Running
        THEN /\ inbox' = [inbox EXCEPT ![proc] =
                            Append(@, Request(0, "notice", c))]
             /\ initialized' = TRUE
             /\ Goto(c, "request")
        ELSE Goto(c, "terminate") /\ UNCHANGED <<inbox, initialized>>
  /\ TakeLine
  /\ UNCHANGED <<gateway, lock, proc, request_id, alive, greeted, owed, history>>

\* The answer of tools/call or tools/list.  A refusal fails the attempt (or
\* yields no tools) and leaves the process as it is.
ReceiveResult(c) ==
  /\ At(c, "await_result") /\ Pending(c)
  /\ LET line == Head(outbox[proc]) IN
     /\ Acceptable(c, line)
     /\ IF line.how = "result" THEN Answer(c, AnsweredBy(line))
        ELSE IF c \in ToolRequests THEN RetryOrFail(c) ELSE Answer(c, Failed)
     /\ registered' = (registered \/ (c \in Discoveries /\ line.how = "result"))
  /\ TakeLine
  /\ UNCHANGED <<proc, initialized, request_id,
                 alive, greeted, owed, inbox, history>>

\* The end of the pipe of a process that has exited.
ReceiveEnd(c) ==
  /\ Awaiting(c) /\ outbox[proc] = <<>> /\ ~Running /\ ~Wrapped
  /\ Goto(c, "terminate")
  /\ UNCHANGED <<gateway, client, server, history>>

\* Faulty: waits without a timeout.
TimeoutNever(c) == FALSE

\* Faulty: gives the attempt up and keeps the process.
TimeoutKeepsProcess(c) ==
  /\ Awaiting(c) /\ outbox[proc] = <<>>
  /\ Answer(c, Failed)
  /\ UNCHANGED <<registered, proc, initialized, request_id, server, history>>

\* _readline_with_timeout gives up; its thread goes on reading.
Timeout(c) ==
  /\ Awaiting(c) /\ outbox[proc] = <<>>
  /\ job' = [job EXCEPT ![c].at = "terminate", ![c].reading = TRUE]
  /\ UNCHANGED <<gateway, client, server, history>>

\* Faulty: closes the pipes and lets the process run on.
TerminateNot(c) ==
  /\ At(c, "terminate")
  /\ Goto(c, "close")
  /\ UNCHANGED <<gateway, client, server, history>>

\* _record_failure and _cleanup_process: read what is left of the stderr of a
\* process that has exited, up to the end of the pipe, terminate or kill one
\* that has not ...
Terminate(c) ==
  /\ At(c, "terminate") /\ (Running \/ ~Wrapped)
  /\ Goto(c, "close")
  /\ Gone(proc)
  /\ UNCHANGED <<gateway, client, outbox, executed>>

\* Faulty: a tool call is tried twice, as a discovery is.
AttemptsTwice(c) == 2

\* Attempts under one hold of the lock: list_tools tries again, call_tool does
\* not.
Attempts(c) == IF c \in Discoveries THEN 2 ELSE 1

\* ... then close its pipes.  Closing waits for a thread that is still reading,
\* and that thread for every process that could still write.  (So may closing
\* stderr, if its reader is not just waiting for the lock.)
ClosePipes(c) ==
  /\ At(c, "close") /\ ~(Wrapped /\ job[c].reading)
  /\ proc' = NoServer /\ initialized' = FALSE
  /\ outbox' = [outbox EXCEPT ![proc] = <<>>]
  /\ IF job[c].attempt < Attempts(c)
     THEN /\ job' = [job EXCEPT ![c] = [NewJob("start", 0) EXCEPT !.attempt = 2]]
          /\ UNCHANGED <<lock, answer>>
     ELSE IF c \in ToolRequests THEN RetryOrFail(c) ELSE Answer(c, Failed)
  /\ UNCHANGED <<registered, request_id, alive, greeted, owed, inbox, history>>

-----------------------------------------------------------------------------
(* The server.                                                             *)

\* The server reads its next request; a tool call has its effect now.
Take(p) ==
  /\ p \in alive /\ inbox[p] # <<>>
  /\ LET r == Head(inbox[p]) IN
     /\ IF r.what = "notice"
        THEN greeted' = greeted \cup {p} /\ UNCHANGED owed
        ELSE owed' = [owed EXCEPT ![p] = @ \cup {r}] /\ UNCHANGED greeted
     /\ executed' = IF r.what = "request" /\ r.call \in ToolRequests
                    THEN [executed EXCEPT ![r.call] = @ + 1] ELSE executed
  /\ inbox' = [inbox EXCEPT ![p] = Tail(@)]
  /\ UNCHANGED <<gateway, job, client, alive, outbox, strayed>>

\* It answers a request, once or twice.
Reply(p) ==
  /\ p \in alive
  /\ \E r \in owed[p] :
       /\ owed' = [owed EXCEPT ![p] = @ \ {r}]
       /\ \E lines \in {<<Line(r, "result")>>, <<Line(r, "refused")>>,
                         <<Line(r, "result"), Line(r, "result")>>,
                         <<Unasked("garbage")>>} :
            outbox' = [outbox EXCEPT ![p] = @ \o lines]
  /\ UNCHANGED <<gateway, job, client, alive, greeted, inbox, history>>

\* It writes a line that answers nothing: whatever is no JSON object, say a log.
Chatter(p) ==
  /\ p \in alive /\ Len(outbox[p]) < MaxUnread
  /\ outbox' = [outbox EXCEPT ![p] = Append(@, Unasked("stray"))]
  /\ strayed' = strayed \cup {p}
  /\ UNCHANGED <<gateway, job, client, alive, greeted, owed, inbox, executed>>

\* It exits; what it has written can still be read.
Exit(p) ==
  /\ p \in alive
  /\ Gone(p)
  /\ UNCHANGED <<gateway, job, client, outbox, executed>>

-----------------------------------------------------------------------------
ClientStep(c) ==
  \/ Lookup(c) \/ Acquire(c)
  \/ AlreadyStarted(c) \/ StartProcess(c) \/ StartRaises(c)
  \/ Send(c) \/ Written(c) \/ WriteFails(c)
  \/ ReceiveUnacceptable(c) \/ ReceiveStray(c)
  \/ ReceiveHandshake(c) \/ ReceiveResult(c)
  \/ ReceiveEnd(c) \/ Timeout(c)
  \/ Terminate(c) \/ ClosePipes(c)

ServerStep(p) == Take(p) \/ Reply(p) \/ Chatter(p) \/ Exit(p)

Next == (\E c \in Calls : ClientStep(c)) \/ (\E p \in Servers : ServerStep(p))

Spec == Init /\ [][Next]_vars

\* A thread keeps running, and its waits for an answer end by their timeout at
\* the latest; a write has no timeout, and goes on once the server has read.
\* Nothing is asked of the server.
FairSpec == Spec /\ \A c \in Calls : WF_vars(ClientStep(c))

-----------------------------------------------------------------------------
(* Properties.                                                             *)

Points == {"gateway", "lock", "start", "initialize", "request",
           "write", "await_handshake", "await_result", "terminate", "close", "done"}
Requests == [id : Nat, what : What, call : Calls]
Lines == [id : Nat, what : What, call : Calls \cup {NoCall}, how : How]

\* Calls, pipes and processes are well formed.
TypeOK ==
  /\ registered \in BOOLEAN
  /\ job \in [Calls -> [at : Points, id : Nat, retries : Nat,
                        attempt : 1..2, reading : BOOLEAN]]
  /\ \A c \in ToolRequests : job[c].retries <= MaxRetries[c]
  /\ answer \in [Calls -> [how : {"none", "failed", "result"}, what : What,
                           call : Calls \cup {NoCall}]]
  /\ lock \in Calls \cup {NoCall}
  /\ proc \in Servers \cup {NoServer}
  /\ initialized \in BOOLEAN /\ request_id \in Nat
  /\ alive \subseteq Servers /\ greeted \subseteq Servers
  /\ owed \in [Servers -> SUBSET Requests]
  /\ inbox \in [Servers -> Seq(Requests)]
  /\ outbox \in [Servers -> Seq(Lines)]
  /\ strayed \subseteq Servers /\ executed \in [Calls -> Nat]

\* A call is answered with its own result and no other call's, whatever lines
\* late, repeated or abandoned answers leave behind; and a tool call that
\* succeeds has been executed.
AnswerIsOwn ==
  \A c \in Calls : answer[c].how = "result" =>
    /\ answer[c].what = "request" /\ answer[c].call = c
    /\ c \in ToolRequests => executed[c] > 0

\* A tool call that timed out is not replayed by the client: it is executed at
\* most once for each attempt of the gateway.
NotReplayed == \A c \in ToolRequests : executed[c] <= 1 + job[c].retries

\* When a request is about to be sent, the server owes no answer to an earlier
\* one: a request that was given up takes its process with it.  (A stray line is
\* the exception: the client does not notice that it has failed.)
NothingOwed ==
  \A c \in Calls :
    (At(c, "request") \/ At(c, "initialize")) /\ proc \notin strayed =>
    owed[proc] = {} /\ \A i \in DOMAIN inbox[proc] : inbox[proc][i].what = "notice"

\* A restart starts afresh: the process it replaces has ended, so that no other
\* than the client's runs, and the new one gets no tool request before its
\* handshake.
RestartsClean ==
  /\ alive \subseteq {proc}
  /\ \A p \in Servers : p \notin greeted =>
       \A i \in DOMAIN inbox[p] : inbox[p][i].what = "request" =>
         \E j \in 1..(i - 1) : inbox[p][j].what = "notice"

\* Writing to a server that runs and does not read.
Blocked(c) ==
  /\ Running
  /\ \/ (At(c, "initialize") \/ At(c, "request")) /\ Len(inbox[proc]) >= Room
     \/ At(c, "write") /\ Unread(c)

\* Every call is answered, whatever the server answers or does not, and however
\* it ends, unless one call comes to write to a pipe that the server never reads
\* again: that call and all behind it wait for good.
CallReturns ==
  (\A c \in Calls : <>At(c, "done")) \/ <>[](\E c \in Calls : Blocked(c))
=============================================================================
