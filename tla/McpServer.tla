------------------------------ MODULE McpServer ------------------------------
(***************************************************************************)
(* The MCP server (tools/mcp/mcp_server.cpp, mcp_tools.cpp,                *)
(* mcp_transport.cpp): the thread that reads requests, one detached worker *)
(* per tool call, and one deadline thread per worker.                      *)
(*                                                                         *)
(* A request's id is its key in `requests`; the three threads of a call    *)
(* share a McpRequestControl.  What a tool looks up and how a reply is     *)
(* formatted are abstracted: a tool call either scans the database or      *)
(* updates the index, and a reply is its outcome.                          *)
(*                                                                         *)
(* A section under database_mutex, completion_mutex or write_mutex blocks  *)
(* on nothing, so it is one step.  requests_mutex is held across steps     *)
(* while the main thread cancels calls (RequestsLocked).                   *)
(***************************************************************************)
EXTENDS Integers

CONSTANTS
    Ids,           \* request ids the client uses
    NoId,          \* no request
    MaxMessages,   \* bound: messages the client sends before it closes its end
    OutputFails    \* whether the output may break

ASSUME NoIdAssumption == NoId \notin Ids
ASSUME MessagesAssumption == MaxMessages \in Nat
ASSUME OutputAssumption == OutputFails \in BOOLEAN

VARIABLES
    state,             \* McpServer::state, the initialization handshake
    main,              \* where the thread in McpServer::run is
    target,            \* the request whose control McpRequestControl::cancel works on
    todo,              \* requests that the sweep after a failure has yet to cancel
    requests,          \* ids with a live McpRequestControl
    control,           \* the McpRequestControl of each call, and its deadline thread
    worker,            \* the runTool thread of each call
    updater,           \* the holder of SemindexIndexUpdater::update_mutex
    transport_failed,
    broken,            \* the output stream has failed; it stays failed
    owed,              \* requests read less replies written, by id
    left               \* messages the client may still send

vars == <<state, main, target, todo, requests, control, worker, updater,
          transport_failed, broken, owed, left>>

NoControl == [cancelled |-> FALSE, timed_out |-> FALSE, completed |-> FALSE,
              database |-> FALSE, late |-> FALSE, timer |-> "none"]
NoWorker == [pc |-> "none", tool |-> "scan", handle |-> "closed",
             scan |-> "none", outcome |-> "none"]

Controls == [cancelled : BOOLEAN, timed_out : BOOLEAN, completed : BOOLEAN,
             database : BOOLEAN, late : BOOLEAN,
             timer : {"none", "waiting", "expired", "done"}]
Workers == [pc : {"none", "parse", "reject", "call", "bind", "bound", "ready", "scan",
                  "scanned", "unbind", "close", "lock", "update", "complete", "join",
                  "write", "finish"},
            tool : {"scan", "update"},
            handle : {"closed", "idle", "active", "interrupted"},
            scan : {"none", "complete", "stopped", "interrupted"},
            outcome : {"none", "success", "error", "cancelled", "deadline", "sent"}]

Init ==
    /\ state = "Uninitialized"
    /\ main = "loop"
    /\ target = NoId
    /\ todo = {}
    /\ requests = {}
    /\ control = [i \in Ids |-> NoControl]
    /\ worker = [i \in Ids |-> NoWorker]
    /\ updater = NoId
    /\ transport_failed = FALSE
    /\ broken = FALSE
    /\ owed = [i \in Ids |-> 0]
    /\ left = MaxMessages

RequestsLocked == main \in {"cancel", "sweep"}

\* stopped(): its three reads are of flags that are never reset, so they are one.
Stopped(i) == control[i].cancelled \/ control[i].timed_out \/ control[i].late
StoppedOutcome(i) == IF control[i].cancelled THEN "cancelled" ELSE "deadline"

\* McpTransport::write of a reply to i, and what its caller does when it fails; due is
\* what is owed before.
WriteTo(i, due) ==
    /\ owed' = IF broken THEN due ELSE [due EXCEPT ![i] = @ - 1]
    /\ transport_failed' = (transport_failed \/ broken)

\* sqlite3_interrupt stops a running statement; with none running it does nothing.
AfterInterrupt(i) ==
    IF control[i].database /\ worker[i].handle = "active" THEN "interrupted"
                                                         ELSE worker[i].handle

-----------------------------------------------------------------------------
(* The main thread: McpServer::run and dispatch *)

\* The loop's condition; a failure seen by a worker is noticed here only.
NextMessage ==
    /\ main = "loop"
    /\ main' = IF transport_failed THEN "left" ELSE "read"
    /\ UNCHANGED <<state, target, todo, requests, control, worker, updater,
                   transport_failed, broken, owed, left>>

ReadEndOfFile ==
    /\ main = "read"
    /\ main' = "left"
    /\ UNCHANGED <<state, target, todo, requests, control, worker, updater,
                   transport_failed, broken, owed, left>>

\* An empty or oversized line, a read error, or a log that cannot be written.
ReadError ==
    /\ main = "read"
    /\ transport_failed' = TRUE
    /\ main' = "left"
    /\ UNCHANGED <<state, target, todo, requests, control, worker, updater,
                   broken, owed, left>>

Read ==
    /\ main = "read"
    /\ left > 0
    /\ left' = left - 1

\* What is owed once a request i has been read.
WithRequest(i) == [owed EXCEPT ![i] = @ + 1]

\* A reply without an id: not JSON, not an object, or not a JSON-RPC message.
InvalidMessage ==
    /\ Read
    /\ transport_failed' = (transport_failed \/ broken)
    /\ main' = "loop"
    /\ UNCHANGED <<state, target, todo, requests, control, worker, updater, broken,
                   owed>>

Initialize(i) ==
    /\ Read
    /\ \/ state = "Uninitialized" /\ state' = "AwaitingInitialized"
       \/ UNCHANGED state      \* a repeated or invalid request: an error
    /\ WriteTo(i, WithRequest(i))
    /\ main' = "loop"
    /\ UNCHANGED <<target, todo, requests, control, worker, updater, broken>>

\* notifications/initialized; any other notification has no effect.
Initialized ==
    /\ Read
    /\ \/ state = "AwaitingInitialized" /\ state' = "Running"
       \/ UNCHANGED state
    /\ main' = "loop"
    /\ UNCHANGED <<target, todo, requests, control, worker, updater, transport_failed,
                   broken, owed>>

\* Requests answered at once: ping, tools/list, an unknown method, a call without
\* a name, and every other request before the server runs.
AnswerAtOnce(i) ==
    /\ Read
    /\ WriteTo(i, WithRequest(i))
    /\ main' = "loop"
    /\ UNCHANGED <<state, target, todo, requests, control, worker, updater, broken>>

\* A plausible bug.
CallToolOverwriting(i) ==
    /\ state = "Running"
    /\ Read
    /\ requests' = requests \cup {i}
    /\ control' = [control EXCEPT ![i] = NoControl]
    /\ worker' = [worker EXCEPT ![i] = [NoWorker EXCEPT !.pc = "parse"]]
    /\ owed' = WithRequest(i)
    /\ main' = "loop"
    /\ UNCHANGED <<state, target, todo, updater, transport_failed, broken>>

CallTool(i) ==
    /\ state = "Running"
    /\ Read
    /\ \/ /\ i \in requests     \* "Duplicate request ID"
          /\ WriteTo(i, WithRequest(i))
          /\ UNCHANGED <<requests, control, worker>>
       \/ /\ i \notin requests
          /\ requests' = requests \cup {i}
          /\ control' = [control EXCEPT ![i] = NoControl]
          /\ \E t \in {"scan", "update"} :
                worker' = [worker EXCEPT ![i] = [NoWorker EXCEPT !.pc = "parse", !.tool = t]]
          /\ owed' = WithRequest(i)
          /\ UNCHANGED transport_failed
    /\ main' = "loop"
    /\ UNCHANGED <<state, target, todo, updater, broken>>

\* notifications/cancelled: takes requests_mutex, finds the control, sets cancelled.
Cancel(i) ==
    /\ Read
    /\ IF i \in requests
       THEN /\ main' = "cancel"
            /\ target' = i
            /\ control' = [control EXCEPT ![i].cancelled = TRUE]
       ELSE /\ main' = "loop"
            /\ UNCHANGED <<target, control>>
    /\ UNCHANGED <<state, todo, requests, worker, updater, transport_failed, broken,
                   owed>>

\* The rest of McpRequestControl::cancel, under database_mutex.
InterruptTarget ==
    /\ target # NoId
    /\ worker' = [worker EXCEPT ![target].handle = AfterInterrupt(target)]
    /\ target' = NoId
    /\ main' = IF main = "cancel" THEN "loop" ELSE main
    /\ UNCHANGED <<state, todo, requests, control, updater, transport_failed, broken,
                   owed, left>>

\* After the loop: a failed transport cancels every call, an end of file none.
LeaveLoop ==
    /\ main = "left"
    /\ main' = IF transport_failed THEN "sweep" ELSE "wait"
    /\ todo' = IF transport_failed THEN requests ELSE {}
    /\ UNCHANGED <<state, target, requests, control, worker, updater, transport_failed,
                   broken, owed, left>>

SweepCancel(i) ==
    /\ main = "sweep"
    /\ target = NoId
    /\ i \in todo
    /\ todo' = todo \ {i}
    /\ target' = i
    /\ control' = [control EXCEPT ![i].cancelled = TRUE]
    /\ UNCHANGED <<state, main, requests, worker, updater, transport_failed, broken,
                   owed, left>>

SweepDone ==
    /\ main = "sweep"
    /\ target = NoId
    /\ todo = {}
    /\ main' = "wait"
    /\ UNCHANGED <<state, target, todo, requests, control, worker, updater,
                   transport_failed, broken, owed, left>>

\* A plausible bug.
WaitWorkersNot ==
    /\ main = "wait"
    /\ main' = "exited"
    /\ UNCHANGED <<state, target, todo, requests, control, worker, updater,
                   transport_failed, broken, owed, left>>

\* waitWorkers: tests its predicate under requests_mutex, then sleeps or returns.
WaitWorkers ==
    /\ main = "wait"
    /\ main' = IF requests = {} THEN "exited" ELSE "asleep"
    /\ UNCHANGED <<state, target, todo, requests, control, worker, updater,
                   transport_failed, broken, owed, left>>

MainThread ==
    \/ NextMessage \/ InterruptTarget \/ LeaveLoop \/ SweepDone \/ WaitWorkers
    \/ \E i \in Ids : SweepCancel(i)

Client ==
    \/ ReadEndOfFile \/ ReadError \/ InvalidMessage \/ Initialized
    \/ \E i \in Ids : Initialize(i) \/ AnswerAtOnce(i) \/ CallTool(i) \/ Cancel(i)

-----------------------------------------------------------------------------
(* The worker threads: McpServer::runTool and McpToolService::call *)

\* A worker's step that only changes its own record.
Step(i, w) ==
    /\ worker' = [worker EXCEPT ![i] = w]
    /\ UNCHANGED <<state, main, target, todo, requests, updater, transport_failed,
                   broken, owed, left>>

\* Starts the deadline thread; arguments that are not an object are rejected.
StartWorker(i) ==
    /\ worker[i].pc = "parse"
    /\ control' = [control EXCEPT ![i].timer = "waiting"]
    /\ \E pc \in {"call", "reject"} : Step(i, [worker[i] EXCEPT !.pc = pc])

\* A plausible bug.
RejectThenReply(i) ==
    /\ worker[i].pc = "reject"
    /\ WriteTo(i, owed)
    /\ worker' = [worker EXCEPT ![i].pc = "complete", ![i].outcome = "error"]
    /\ UNCHANGED <<state, main, target, todo, requests, control, updater, broken, left>>

\* The rejection is written before complete(), unlike every other reply.
Reject(i) ==
    /\ worker[i].pc = "reject"
    /\ WriteTo(i, owed)
    /\ worker' = [worker EXCEPT ![i].pc = "complete", ![i].outcome = "sent"]
    /\ UNCHANGED <<state, main, target, todo, requests, control, updater, broken, left>>

\* call() and the first test of reindexFile: stopped already, an unknown tool or
\* an invalid path, a database that does not open, or on to the tool's work.
Call(i) ==
    /\ worker[i].pc = "call"
    /\ UNCHANGED control
    /\ IF Stopped(i)
       THEN Step(i, [worker[i] EXCEPT !.pc = "complete", !.outcome = StoppedOutcome(i)])
       ELSE \/ Step(i, [worker[i] EXCEPT !.pc = "complete", !.outcome = "error"])
            \/ /\ worker[i].tool = "update"
               /\ Step(i, [worker[i] EXCEPT !.pc = "lock"])
            \/ /\ worker[i].tool = "scan"
               /\ Step(i, [worker[i] EXCEPT !.pc = "bind", !.handle = "idle"])

\* McpRequestControl::bind; its interrupt never finds a running statement.
Bind(i) ==
    /\ worker[i].pc = "bind"
    /\ control' = [control EXCEPT ![i].database = TRUE]
    /\ Step(i, [worker[i] EXCEPT !.pc = "bound"])

AfterBind(i) ==
    /\ worker[i].pc = "bound"
    /\ UNCHANGED control
    /\ IF Stopped(i)
       THEN Step(i, [worker[i] EXCEPT !.pc = "unbind", !.outcome = StoppedOutcome(i)])
       ELSE Step(i, [worker[i] EXCEPT !.pc = "ready"])

\* The tool rejects its arguments, or steps a statement for the first time.
BeginStatement(i) ==
    /\ worker[i].pc = "ready"
    /\ UNCHANGED control
    /\ \/ Step(i, [worker[i] EXCEPT !.pc = "unbind", !.outcome = "error"])
       \/ Step(i, [worker[i] EXCEPT !.pc = "scan", !.handle = "active"])

\* A row reaches a collector, which gives up when the call is stopped.
CollectRow(i) ==
    /\ worker[i].pc = "scan"
    /\ Stopped(i)
    /\ UNCHANGED control
    /\ Step(i, [worker[i] EXCEPT !.pc = "scanned", !.handle = "idle", !.scan = "stopped"])

\* The statement has no more rows, or an interrupt has made it fail.
EndStatement(i) ==
    /\ worker[i].pc = "scan"
    /\ UNCHANGED control
    /\ Step(i, [worker[i] EXCEPT
                    !.pc = "scanned", !.handle = "idle",
                    !.scan = IF worker[i].handle = "interrupted" THEN "interrupted"
                                                                 ELSE "complete"])

\* reindexFile waits for update_mutex; a stopped update releases it at once.
LockUpdates(i) ==
    /\ worker[i].pc = "lock"
    /\ updater = NoId
    /\ IF Stopped(i)
       THEN /\ worker' = [worker EXCEPT ![i].pc = "scanned", ![i].scan = "stopped"]
            /\ UNCHANGED updater
       ELSE /\ worker' = [worker EXCEPT ![i].pc = "update"]
            /\ updater' = i
    /\ UNCHANGED <<state, main, target, todo, requests, control, transport_failed, broken,
                   owed, left>>

\* SemindexIndexUpdater::update runs to its end, whatever happens to the call.
Update(i) ==
    /\ worker[i].pc = "update"
    /\ worker' = [worker EXCEPT ![i].pc = "scanned", ![i].scan = "complete"]
    /\ updater' = NoId
    /\ UNCHANGED <<state, main, target, todo, requests, control, transport_failed, broken,
                   owed, left>>

WorkDone(i) == IF worker[i].tool = "scan" THEN "unbind" ELSE "complete"

\* A plausible bug.
AfterWorkUnchecked(i) ==
    /\ worker[i].pc = "scanned"
    /\ UNCHANGED control
    /\ Step(i, [worker[i] EXCEPT !.pc = WorkDone(i), !.outcome = "success"])

\* Every tool tests stopped() after its work and before it looks at the work's result,
\* except that symbol_at answers with a complete result without the test.
AfterWork(i) ==
    /\ worker[i].pc = "scanned"
    /\ UNCHANGED control
    /\ \/ /\ Stopped(i)
          /\ Step(i, [worker[i] EXCEPT !.pc = WorkDone(i), !.outcome = StoppedOutcome(i)])
       \/ /\ ~Stopped(i) \/ (worker[i].scan = "complete" /\ worker[i].tool = "scan")
          /\ Step(i, [worker[i] EXCEPT
                        !.pc = WorkDone(i),
                        !.outcome = IF worker[i].scan = "complete" THEN "success" ELSE "error"])

\* Another statement of the same tool; not every tool tests stopped() in between.
NextStatement(i) ==
    /\ worker[i].pc = "scanned"
    /\ worker[i].tool = "scan"
    /\ worker[i].scan = "complete"
    /\ UNCHANGED control
    /\ Step(i, [worker[i] EXCEPT !.pc = "ready"])

\* A plausible bug.
CloseFirst(i) ==
    /\ worker[i].pc = "unbind"
    /\ UNCHANGED control
    /\ Step(i, [worker[i] EXCEPT !.pc = "close", !.handle = "closed"])

Unbind(i) ==
    /\ worker[i].pc = "unbind"
    /\ control' = [control EXCEPT ![i].database = FALSE]
    /\ Step(i, [worker[i] EXCEPT !.pc = "close"])

Close(i) ==
    /\ worker[i].pc = "close"
    /\ UNCHANGED control
    /\ Step(i, [worker[i] EXCEPT !.pc = "complete", !.handle = "closed"])

\* A plausible bug.
CompleteSilently(i) ==
    /\ worker[i].pc = "complete"
    /\ UNCHANGED control
    /\ Step(i, [worker[i] EXCEPT !.pc = "join"])

Complete(i) ==
    /\ worker[i].pc = "complete"
    /\ control' = [control EXCEPT ![i].completed = TRUE]
    /\ Step(i, [worker[i] EXCEPT !.pc = "join"])

\* deadline.join(); then the flags override what the tool returned.
Join(i) ==
    /\ worker[i].pc = "join"
    /\ control[i].timer = "done"
    /\ UNCHANGED control
    /\ IF worker[i].outcome = "sent"
       THEN Step(i, [worker[i] EXCEPT !.pc = "finish"])
       ELSE Step(i, [worker[i] EXCEPT
                        !.pc = "write",
                        !.outcome = IF control[i].cancelled THEN "cancelled"
                                    ELSE IF control[i].timed_out THEN "deadline"
                                    ELSE @])

WriteReply(i) ==
    /\ worker[i].pc = "write"
    /\ WriteTo(i, owed)
    /\ worker' = [worker EXCEPT ![i].pc = "finish", ![i].outcome = "sent"]
    /\ UNCHANGED <<state, main, target, todo, requests, control, updater, broken, left>>

\* A plausible bug.
FinishUnlocked(i) ==
    /\ worker[i].pc = "finish"
    /\ requests' = requests \ {i}
    /\ control' = [control EXCEPT ![i] = NoControl]
    /\ worker' = [worker EXCEPT ![i] = NoWorker]
    /\ main' = IF main = "asleep" THEN "wait" ELSE main
    /\ UNCHANGED <<state, target, todo, updater, transport_failed, broken, owed, left>>

\* finish(): erases the control and notifies, under requests_mutex; the thread ends.
Finish(i) ==
    /\ worker[i].pc = "finish"
    /\ ~RequestsLocked
    /\ requests' = requests \ {i}
    /\ control' = [control EXCEPT ![i] = NoControl]
    /\ worker' = [worker EXCEPT ![i] = NoWorker]
    /\ main' = IF main = "asleep" THEN "wait" ELSE main
    /\ UNCHANGED <<state, target, todo, updater, transport_failed, broken, owed, left>>

Worker(i) ==
    \/ StartWorker(i) \/ Reject(i) \/ Call(i) \/ Bind(i) \/ AfterBind(i)
    \/ BeginStatement(i) \/ CollectRow(i) \/ EndStatement(i) \/ LockUpdates(i)
    \/ Update(i) \/ AfterWork(i) \/ NextStatement(i) \/ Unbind(i) \/ Close(i)
    \/ Complete(i) \/ Join(i) \/ WriteReply(i) \/ Finish(i)

-----------------------------------------------------------------------------
(* The deadline threads: McpRequestControl::waitForDeadline *)

TimerStep(i, c) ==
    /\ control' = [control EXCEPT ![i] = c]
    /\ UNCHANGED <<state, main, target, todo, requests, updater, transport_failed, broken,
                   owed, left>>

TimerCompleted(i) ==
    /\ control[i].timer = "waiting"
    /\ control[i].completed
    /\ TimerStep(i, [control[i] EXCEPT !.timer = "done"])
    /\ UNCHANGED worker

TimerExpires(i) ==
    /\ control[i].timer = "waiting"
    /\ control[i].late
    /\ ~control[i].completed
    /\ TimerStep(i, [control[i] EXCEPT !.timer = "expired", !.timed_out = TRUE])
    /\ UNCHANGED worker

TimerInterrupts(i) ==
    /\ control[i].timer = "expired"
    /\ worker' = [worker EXCEPT ![i].handle = AfterInterrupt(i)]
    /\ TimerStep(i, [control[i] EXCEPT !.timer = "done"])

DeadlineThread(i) == TimerCompleted(i) \/ TimerExpires(i) \/ TimerInterrupts(i)

-----------------------------------------------------------------------------
(* The environment *)

\* The clock passes the deadline of i; once the call is complete nobody looks.
DeadlinePasses(i) ==
    /\ i \in requests
    /\ ~control[i].completed
    /\ ~control[i].late
    /\ TimerStep(i, [control[i] EXCEPT !.late = TRUE])
    /\ UNCHANGED worker

\* The client closes its end of the output, or the log can no longer be written.
OutputBreaks ==
    /\ OutputFails
    /\ ~broken
    /\ broken' = TRUE
    /\ UNCHANGED <<state, main, target, todo, requests, control, worker, updater,
                   transport_failed, owed, left>>

\* run() has returned: the only state in which nothing is left to do.
Exited == main = "exited" /\ UNCHANGED vars

Next ==
    \/ MainThread \/ Client \/ OutputBreaks \/ Exited
    \/ \E i \in Ids : Worker(i) \/ DeadlineThread(i) \/ DeadlinePasses(i)

Spec == Init /\ [][Next]_vars

\* Every runnable thread runs, and a tool runs finitely many statements; the client,
\* the clock and the output owe nothing.
FairSpec ==
    /\ Spec
    /\ WF_vars(MainThread)
    /\ \A i \in Ids : /\ WF_vars(Worker(i))
                      /\ SF_vars(AfterWork(i))
                      /\ WF_vars(DeadlineThread(i))

-----------------------------------------------------------------------------
(* Properties *)

\* Types.  The controls that the main thread is cancelling are live: cancel() and the
\* sweep keep a reference into `requests` across steps, and finish() erases from it.
TypeOK ==
    /\ state \in {"Uninitialized", "AwaitingInitialized", "Running"}
    /\ main \in {"loop", "read", "cancel", "left", "sweep", "wait", "asleep", "exited"}
    /\ requests \subseteq Ids
    /\ target \in requests \cup {NoId}
    /\ todo \subseteq requests
    /\ control \in [Ids -> Controls]
    /\ worker \in [Ids -> Workers]
    /\ updater \in Ids \cup {NoId}
    /\ transport_failed \in BOOLEAN
    /\ broken \in BOOLEAN
    /\ owed \in [Ids -> 0..MaxMessages]
    /\ left \in 0..MaxMessages

\* A cancelling thread or a deadline thread only ever interrupts an open database
\* handle: call() unbinds the handle before it is closed (~Unbind, ~SemindexDatabase).
InterruptsOpenHandle ==
    \A i \in Ids : control[i].database => worker[i].handle # "closed"

\* A reply tells what happened.  A call whose work was cut short, by an interrupt or by
\* a collector that saw the clock before the deadline thread did, is never answered with
\* rows or with a database error; and only a call that was cancelled, or that is late,
\* is answered as such (runTool's override, the tools' last stopped() test).
AnswerIsTrue ==
    \A i \in Ids : worker[i].pc = "write" =>
        /\ worker[i].scan \in {"stopped", "interrupted"}
              => worker[i].outcome \in {"cancelled", "deadline"}
        /\ worker[i].outcome = "cancelled" => control[i].cancelled
        /\ worker[i].outcome = "deadline" => control[i].late

\* The call of i has a reply still to write.
Unanswered(i) == worker[i].pc # "none" /\ worker[i].outcome # "sent"

\* Each request read is answered exactly once, duplicates and rejections included, as
\* long as the output works; a broken output loses replies but never repeats one.
OneReply ==
    \A i \in Ids :
        LET pending == IF Unanswered(i) THEN 1 ELSE 0 IN
        /\ owed[i] >= pending
        /\ ~broken => owed[i] = pending

\* run() returns only when no worker and no deadline thread is left: they are detached
\* and use the server, its mutexes and its transport.
RunOutlivesWorkers ==
    main = "exited" => \A i \in Ids : worker[i].pc = "none" /\ control[i].timer = "none"

\* Once the loop ends, at the end of the input or on a failure, run() returns.
RunEnds == (main = "left") ~> (main = "exited")

\* An accepted call ends, cancelled or not, late or not.
CallsEnd == \A i \in Ids : (i \in requests) ~> (i \notin requests)

=============================================================================
