-------------------------- MODULE McpServerProofs --------------------------
(***************************************************************************)
(* What McpServer guarantees for any number of calls and messages, whether *)
(* or not the output breaks, checked by TLAPS: its threads share nothing   *)
(* that is gone, replies are true and none is lost or sent twice.          *)
(***************************************************************************)
EXTENDS McpServer, TLAPS

USE NoIdAssumption, MessagesAssumption, OutputAssumption

----------------------------------------------------------------------------
(* The inductive invariant.                                                *)

\* Up to AfterWork; after it.
Before == {"parse", "reject", "call", "bind", "bound", "ready", "scan", "lock", "update"}
After == {"unbind", "close", "complete", "join", "write"}

Cut(w) == w.scan \in {"stopped", "interrupted"}

\* The deadline thread of a call lives from StartWorker to Join.
TimerSound(c, w) ==
    /\ c.timer = "none" <=> w.pc \in {"none", "parse"}
    /\ w.pc \in {"write", "finish"} => c.timer = "done"
    /\ c.timer = "expired" => c.timed_out
    /\ c.timed_out => c.late

\* A handle is bound while it is open, by a tool that has one.
HandleSound(c, w) ==
    /\ w.pc \in {"bind", "bound", "ready", "scan", "unbind"} => w.tool = "scan"
    /\ w.pc \in {"lock", "update"} => w.tool = "update"
    /\ \/ w.pc \in {"bind", "bound", "ready", "scan", "unbind"}
       \/ w.pc = "scanned" /\ w.tool = "scan"
       => w.handle # "closed"
    /\ c.database => /\ w.pc \in {"bound", "ready", "scan", "scanned", "unbind"}
                     /\ w.tool = "scan"

\* Work is cut short only when the call was stopped, and then the call has been
\* answered as stopped from AfterWork on.
OutcomeSound(c, w) ==
    /\ w.handle = "interrupted" => c.cancelled \/ c.timed_out
    /\ Cut(w) => (c.cancelled \/ c.late) /\ w.pc \notin Before
    /\ Cut(w) /\ w.pc \in After => w.outcome \in {"cancelled", "deadline"}
    /\ w.outcome = "cancelled" => c.cancelled
    /\ w.outcome = "deadline" => c.late

\* A reply is sent at the end, by Reject or by WriteReply.
SentSound(w) ==
    /\ w.outcome = "sent" => w.pc \in {"complete", "join", "finish"}
    /\ w.pc = "finish" => w.outcome = "sent"

CallSound(c, w) ==
    TimerSound(c, w) /\ HandleSound(c, w) /\ OutcomeSound(c, w) /\ SentSound(w)

\* A control is in the map exactly as long as its worker runs.
Calls ==
    \A i \in Ids :
        /\ CallSound(control[i], worker[i])
        /\ i \in requests <=> worker[i].pc # "none"

\* The main thread has a target only under requests_mutex, and has marked it.
MainSound ==
    /\ target # NoId => main \in {"cancel", "sweep"} /\ control[target].cancelled
    /\ todo # {} => main = "sweep"
    /\ main = "exited" => requests = {}

\* Nothing is owed that was not read.
OwedIsRead == \A i \in Ids : owed[i] + left <= MaxMessages

IInv == TypeOK /\ Calls /\ MainSound /\ OwedIsRead /\ OneReply

----------------------------------------------------------------------------
(* Frames.                                                                 *)

\* A worker's record and a control, field by field.
At(w, pc, handle, scan, outcome) ==
    [pc |-> pc, tool |-> w.tool, handle |-> handle, scan |-> scan, outcome |-> outcome]
Flags(c, cancelled, timed_out, completed, database, late, timer) ==
    [cancelled |-> cancelled, timed_out |-> timed_out, completed |-> completed,
     database |-> database, late |-> late, timer |-> timer]

\* What the invariant says of one call.
LEMMA CallOf ==
    ASSUME IInv, NEW i \in Ids
    PROVE  /\ control[i] \in Controls /\ worker[i] \in Workers
           /\ CallSound(control[i], worker[i])
           /\ i \in requests <=> worker[i].pc # "none"
           /\ i # NoId
  BY DEF IInv, TypeOK, Calls

\* The records of one call change, and no other call's.
Alone(i) ==
    /\ worker' \in [Ids -> Workers]
    /\ control' \in [Ids -> Controls]
    /\ \A k \in Ids \ {i} : worker'[k] = worker[k] /\ control'[k] = control[k]

\* A running call that stays sound, stays cancelled and sends nothing.
CallGoesOn(i) ==
    /\ Alone(i)
    /\ CallSound(control'[i], worker'[i])
    /\ worker[i].pc # "none" /\ worker'[i].pc # "none"
    /\ control[i].cancelled => control'[i].cancelled
    /\ worker'[i].outcome = "sent" <=> worker[i].outcome = "sent"

MainStays == UNCHANGED <<state, main, target, todo, requests>>

\* Steps of a worker, a deadline thread or the clock before the reply.
LEMMA LocalStep ==
    ASSUME IInv, NEW i \in Ids, CallGoesOn(i), MainStays,
           UNCHANGED <<broken, owed, left>>,
           updater' \in Ids \cup {NoId}, transport_failed' \in BOOLEAN
    PROVE  IInv'
<1>1. TypeOK'
  BY DEF IInv, TypeOK, MainStays, CallGoesOn, Alone
<1>2. Calls'
  BY DEF IInv, Calls, MainStays, CallGoesOn, Alone
<1>3. MainSound'
  BY DEF IInv, MainSound, TypeOK, MainStays, CallGoesOn, Alone
<1>4. OwedIsRead' /\ OneReply'
  BY DEF IInv, OwedIsRead, OneReply, Unanswered, CallGoesOn, Alone
<1> QED BY <1>1, <1>2, <1>3, <1>4 DEF IInv

\* The same for the steps that write the reply of a call.
LEMMA ReplyStep ==
    ASSUME IInv, NEW i \in Ids, Alone(i), MainStays, UNCHANGED <<control, updater, broken, left>>,
           WriteTo(i, owed), Unanswered(i),
           CallSound(control[i], worker'[i]),
           worker'[i].pc # "none", worker'[i].outcome = "sent"
    PROVE  IInv'
<1>1. owed \in [Ids -> 0..MaxMessages] /\ left \in 0..MaxMessages /\ broken \in BOOLEAN
  BY DEF IInv, TypeOK
<1>2. /\ owed[i] >= 1 /\ (~broken => owed[i] = 1)
      /\ \A k \in Ids : owed[k] + left <= MaxMessages
  BY DEF IInv, OneReply, OwedIsRead
<1>3. /\ owed' \in [Ids -> 0..MaxMessages]
      /\ owed'[i] = IF broken THEN owed[i] ELSE owed[i] - 1
      /\ \A k \in Ids \ {i} : owed'[k] = owed[k]
  BY <1>1, <1>2 DEF WriteTo
<1>4. TypeOK'
  BY <1>3 DEF IInv, TypeOK, MainStays, Alone, WriteTo
<1>5. Calls'
  BY DEF IInv, Calls, MainStays, Alone, Unanswered
<1>6. MainSound'
  BY DEF IInv, MainSound, TypeOK, MainStays
<1>7. OwedIsRead'
  BY <1>1, <1>2, <1>3 DEF OwedIsRead
<1>8. OneReply'
  BY <1>1, <1>2, <1>3 DEF IInv, OneReply, Unanswered, Alone
<1> QED BY <1>4, <1>5, <1>6, <1>7, <1>8 DEF IInv

\* Steps of the main thread that touch no call.
LEMMA MainStep ==
    ASSUME IInv, UNCHANGED <<requests, control, worker, updater, broken>>,
           state' \in {"Uninitialized", "AwaitingInitialized", "Running"},
           main' \in {"loop", "read", "cancel", "left", "sweep", "wait", "asleep", "exited"},
           target' \in requests \cup {NoId}, todo' \subseteq requests,
           transport_failed' \in BOOLEAN, MainSound',
           left' \in 0..left,
           \/ UNCHANGED owed
           \/ /\ left' < left
              /\ \E i \in Ids : WriteTo(i, WithRequest(i))
    PROVE  IInv'
<1>1. owed \in [Ids -> 0..MaxMessages] /\ left \in 0..MaxMessages /\ broken \in BOOLEAN
  BY DEF IInv, TypeOK
<1>2. \A k \in Ids : owed[k] + left <= MaxMessages
  BY DEF IInv, OwedIsRead
<1>3. /\ owed' \in [Ids -> 0..MaxMessages]
      /\ \A k \in Ids : owed'[k] \in {owed[k], owed[k] + 1} /\ owed'[k] + left' <= MaxMessages
      /\ ~broken => owed' = owed
  <2>1. CASE UNCHANGED owed
    BY <1>1, <1>2, <2>1
  <2>2. CASE left' < left /\ \E i \in Ids : WriteTo(i, WithRequest(i))
    <3>1. PICK i \in Ids : owed' = IF broken THEN WithRequest(i)
                                   ELSE [WithRequest(i) EXCEPT ![i] = @ - 1]
      BY <2>2 DEF WriteTo
    <3>2. WithRequest(i) = [owed EXCEPT ![i] = owed[i] + 1] /\ WithRequest(i)[i] = owed[i] + 1
      BY <1>1 DEF WithRequest
    <3>3. CASE ~broken
      BY <1>1, <1>2, <2>2, <3>1, <3>2, <3>3
    <3>4. CASE broken
      BY <1>1, <1>2, <2>2, <3>1, <3>2, <3>4
    <3> QED BY <3>3, <3>4
  <2> QED BY <2>1, <2>2
<1>4. left' \in 0..MaxMessages
  BY <1>1
<1>5. TypeOK'
  BY <1>3, <1>4 DEF IInv, TypeOK
<1>6. Calls' /\ OwedIsRead'
  BY <1>3 DEF IInv, Calls, OwedIsRead
<1>7. OneReply'
  BY <1>1, <1>3 DEF IInv, OneReply, Unanswered
<1> QED BY <1>5, <1>6, <1>7 DEF IInv

----------------------------------------------------------------------------
(* Workers.  Each lemma says what a step makes of the records of its call.  *)

USE DEF At, Flags, Controls, Workers, CallSound, TimerSound, HandleSound, OutcomeSound,
        SentSound, Cut, Before, After

\* A stopped call is answered as cancelled or as late, whichever it is.
LEMMA StoppedIs ==
    ASSUME IInv, NEW i \in Ids, Stopped(i)
    PROVE  /\ StoppedOutcome(i) \in {"cancelled", "deadline"}
           /\ StoppedOutcome(i) = "cancelled" => control[i].cancelled
           /\ StoppedOutcome(i) = "deadline" => control[i].late
           /\ control[i].cancelled \/ control[i].late
  BY CallOf DEF Stopped, StoppedOutcome

\* The deadline thread starts.
LEMMA StartWorkerInv == ASSUME IInv, NEW i \in Ids, StartWorker(i) PROVE IInv'
<1>1. /\ control[i] \in Controls /\ worker[i] \in Workers /\ CallSound(control[i], worker[i])
      /\ worker[i].pc = "parse"
  BY CallOf DEF StartWorker
<1>2. /\ MainStays /\ UNCHANGED <<transport_failed, broken, owed, left>>
      /\ updater' \in Ids \cup {NoId} /\ transport_failed \in BOOLEAN
  BY DEF StartWorker, Step, MainStays, IInv, TypeOK
<1>3. CASE Step(i, [worker[i] EXCEPT !.pc = "call"])
  <2>1. Step(i, [worker[i] EXCEPT !.pc = "call"])
    BY <1>1, <1>3 DEF StartWorker
  <2>2. /\ worker'[i] = At(worker[i], "call", worker[i].handle, worker[i].scan,
                           worker[i].outcome)
        /\ control'[i] = Flags(control[i], control[i].cancelled, control[i].timed_out,
                               control[i].completed, control[i].database, control[i].late,
                               "waiting")
        /\ Alone(i)
    BY <1>1, <1>3, <2>1 DEF StartWorker, Step, Alone, IInv, TypeOK
  <2>3. CallSound(control'[i], worker'[i])
    BY <1>1, <1>3, <2>2
  <2> QED BY <1>1, <1>2, <2>2, <2>3, LocalStep DEF CallGoesOn
<1>4. CASE Step(i, [worker[i] EXCEPT !.pc = "reject"])
  <2>1. Step(i, [worker[i] EXCEPT !.pc = "reject"])
    BY <1>1, <1>4 DEF StartWorker
  <2>2. /\ worker'[i] = At(worker[i], "reject", worker[i].handle, worker[i].scan,
                           worker[i].outcome)
        /\ control'[i] = Flags(control[i], control[i].cancelled, control[i].timed_out,
                               control[i].completed, control[i].database, control[i].late,
                               "waiting")
        /\ Alone(i)
    BY <1>1, <1>4, <2>1 DEF StartWorker, Step, Alone, IInv, TypeOK
  <2>3. CallSound(control'[i], worker'[i])
    BY <1>1, <1>4, <2>2
  <2> QED BY <1>1, <1>2, <2>2, <2>3, LocalStep DEF CallGoesOn
<1> QED BY <1>3, <1>4 DEF StartWorker

\* A stopped call is not started; otherwise it fails, waits for an update or opens a handle.
LEMMA CallInv == ASSUME IInv, NEW i \in Ids, Call(i) PROVE IInv'
<1>1. /\ control[i] \in Controls /\ worker[i] \in Workers /\ CallSound(control[i], worker[i])
      /\ worker[i].pc = "call"
  BY CallOf DEF Call
<1>2. /\ MainStays /\ UNCHANGED <<transport_failed, broken, owed, left>>
      /\ updater' \in Ids \cup {NoId} /\ transport_failed \in BOOLEAN
  BY DEF Call, Step, MainStays, IInv, TypeOK
<1>3. CASE Stopped(i)
  <2>1. Step(i, [worker[i] EXCEPT !.pc = "complete", !.outcome = StoppedOutcome(i)])
    BY <1>1, <1>3, StoppedIs DEF Call
  <2>2. /\ worker'[i] = At(worker[i], "complete", worker[i].handle, worker[i].scan,
                           StoppedOutcome(i))
        /\ UNCHANGED control
        /\ Alone(i)
    BY <1>1, <1>3, StoppedIs, <2>1 DEF Call, Step, Alone, IInv, TypeOK
  <2>3. CallSound(control'[i], worker'[i])
    BY <1>1, <1>3, StoppedIs, <2>2
  <2> QED BY <1>1, <1>2, <1>3, StoppedIs, <2>2, <2>3, LocalStep DEF CallGoesOn
<1>4. CASE ~Stopped(i) /\ Step(i, [worker[i] EXCEPT !.pc = "complete", !.outcome = "error"])
  <2>1. /\ worker'[i] = At(worker[i], "complete", worker[i].handle, worker[i].scan, "error")
        /\ UNCHANGED control
        /\ Alone(i)
    BY <1>1, <1>4, StoppedIs DEF Call, Step, Alone, IInv, TypeOK
  <2>2. CallSound(control'[i], worker'[i])
    BY <1>1, <1>4, StoppedIs, <2>1
  <2> QED BY <1>1, <1>2, <1>4, StoppedIs, <2>1, <2>2, LocalStep DEF CallGoesOn
<1>5. CASE ~Stopped(i) /\ worker[i].tool = "update" /\ Step(i, [worker[i] EXCEPT !.pc = "lock"])
  <2>1. /\ worker'[i] = At(worker[i], "lock", worker[i].handle, worker[i].scan,
                           worker[i].outcome)
        /\ UNCHANGED control
        /\ Alone(i)
    BY <1>1, <1>5, StoppedIs DEF Call, Step, Alone, IInv, TypeOK
  <2>2. CallSound(control'[i], worker'[i])
    BY <1>1, <1>5, StoppedIs, <2>1
  <2> QED BY <1>1, <1>2, <1>5, StoppedIs, <2>1, <2>2, LocalStep DEF CallGoesOn
<1>6. CASE /\ ~Stopped(i) /\ worker[i].tool = "scan"
          /\ Step(i, [worker[i] EXCEPT !.pc = "bind", !.handle = "idle"])
  <2>1. /\ worker'[i] = At(worker[i], "bind", "idle", worker[i].scan, worker[i].outcome)
        /\ UNCHANGED control
        /\ Alone(i)
    BY <1>1, <1>6, StoppedIs DEF Call, Step, Alone, IInv, TypeOK
  <2>2. CallSound(control'[i], worker'[i])
    BY <1>1, <1>6, StoppedIs, <2>1
  <2> QED BY <1>1, <1>2, <1>6, StoppedIs, <2>1, <2>2, LocalStep DEF CallGoesOn
<1> QED BY <1>3, <1>4, <1>5, <1>6 DEF Call

\* The call lets its handle be interrupted.
LEMMA BindInv == ASSUME IInv, NEW i \in Ids, Bind(i) PROVE IInv'
<1>1. /\ control[i] \in Controls /\ worker[i] \in Workers /\ CallSound(control[i], worker[i])
      /\ worker[i].pc = "bind"
  BY CallOf DEF Bind
<1>2. /\ MainStays /\ UNCHANGED <<transport_failed, broken, owed, left>>
      /\ updater' \in Ids \cup {NoId} /\ transport_failed \in BOOLEAN
  BY DEF Bind, Step, MainStays, IInv, TypeOK
<1>3. /\ worker'[i] = At(worker[i], "bound", worker[i].handle, worker[i].scan,
                         worker[i].outcome)
      /\ control'[i] = Flags(control[i], control[i].cancelled, control[i].timed_out,
                             control[i].completed, TRUE, control[i].late, control[i].timer)
      /\ Alone(i)
  BY <1>1 DEF Bind, Step, Alone, IInv, TypeOK
<1>4. CallSound(control'[i], worker'[i])
  BY <1>1, <1>3
<1> QED BY <1>1, <1>2, <1>3, <1>4, LocalStep DEF CallGoesOn

\* A call that was stopped before it was bound has done nothing.
LEMMA AfterBindInv == ASSUME IInv, NEW i \in Ids, AfterBind(i) PROVE IInv'
<1>1. /\ control[i] \in Controls /\ worker[i] \in Workers /\ CallSound(control[i], worker[i])
      /\ worker[i].pc = "bound"
  BY CallOf DEF AfterBind
<1>2. /\ MainStays /\ UNCHANGED <<transport_failed, broken, owed, left>>
      /\ updater' \in Ids \cup {NoId} /\ transport_failed \in BOOLEAN
  BY DEF AfterBind, Step, MainStays, IInv, TypeOK
<1>3. CASE Stopped(i)
  <2>1. Step(i, [worker[i] EXCEPT !.pc = "unbind", !.outcome = StoppedOutcome(i)])
    BY <1>1, <1>3, StoppedIs DEF AfterBind
  <2>2. /\ worker'[i] = At(worker[i], "unbind", worker[i].handle, worker[i].scan,
                           StoppedOutcome(i))
        /\ UNCHANGED control
        /\ Alone(i)
    BY <1>1, <1>3, StoppedIs, <2>1 DEF AfterBind, Step, Alone, IInv, TypeOK
  <2>3. CallSound(control'[i], worker'[i])
    BY <1>1, <1>3, StoppedIs, <2>2
  <2> QED BY <1>1, <1>2, <1>3, StoppedIs, <2>2, <2>3, LocalStep DEF CallGoesOn
<1>4. CASE ~Stopped(i)
  <2>1. Step(i, [worker[i] EXCEPT !.pc = "ready"])
    BY <1>1, <1>4, StoppedIs DEF AfterBind
  <2>2. /\ worker'[i] = At(worker[i], "ready", worker[i].handle, worker[i].scan,
                           worker[i].outcome)
        /\ UNCHANGED control
        /\ Alone(i)
    BY <1>1, <1>4, StoppedIs, <2>1 DEF AfterBind, Step, Alone, IInv, TypeOK
  <2>3. CallSound(control'[i], worker'[i])
    BY <1>1, <1>4, StoppedIs, <2>2
  <2> QED BY <1>1, <1>2, <1>4, StoppedIs, <2>2, <2>3, LocalStep DEF CallGoesOn
<1> QED BY <1>3, <1>4 DEF AfterBind

\* A statement runs, or the arguments are wrong.
LEMMA BeginStatementInv == ASSUME IInv, NEW i \in Ids, BeginStatement(i) PROVE IInv'
<1>1. /\ control[i] \in Controls /\ worker[i] \in Workers /\ CallSound(control[i], worker[i])
      /\ worker[i].pc = "ready"
  BY CallOf DEF BeginStatement
<1>2. /\ MainStays /\ UNCHANGED <<transport_failed, broken, owed, left>>
      /\ updater' \in Ids \cup {NoId} /\ transport_failed \in BOOLEAN
  BY DEF BeginStatement, Step, MainStays, IInv, TypeOK
<1>3. CASE Step(i, [worker[i] EXCEPT !.pc = "unbind", !.outcome = "error"])
  <2>1. /\ worker'[i] = At(worker[i], "unbind", worker[i].handle, worker[i].scan, "error")
        /\ UNCHANGED control
        /\ Alone(i)
    BY <1>1, <1>3 DEF BeginStatement, Step, Alone, IInv, TypeOK
  <2>2. CallSound(control'[i], worker'[i])
    BY <1>1, <1>3, <2>1
  <2> QED BY <1>1, <1>2, <2>1, <2>2, LocalStep DEF CallGoesOn
<1>4. CASE Step(i, [worker[i] EXCEPT !.pc = "scan", !.handle = "active"])
  <2>1. /\ worker'[i] = At(worker[i], "scan", "active", worker[i].scan, worker[i].outcome)
        /\ UNCHANGED control
        /\ Alone(i)
    BY <1>1, <1>4 DEF BeginStatement, Step, Alone, IInv, TypeOK
  <2>2. CallSound(control'[i], worker'[i])
    BY <1>1, <1>4, <2>1
  <2> QED BY <1>1, <1>2, <2>1, <2>2, LocalStep DEF CallGoesOn
<1> QED BY <1>3, <1>4 DEF BeginStatement

\* A collector gives up: the call was stopped.
LEMMA CollectRowInv == ASSUME IInv, NEW i \in Ids, CollectRow(i) PROVE IInv'
<1>1. /\ control[i] \in Controls /\ worker[i] \in Workers /\ CallSound(control[i], worker[i])
      /\ worker[i].pc = "scan" /\ Stopped(i)
  BY CallOf DEF CollectRow
<1>2. /\ MainStays /\ UNCHANGED <<transport_failed, broken, owed, left>>
      /\ updater' \in Ids \cup {NoId} /\ transport_failed \in BOOLEAN
  BY DEF CollectRow, Step, MainStays, IInv, TypeOK
<1>3. /\ worker'[i] = At(worker[i], "scanned", "idle", "stopped", worker[i].outcome)
      /\ UNCHANGED control
      /\ Alone(i)
  BY <1>1, StoppedIs DEF CollectRow, Step, Alone, IInv, TypeOK
<1>4. CallSound(control'[i], worker'[i])
  BY <1>1, StoppedIs, <1>3
<1> QED BY <1>1, <1>2, StoppedIs, <1>3, <1>4, LocalStep DEF CallGoesOn

\* A statement ends; an interrupted one ended because the call was stopped.
LEMMA EndStatementInv == ASSUME IInv, NEW i \in Ids, EndStatement(i) PROVE IInv'
<1>1. /\ control[i] \in Controls /\ worker[i] \in Workers /\ CallSound(control[i], worker[i])
      /\ worker[i].pc = "scan"
  BY CallOf DEF EndStatement
<1>2. /\ MainStays /\ UNCHANGED <<transport_failed, broken, owed, left>>
      /\ updater' \in Ids \cup {NoId} /\ transport_failed \in BOOLEAN
  BY DEF EndStatement, Step, MainStays, IInv, TypeOK
<1>3. CASE worker[i].handle = "interrupted"
  <2>1. /\ worker'[i] = At(worker[i], "scanned", "idle", "interrupted", worker[i].outcome)
        /\ UNCHANGED control
        /\ Alone(i)
    BY <1>1, <1>3 DEF EndStatement, Step, Alone, IInv, TypeOK
  <2>2. CallSound(control'[i], worker'[i])
    BY <1>1, <1>3, <2>1
  <2> QED BY <1>1, <1>2, <2>1, <2>2, LocalStep DEF CallGoesOn
<1>4. CASE worker[i].handle # "interrupted"
  <2>1. /\ worker'[i] = At(worker[i], "scanned", "idle", "complete", worker[i].outcome)
        /\ UNCHANGED control
        /\ Alone(i)
    BY <1>1, <1>4 DEF EndStatement, Step, Alone, IInv, TypeOK
  <2>2. CallSound(control'[i], worker'[i])
    BY <1>1, <1>4, <2>1
  <2> QED BY <1>1, <1>2, <2>1, <2>2, LocalStep DEF CallGoesOn
<1> QED BY <1>3, <1>4 DEF EndStatement

\* An update starts, unless the call was stopped while it waited.
LEMMA LockUpdatesInv == ASSUME IInv, NEW i \in Ids, LockUpdates(i) PROVE IInv'
<1>1. /\ control[i] \in Controls /\ worker[i] \in Workers /\ CallSound(control[i], worker[i])
      /\ worker[i].pc = "lock"
  BY CallOf DEF LockUpdates
<1>2. /\ MainStays /\ UNCHANGED <<transport_failed, broken, owed, left>>
      /\ updater' \in Ids \cup {NoId} /\ transport_failed \in BOOLEAN
  BY DEF LockUpdates, MainStays, IInv, TypeOK
<1>3. CASE Stopped(i)
  <2>1. /\ worker'[i] = At(worker[i], "scanned", worker[i].handle, "stopped", worker[i].outcome)
        /\ UNCHANGED control
        /\ Alone(i)
    BY <1>1, <1>3, StoppedIs DEF LockUpdates, Alone, IInv, TypeOK
  <2>2. CallSound(control'[i], worker'[i])
    BY <1>1, <1>3, StoppedIs, <2>1
  <2> QED BY <1>1, <1>2, <1>3, StoppedIs, <2>1, <2>2, LocalStep DEF CallGoesOn
<1>4. CASE ~Stopped(i)
  <2>1. /\ worker'[i] = At(worker[i], "update", worker[i].handle, worker[i].scan,
                           worker[i].outcome)
        /\ UNCHANGED control
        /\ Alone(i)
    BY <1>1, <1>4, StoppedIs DEF LockUpdates, Alone, IInv, TypeOK
  <2>2. CallSound(control'[i], worker'[i])
    BY <1>1, <1>4, StoppedIs, <2>1
  <2> QED BY <1>1, <1>2, <1>4, StoppedIs, <2>1, <2>2, LocalStep DEF CallGoesOn
<1> QED BY <1>3, <1>4 DEF LockUpdates

\* The update ends.
LEMMA UpdateInv == ASSUME IInv, NEW i \in Ids, Update(i) PROVE IInv'
<1>1. /\ control[i] \in Controls /\ worker[i] \in Workers /\ CallSound(control[i], worker[i])
      /\ worker[i].pc = "update"
  BY CallOf DEF Update
<1>2. /\ MainStays /\ UNCHANGED <<transport_failed, broken, owed, left>>
      /\ updater' \in Ids \cup {NoId} /\ transport_failed \in BOOLEAN
  BY DEF Update, MainStays, IInv, TypeOK
<1>3. /\ worker'[i] = At(worker[i], "scanned", worker[i].handle, "complete", worker[i].outcome)
      /\ UNCHANGED control
      /\ Alone(i)
  BY <1>1 DEF Update, Alone, IInv, TypeOK
<1>4. CallSound(control'[i], worker'[i])
  BY <1>1, <1>3
<1> QED BY <1>1, <1>2, <1>3, <1>4, LocalStep DEF CallGoesOn

\* The work is done: a stopped call is answered as such, unless a scan is complete.
LEMMA AfterWorkInv == ASSUME IInv, NEW i \in Ids, AfterWork(i) PROVE IInv'
<1> DEFINE result == IF worker[i].scan = "complete" THEN "success" ELSE "error"
           w(outcome) == [worker[i] EXCEPT !.pc = WorkDone(i), !.outcome = outcome]
<1>1. /\ control[i] \in Controls /\ worker[i] \in Workers /\ CallSound(control[i], worker[i])
      /\ worker[i].pc = "scanned"
      /\ WorkDone(i) = IF worker[i].tool = "scan" THEN "unbind" ELSE "complete"
  BY CallOf DEF AfterWork, WorkDone
<1>2. PICK outcome :
        /\ Step(i, w(outcome))
        /\ \/ Stopped(i) /\ outcome = StoppedOutcome(i)
           \/ (~Stopped(i) \/ worker[i].scan = "complete") /\ outcome = result
  BY Zenon DEF AfterWork
<1>3. /\ outcome \in {"cancelled", "deadline", "success", "error"}
      /\ outcome = "cancelled" => control[i].cancelled
      /\ outcome = "deadline" => control[i].late
      /\ worker[i].scan \in {"stopped", "interrupted"} => outcome \in {"cancelled", "deadline"}
  BY <1>1, <1>2, StoppedIs DEF Stopped
<1>4. /\ MainStays /\ UNCHANGED <<control, transport_failed, broken, owed, left>>
      /\ updater' \in Ids \cup {NoId} /\ transport_failed \in BOOLEAN
  BY <1>2 DEF AfterWork, Step, MainStays, IInv, TypeOK
<1>5. /\ worker'[i] = At(worker[i], WorkDone(i), worker[i].handle, worker[i].scan, outcome)
      /\ Alone(i)
  BY <1>1, <1>2, <1>3, <1>4 DEF Step, Alone, IInv, TypeOK
<1>6. CallSound(control'[i], worker'[i])
  BY <1>1, <1>3, <1>4, <1>5
<1> QED BY <1>1, <1>3, <1>4, <1>5, <1>6, LocalStep DEF CallGoesOn

\* A tool runs another statement.
LEMMA NextStatementInv == ASSUME IInv, NEW i \in Ids, NextStatement(i) PROVE IInv'
<1>1. /\ control[i] \in Controls /\ worker[i] \in Workers /\ CallSound(control[i], worker[i])
      /\ worker[i].pc = "scanned" /\ worker[i].tool = "scan" /\ worker[i].scan = "complete"
  BY CallOf DEF NextStatement
<1>2. /\ MainStays /\ UNCHANGED <<transport_failed, broken, owed, left>>
      /\ updater' \in Ids \cup {NoId} /\ transport_failed \in BOOLEAN
  BY DEF NextStatement, Step, MainStays, IInv, TypeOK
<1>3. /\ worker'[i] = At(worker[i], "ready", worker[i].handle, worker[i].scan,
                         worker[i].outcome)
      /\ UNCHANGED control
      /\ Alone(i)
  BY <1>1 DEF NextStatement, Step, Alone, IInv, TypeOK
<1>4. CallSound(control'[i], worker'[i])
  BY <1>1, <1>3
<1> QED BY <1>1, <1>2, <1>3, <1>4, LocalStep DEF CallGoesOn

\* Nobody interrupts the handle any more.
LEMMA UnbindInv == ASSUME IInv, NEW i \in Ids, Unbind(i) PROVE IInv'
<1>1. /\ control[i] \in Controls /\ worker[i] \in Workers /\ CallSound(control[i], worker[i])
      /\ worker[i].pc = "unbind"
  BY CallOf DEF Unbind
<1>2. /\ MainStays /\ UNCHANGED <<transport_failed, broken, owed, left>>
      /\ updater' \in Ids \cup {NoId} /\ transport_failed \in BOOLEAN
  BY DEF Unbind, Step, MainStays, IInv, TypeOK
<1>3. /\ worker'[i] = At(worker[i], "close", worker[i].handle, worker[i].scan,
                         worker[i].outcome)
      /\ control'[i] = Flags(control[i], control[i].cancelled, control[i].timed_out,
                             control[i].completed, FALSE, control[i].late, control[i].timer)
      /\ Alone(i)
  BY <1>1 DEF Unbind, Step, Alone, IInv, TypeOK
<1>4. CallSound(control'[i], worker'[i])
  BY <1>1, <1>3
<1> QED BY <1>1, <1>2, <1>3, <1>4, LocalStep DEF CallGoesOn

\* The handle is closed.
LEMMA CloseInv == ASSUME IInv, NEW i \in Ids, Close(i) PROVE IInv'
<1>1. /\ control[i] \in Controls /\ worker[i] \in Workers /\ CallSound(control[i], worker[i])
      /\ worker[i].pc = "close"
  BY CallOf DEF Close
<1>2. /\ MainStays /\ UNCHANGED <<transport_failed, broken, owed, left>>
      /\ updater' \in Ids \cup {NoId} /\ transport_failed \in BOOLEAN
  BY DEF Close, Step, MainStays, IInv, TypeOK
<1>3. /\ worker'[i] = At(worker[i], "complete", "closed", worker[i].scan, worker[i].outcome)
      /\ UNCHANGED control
      /\ Alone(i)
  BY <1>1 DEF Close, Step, Alone, IInv, TypeOK
<1>4. CallSound(control'[i], worker'[i])
  BY <1>1, <1>3
<1> QED BY <1>1, <1>2, <1>3, <1>4, LocalStep DEF CallGoesOn

\* The call is complete; the deadline thread may end.
LEMMA CompleteInv == ASSUME IInv, NEW i \in Ids, Complete(i) PROVE IInv'
<1>1. /\ control[i] \in Controls /\ worker[i] \in Workers /\ CallSound(control[i], worker[i])
      /\ worker[i].pc = "complete"
  BY CallOf DEF Complete
<1>2. /\ MainStays /\ UNCHANGED <<transport_failed, broken, owed, left>>
      /\ updater' \in Ids \cup {NoId} /\ transport_failed \in BOOLEAN
  BY DEF Complete, Step, MainStays, IInv, TypeOK
<1>3. /\ worker'[i] = At(worker[i], "join", worker[i].handle, worker[i].scan, worker[i].outcome)
      /\ control'[i] = Flags(control[i], control[i].cancelled, control[i].timed_out, TRUE,
                             control[i].database, control[i].late, control[i].timer)
      /\ Alone(i)
  BY <1>1 DEF Complete, Step, Alone, IInv, TypeOK
<1>4. CallSound(control'[i], worker'[i])
  BY <1>1, <1>3
<1> QED BY <1>1, <1>2, <1>3, <1>4, LocalStep DEF CallGoesOn

\* The flags override what the tool returned; a rejection has been sent.
LEMMA JoinInv == ASSUME IInv, NEW i \in Ids, Join(i) PROVE IInv'
<1> DEFINE result == IF control[i].cancelled THEN "cancelled"
                     ELSE IF control[i].timed_out THEN "deadline"
                     ELSE worker[i].outcome
<1>1. /\ control[i] \in Controls /\ worker[i] \in Workers /\ CallSound(control[i], worker[i])
      /\ worker[i].pc = "join" /\ control[i].timer = "done"
  BY CallOf DEF Join
<1>2. CASE worker[i].outcome = "sent"
  <2>1. Step(i, [worker[i] EXCEPT !.pc = "finish"]) /\ UNCHANGED control
    BY <1>2 DEF Join
  <2>2. /\ worker'[i] = At(worker[i], "finish", worker[i].handle, worker[i].scan, "sent")
        /\ Alone(i)
    BY <1>1, <1>2, <2>1 DEF Step, Alone, IInv, TypeOK
  <2>3. /\ MainStays /\ UNCHANGED <<transport_failed, broken, owed, left>>
        /\ updater' \in Ids \cup {NoId} /\ transport_failed \in BOOLEAN
    BY <2>1 DEF Step, MainStays, IInv, TypeOK
  <2>4. CallSound(control'[i], worker'[i])
    BY <1>1, <2>1, <2>2
  <2> QED BY <1>1, <1>2, <2>1, <2>2, <2>3, <2>4, LocalStep DEF CallGoesOn
<1>3. CASE worker[i].outcome # "sent"
  <2>1. Step(i, [worker[i] EXCEPT !.pc = "write", !.outcome = result]) /\ UNCHANGED control
    BY <1>3, Zenon DEF Join
  <2>2. /\ result \in {"none", "success", "error", "cancelled", "deadline"}
        /\ result = "cancelled" => control[i].cancelled
        /\ result = "deadline" => control[i].late
        /\ worker[i].scan \in {"stopped", "interrupted"} => result \in {"cancelled", "deadline"}
    BY <1>1, <1>3
  <2> HIDE DEF result
  <2>3. /\ worker'[i] = At(worker[i], "write", worker[i].handle, worker[i].scan, result)
        /\ Alone(i)
    BY <1>1, <2>1, <2>2 DEF Step, Alone, IInv, TypeOK
  <2>4. /\ MainStays /\ UNCHANGED <<transport_failed, broken, owed, left>>
        /\ updater' \in Ids \cup {NoId} /\ transport_failed \in BOOLEAN
    BY <2>1 DEF Step, MainStays, IInv, TypeOK
  <2>5. CallSound(control'[i], worker'[i])
    BY <1>1, <2>1, <2>2, <2>3
  <2> QED BY <1>1, <1>3, <2>1, <2>2, <2>3, <2>4, <2>5, LocalStep DEF CallGoesOn
<1> QED BY <1>2, <1>3

\* A rejection is written at once, the call completes later.
LEMMA RejectInv == ASSUME IInv, NEW i \in Ids, Reject(i) PROVE IInv'
<1>1. /\ control[i] \in Controls /\ worker[i] \in Workers /\ CallSound(control[i], worker[i])
      /\ worker[i].pc = "reject"
  BY CallOf DEF Reject
<1>2. MainStays /\ UNCHANGED <<control, updater, broken, left>> /\ WriteTo(i, owed)
  BY DEF Reject, MainStays
<1>3. /\ worker'[i] = At(worker[i], "complete", worker[i].handle, worker[i].scan, "sent")
      /\ Alone(i)
  BY <1>1 DEF Reject, Alone, IInv, TypeOK
<1>4. CallSound(control[i], worker'[i]) /\ Unanswered(i)
  BY <1>1, <1>3 DEF Unanswered
<1> QED BY <1>1, <1>2, <1>3, <1>4, ReplyStep

\* The reply of a call that was not rejected.
LEMMA WriteReplyInv == ASSUME IInv, NEW i \in Ids, WriteReply(i) PROVE IInv'
<1>1. /\ control[i] \in Controls /\ worker[i] \in Workers /\ CallSound(control[i], worker[i])
      /\ worker[i].pc = "write"
  BY CallOf DEF WriteReply
<1>2. MainStays /\ UNCHANGED <<control, updater, broken, left>> /\ WriteTo(i, owed)
  BY DEF WriteReply, MainStays
<1>3. /\ worker'[i] = At(worker[i], "finish", worker[i].handle, worker[i].scan, "sent")
      /\ Alone(i)
  BY <1>1 DEF WriteReply, Alone, IInv, TypeOK
<1>4. CallSound(control[i], worker'[i]) /\ Unanswered(i)
  BY <1>1, <1>3 DEF Unanswered
<1> QED BY <1>1, <1>2, <1>3, <1>4, ReplyStep

\* A finished call leaves nothing behind, and the main thread is not using its control.
LEMMA FinishInv == ASSUME IInv, NEW i \in Ids, Finish(i) PROVE IInv'
<1>1. /\ control[i] \in Controls /\ worker[i] \in Workers /\ CallSound(control[i], worker[i])
      /\ worker[i].pc = "finish" /\ i \in requests
  BY CallOf DEF Finish
<1>2. /\ worker' = [worker EXCEPT ![i] = NoWorker] /\ control' = [control EXCEPT ![i] = NoControl]
      /\ requests' = requests \ {i} /\ main \notin {"cancel", "sweep"}
      /\ main' = IF main = "asleep" THEN "wait" ELSE main
      /\ UNCHANGED <<state, target, todo, updater, transport_failed, broken, owed, left>>
  BY DEF Finish, RequestsLocked
<1>3. /\ NoWorker \in Workers /\ NoControl \in Controls /\ CallSound(NoControl, NoWorker)
      /\ NoWorker.pc = "none"
  BY DEF NoWorker, NoControl
<1>4. target = NoId /\ todo = {}
  BY <1>2 DEF IInv, MainSound
<1>5. Alone(i) /\ worker'[i] = NoWorker /\ control'[i] = NoControl
  BY <1>2, <1>3 DEF Alone, IInv, TypeOK
<1> HIDE DEF Controls, Workers, CallSound
<1>6. TypeOK'
  BY <1>2, <1>4, <1>5 DEF Alone, IInv, TypeOK
<1>7. Calls'
  BY <1>1, <1>2, <1>3, <1>5 DEF Alone, IInv, Calls
<1>8. MainSound'
  BY <1>1, <1>2, <1>4 DEF IInv, MainSound
<1>9. OwedIsRead'
  BY <1>2 DEF IInv, OwedIsRead
<1>10. OneReply'
  <2>1. worker[i].outcome = "sent"
    BY <1>1 DEF CallSound
  <2> QED BY <1>2, <1>3, <1>5, <2>1 DEF Alone, IInv, OneReply, Unanswered
<1> QED BY <1>6, <1>7, <1>8, <1>9, <1>10 DEF IInv

----------------------------------------------------------------------------
(* Deadline threads and the clock.                                         *)

\* An interrupt is aimed at a call that was stopped.
LEMMA InterruptSound ==
    ASSUME IInv, NEW i \in Ids, control[i].cancelled \/ control[i].timed_out,
           NEW w, w = At(worker[i], worker[i].pc, AfterInterrupt(i), worker[i].scan,
                         worker[i].outcome)
    PROVE  w \in Workers /\ CallSound(control[i], w)
  BY CallOf DEF AfterInterrupt

\* The thread ends when the call completes in time ...
LEMMA TimerCompletedInv == ASSUME IInv, NEW i \in Ids, TimerCompleted(i) PROVE IInv'
<1>1. /\ control[i] \in Controls /\ worker[i] \in Workers /\ CallSound(control[i], worker[i])
      /\ control[i].timer = "waiting" /\ worker[i].pc # "none"
  BY CallOf DEF TimerCompleted
<1>2. /\ MainStays /\ UNCHANGED <<worker, transport_failed, broken, owed, left>>
      /\ updater' \in Ids \cup {NoId} /\ transport_failed \in BOOLEAN
  BY DEF TimerCompleted, TimerStep, MainStays, IInv, TypeOK
<1>3. /\ control'[i] = Flags(control[i], control[i].cancelled, control[i].timed_out,
                             control[i].completed, control[i].database, control[i].late, "done")
      /\ Alone(i)
  BY <1>1, <1>2 DEF TimerCompleted, TimerStep, Alone, IInv, TypeOK
<1>4. CallSound(control'[i], worker'[i])
  BY <1>1, <1>2, <1>3
<1> QED BY <1>1, <1>2, <1>3, <1>4, LocalStep DEF CallGoesOn

\* ... marks it timed out when it is late, ...
LEMMA TimerExpiresInv == ASSUME IInv, NEW i \in Ids, TimerExpires(i) PROVE IInv'
<1>1. /\ control[i] \in Controls /\ worker[i] \in Workers /\ CallSound(control[i], worker[i])
      /\ control[i].timer = "waiting" /\ worker[i].pc # "none"
      /\ control[i].late /\ ~control[i].completed
  BY CallOf DEF TimerExpires
<1>2. /\ MainStays /\ UNCHANGED <<worker, transport_failed, broken, owed, left>>
      /\ updater' \in Ids \cup {NoId} /\ transport_failed \in BOOLEAN
  BY DEF TimerExpires, TimerStep, MainStays, IInv, TypeOK
<1>3. /\ control'[i] = Flags(control[i], control[i].cancelled, TRUE, control[i].completed,
                             control[i].database, control[i].late, "expired")
      /\ Alone(i)
  BY <1>1, <1>2 DEF TimerExpires, TimerStep, Alone, IInv, TypeOK
<1>4. CallSound(control'[i], worker'[i])
  BY <1>1, <1>2, <1>3
<1> QED BY <1>1, <1>2, <1>3, <1>4, LocalStep DEF CallGoesOn

\* ... and interrupts the statement that is running.
LEMMA TimerInterruptsInv == ASSUME IInv, NEW i \in Ids, TimerInterrupts(i) PROVE IInv'
<1>1. /\ control[i] \in Controls /\ worker[i] \in Workers /\ CallSound(control[i], worker[i])
      /\ control[i].timer = "expired" /\ control[i].timed_out /\ worker[i].pc # "none"
  BY CallOf DEF TimerInterrupts
<1>2. /\ MainStays /\ UNCHANGED <<transport_failed, broken, owed, left>>
      /\ updater' \in Ids \cup {NoId} /\ transport_failed \in BOOLEAN
  BY DEF TimerInterrupts, TimerStep, MainStays, IInv, TypeOK
<1>3. /\ control'[i] = Flags(control[i], control[i].cancelled, control[i].timed_out,
                             control[i].completed, control[i].database, control[i].late, "done")
      /\ worker'[i] = At(worker[i], worker[i].pc, AfterInterrupt(i), worker[i].scan,
                         worker[i].outcome)
  BY <1>1 DEF TimerInterrupts, TimerStep, IInv, TypeOK
<1>4. worker'[i] \in Workers /\ CallSound(control[i], worker'[i])
  BY <1>1, <1>3, InterruptSound
<1>5. Alone(i)
  BY <1>1, <1>3, <1>4 DEF TimerInterrupts, TimerStep, Alone, IInv, TypeOK
<1>6. CallSound(control'[i], worker'[i])
  BY <1>1, <1>3, <1>4
<1> QED BY <1>1, <1>2, <1>3, <1>5, <1>6, LocalStep DEF CallGoesOn

\* The clock passes a deadline.
LEMMA DeadlinePassesInv == ASSUME IInv, NEW i \in Ids, DeadlinePasses(i) PROVE IInv'
<1>1. /\ control[i] \in Controls /\ worker[i] \in Workers /\ CallSound(control[i], worker[i])
      /\ worker[i].pc # "none"
  BY CallOf DEF DeadlinePasses
<1>2. /\ MainStays /\ UNCHANGED <<worker, transport_failed, broken, owed, left>>
      /\ updater' \in Ids \cup {NoId} /\ transport_failed \in BOOLEAN
  BY DEF DeadlinePasses, TimerStep, MainStays, IInv, TypeOK
<1>3. /\ control'[i] = Flags(control[i], control[i].cancelled, control[i].timed_out,
                             control[i].completed, control[i].database, TRUE, control[i].timer)
      /\ Alone(i)
  BY <1>1, <1>2 DEF DeadlinePasses, TimerStep, Alone, IInv, TypeOK
<1>4. CallSound(control'[i], worker'[i])
  BY <1>1, <1>2, <1>3
<1> QED BY <1>1, <1>2, <1>3, <1>4, LocalStep DEF CallGoesOn

----------------------------------------------------------------------------
(* The main thread.                                                        *)

\* The main thread marks a call as cancelled, and will interrupt it.
LEMMA MarkInv ==
    ASSUME IInv, NEW i \in requests,
           control' = [control EXCEPT ![i].cancelled = TRUE], target' = i,
           main' \in {"cancel", "sweep"}, todo' \subseteq requests,
           todo' # {} => main' = "sweep",
           left' \in 0..left,
           UNCHANGED <<state, requests, worker, updater, transport_failed, broken, owed>>
    PROVE  IInv'
<1>1. /\ i \in Ids /\ control[i] \in Controls /\ worker[i] \in Workers
      /\ CallSound(control[i], worker[i])
      /\ control \in [Ids -> Controls] /\ requests \subseteq Ids /\ left \in 0..MaxMessages
  BY CallOf DEF IInv, TypeOK
<1>2. /\ control'[i] = Flags(control[i], TRUE, control[i].timed_out, control[i].completed,
                             control[i].database, control[i].late, control[i].timer)
      /\ control' \in [Ids -> Controls]
      /\ \A k \in Ids \ {i} : control'[k] = control[k]
  BY <1>1
<1>3. CallSound(control'[i], worker'[i]) /\ control'[i].cancelled
  BY <1>1, <1>2
<1> HIDE DEF Controls, Workers, CallSound, Flags
<1>4. TypeOK'
  <2>1. left' \in 0..MaxMessages
    BY <1>1
  <2> QED BY <1>1, <1>2, <2>1 DEF IInv, TypeOK
<1>5. Calls'
  BY <1>2, <1>3 DEF IInv, Calls
<1>6. MainSound'
  BY <1>3 DEF IInv, MainSound
<1>7. OwedIsRead'
  BY <1>1 DEF IInv, OwedIsRead, TypeOK
<1>8. OneReply'
  BY DEF IInv, OneReply, Unanswered
<1> QED BY <1>4, <1>5, <1>6, <1>7, <1>8 DEF IInv

\* A cancellation: of a live call, or of none.
LEMMA CancelInv == ASSUME IInv, NEW i \in Ids, Cancel(i) PROVE IInv'
<1>1. left \in 0..MaxMessages /\ left > 0 /\ left' = left - 1 /\ main = "read"
  BY DEF Cancel, Read, IInv, TypeOK
<1>2. target = NoId /\ todo = {}
  BY <1>1 DEF IInv, MainSound
<1>3. CASE i \in requests
  BY <1>1, <1>2, <1>3, MarkInv DEF Cancel
<1>4. CASE i \notin requests
  <2>1. MainSound'
    BY <1>2, <1>4 DEF Cancel, MainSound
  <2> QED BY <1>1, <1>2, <1>4, <2>1, MainStep DEF Cancel, IInv, TypeOK
<1> QED BY <1>3, <1>4

\* The sweep marks one call after the other.
LEMMA SweepCancelInv == ASSUME IInv, NEW i \in Ids, SweepCancel(i) PROVE IInv'
<1>1. i \in requests /\ todo \subseteq requests /\ left \in 0..MaxMessages
  BY DEF SweepCancel, IInv, TypeOK
<1>2. /\ control' = [control EXCEPT ![i].cancelled = TRUE] /\ target' = i
      /\ main' = "sweep" /\ todo' \subseteq requests /\ left' = left
      /\ UNCHANGED <<state, requests, worker, updater, transport_failed, broken, owed>>
  BY <1>1 DEF SweepCancel
<1>3. left' \in 0..left
  BY <1>1, <1>2
<1> QED BY <1>1, <1>2, <1>3, MarkInv

\* The target is interrupted and requests_mutex released.
LEMMA InterruptTargetInv == ASSUME IInv, InterruptTarget PROVE IInv'
<1> DEFINE i == target
<1>1. i \in requests /\ i \in Ids /\ main \in {"cancel", "sweep"} /\ control[i].cancelled
  BY DEF InterruptTarget, IInv, TypeOK, MainSound
<1>2. control[i] \in Controls /\ worker[i] \in Workers /\ CallSound(control[i], worker[i])
  BY <1>1, CallOf
<1>3. worker'[i] = At(worker[i], worker[i].pc, AfterInterrupt(i), worker[i].scan,
                      worker[i].outcome)
  BY <1>1, <1>2 DEF InterruptTarget, IInv, TypeOK
<1>4. worker'[i] \in Workers /\ CallSound(control[i], worker'[i])
  BY <1>1, <1>3, InterruptSound
<1>5. /\ worker'[i].pc = worker[i].pc /\ worker'[i].outcome = worker[i].outcome
      /\ worker' \in [Ids -> Workers]
      /\ \A k \in Ids \ {i} : worker'[k] = worker[k]
  BY <1>1, <1>3, <1>4 DEF InterruptTarget, IInv, TypeOK
<1>6. /\ target' = NoId /\ main' \in {"loop", "sweep"}
      /\ main' = IF main = "cancel" THEN "loop" ELSE main
      /\ UNCHANGED <<state, todo, requests, control, updater, transport_failed, broken, owed, left>>
  BY <1>1 DEF InterruptTarget
<1> HIDE DEF i, Controls, Workers, CallSound, At
<1>7. TypeOK'
  BY <1>5, <1>6 DEF IInv, TypeOK
<1>8. Calls'
  BY <1>4, <1>5, <1>6 DEF IInv, Calls
<1>9. MainSound'
  BY <1>1, <1>6 DEF IInv, MainSound
<1>10. OwedIsRead' /\ OneReply'
  BY <1>5, <1>6 DEF IInv, OwedIsRead, OneReply, Unanswered
<1> QED BY <1>7, <1>8, <1>9, <1>10 DEF IInv

\* A call is accepted, or refused as a duplicate.
LEMMA CallToolInv == ASSUME IInv, NEW i \in Ids, CallTool(i) PROVE IInv'
<1>1. /\ left \in 0..MaxMessages /\ left > 0 /\ left' = left - 1 /\ main = "read"
      /\ main' = "loop" /\ target' = target /\ todo' = todo
      /\ UNCHANGED <<state, updater, broken>>
  BY DEF CallTool, Read, IInv, TypeOK
<1>2. target = NoId /\ todo = {}
  BY <1>1 DEF IInv, MainSound
<1>3. CASE i \in requests
  <2>1. WriteTo(i, WithRequest(i)) /\ UNCHANGED <<requests, control, worker>>
    BY <1>3 DEF CallTool
  <2>2. transport_failed' \in BOOLEAN
    BY <2>1 DEF WriteTo, IInv, TypeOK
  <2>3. MainSound'
    BY <1>1, <1>2 DEF MainSound
  <2> QED BY <1>1, <1>2, <2>1, <2>2, <2>3, MainStep DEF IInv, TypeOK
<1>4. CASE i \notin requests
  <2>1. PICK t \in {"scan", "update"} :
          worker' = [worker EXCEPT ![i] = [NoWorker EXCEPT !.pc = "parse", !.tool = t]]
    BY <1>4 DEF CallTool
  <2>2. /\ requests' = requests \cup {i} /\ control' = [control EXCEPT ![i] = NoControl]
        /\ owed' = [owed EXCEPT ![i] = owed[i] + 1] /\ transport_failed' = transport_failed
    BY <1>4 DEF CallTool, WithRequest
  <2>3. /\ worker'[i] = [pc |-> "parse", tool |-> t, handle |-> "closed", scan |-> "none",
                         outcome |-> "none"]
        /\ control'[i] = NoControl
    BY <2>1, <2>2 DEF NoWorker, IInv, TypeOK
  <2>4. worker'[i] \in Workers /\ control'[i] \in Controls /\ CallSound(control'[i], worker'[i])
    BY <2>3 DEF NoControl
  <2>5. Alone(i) /\ worker'[i].pc = "parse" /\ worker'[i].outcome = "none"
    <3>1. PICK w : w = [NoWorker EXCEPT !.pc = "parse", !.tool = t]
      OBVIOUS
    <3>2. worker' = [worker EXCEPT ![i] = w]
      BY <2>1, <3>1, Zenon
    <3> QED BY <2>2, <2>3, <2>4, <3>2 DEF Alone, IInv, TypeOK
  <2>6. worker[i].pc = "none"
    BY <1>4, CallOf
  <2>7. /\ owed \in [Ids -> 0..MaxMessages] /\ \A k \in Ids : owed[k] + left <= MaxMessages
        /\ ~broken => owed[i] = 0
    BY <2>6 DEF IInv, TypeOK, OwedIsRead, OneReply, Unanswered
  <2>8. /\ owed' \in [Ids -> 0..MaxMessages] /\ owed'[i] = owed[i] + 1
        /\ \A k \in Ids \ {i} : owed'[k] = owed[k]
    BY <1>1, <2>2, <2>7
  <2> HIDE DEF Controls, Workers, CallSound
  <2>9. TypeOK'
    BY <1>1, <1>2, <2>2, <2>5, <2>8 DEF Alone, IInv, TypeOK
  <2>10. Calls'
    BY <2>2, <2>4, <2>5 DEF Alone, IInv, Calls
  <2>11. MainSound'
    BY <1>1, <1>2 DEF MainSound
  <2>12. OwedIsRead'
    BY <1>1, <2>7, <2>8 DEF OwedIsRead
  <2>13. OneReply'
    BY <1>1, <2>5, <2>7, <2>8 DEF Alone, IInv, OneReply, Unanswered
  <2> QED BY <2>9, <2>10, <2>11, <2>12, <2>13 DEF IInv
<1> QED BY <1>3, <1>4

HIDE DEF At, Flags, Controls, Workers, CallSound, TimerSound, HandleSound, OutcomeSound,
         SentSound, Cut, Before, After

\* What the main thread does at once, or without a request.
LEMMA MainThreadInv ==
    ASSUME IInv,
           \/ NextMessage \/ LeaveLoop \/ SweepDone \/ WaitWorkers
           \/ ReadEndOfFile \/ ReadError \/ InvalidMessage \/ Initialized
           \/ \E i \in Ids : Initialize(i) \/ AnswerAtOnce(i)
    PROVE  IInv'
<1>1. /\ left \in 0..MaxMessages /\ left' \in 0..left
      /\ UNCHANGED <<requests, control, worker, updater, broken, target>>
      /\ main \notin {"asleep", "exited", "cancel"}
  BY DEF NextMessage, LeaveLoop, SweepDone, WaitWorkers, ReadEndOfFile, ReadError,
     InvalidMessage, Initialized, Initialize, AnswerAtOnce, Read, IInv, TypeOK
<1>2. /\ transport_failed' \in BOOLEAN
      /\ state' \in {"Uninitialized", "AwaitingInitialized", "Running"}
  BY DEF NextMessage, LeaveLoop, SweepDone, WaitWorkers, ReadEndOfFile, ReadError,
     InvalidMessage, Initialized, Initialize, AnswerAtOnce, IInv, TypeOK, WriteTo
<1>3. \/ UNCHANGED owed
      \/ left' < left /\ \E i \in Ids : WriteTo(i, WithRequest(i))
  BY <1>1 DEF NextMessage, LeaveLoop, SweepDone, WaitWorkers, ReadEndOfFile, ReadError,
     InvalidMessage, Initialized, Initialize, AnswerAtOnce, Read
<1>4. /\ main' \in {"loop", "read", "left", "sweep", "wait", "asleep", "exited"}
      /\ todo' \subseteq requests /\ target' = NoId
      /\ MainSound'
  <2>1. CASE LeaveLoop
    BY <2>1 DEF LeaveLoop, IInv, MainSound
  <2>2. CASE SweepDone
    BY <2>2 DEF SweepDone, IInv, MainSound
  <2>3. CASE ~LeaveLoop /\ ~SweepDone
    <3>1. main \in {"loop", "read", "wait"} /\ todo' = todo
      BY <2>3 DEF NextMessage, WaitWorkers, ReadEndOfFile, ReadError,
         InvalidMessage, Initialized, Initialize, AnswerAtOnce, Read
    <3>2. /\ main' \in {"loop", "read", "left", "asleep", "exited"}
          /\ main' = "exited" => requests = {}
      BY <2>3 DEF NextMessage, WaitWorkers, ReadEndOfFile, ReadError,
         InvalidMessage, Initialized, Initialize, AnswerAtOnce
    <3>3. todo = {} /\ target = NoId
      BY <3>1 DEF IInv, MainSound
    <3> QED BY <1>1, <3>1, <3>2, <3>3 DEF MainSound
  <2> QED BY <2>1, <2>2, <2>3
<1> QED BY <1>1, <1>2, <1>3, <1>4, MainStep

\* The output breaks.
LEMMA OutputBreaksInv == ASSUME IInv, OutputBreaks PROVE IInv'
  BY DEF OutputBreaks, IInv, TypeOK, Calls, MainSound, OwedIsRead, OneReply, Unanswered

----------------------------------------------------------------------------
(* The theorems.                                                           *)

\* The invariant holds at first.
LEMMA InitInv == Init => IInv
<1> SUFFICES ASSUME Init PROVE IInv
  OBVIOUS
<1>1. /\ NoWorker \in Workers /\ NoControl \in Controls /\ CallSound(NoControl, NoWorker)
      /\ NoWorker.pc = "none"
  BY DEF NoWorker, NoControl, Workers, Controls, CallSound, TimerSound, HandleSound, OutcomeSound,
     SentSound, Cut, Before, After
<1>2. TypeOK
  <2>1. 0 \in 0..MaxMessages /\ MaxMessages \in 0..MaxMessages
    OBVIOUS
  <2>2. owed \in [Ids -> 0..MaxMessages] /\ left \in 0..MaxMessages
    BY <2>1, Zenon DEF Init
  <2> QED BY <1>1, <2>2 DEF Init, TypeOK
<1>3. Calls /\ MainSound
  BY <1>1 DEF Init, Calls, MainSound
<1>4. OwedIsRead /\ OneReply
  BY <1>1 DEF Init, OwedIsRead, OneReply, Unanswered
<1> QED BY <1>2, <1>3, <1>4 DEF IInv

\* Every step preserves the invariant.
LEMMA NextInv == IInv /\ [Next]_vars => IInv'
<1> SUFFICES ASSUME IInv, [Next]_vars PROVE IInv'
  OBVIOUS
<1>1. CASE UNCHANGED vars
  BY <1>1 DEF vars, IInv, TypeOK, Calls, MainSound, OwedIsRead, OneReply, Unanswered
<1>2. CASE MainThread \/ Client
  BY <1>2, MainThreadInv, InterruptTargetInv, SweepCancelInv, CallToolInv, CancelInv
     DEF MainThread, Client
<1>3. ASSUME NEW i \in Ids, Worker(i) PROVE IInv'
  BY <1>3, StartWorkerInv, RejectInv, CallInv, BindInv, AfterBindInv, BeginStatementInv,
     CollectRowInv, EndStatementInv, LockUpdatesInv, UpdateInv, AfterWorkInv, NextStatementInv,
     UnbindInv, CloseInv, CompleteInv, JoinInv, WriteReplyInv, FinishInv
     DEF Worker
<1>4. ASSUME NEW i \in Ids, DeadlineThread(i) \/ DeadlinePasses(i) PROVE IInv'
  BY <1>4, TimerCompletedInv, TimerExpiresInv, TimerInterruptsInv, DeadlinePassesInv
     DEF DeadlineThread
<1>5. CASE OutputBreaks
  BY <1>5, OutputBreaksInv
<1> QED BY <1>1, <1>2, <1>3, <1>4, <1>5 DEF Next, Exited

\* The inductive invariant holds in every reachable state.
LEMMA Inductive == Spec => []IInv
  BY InitInv, NextInv, PTL DEF Spec

\* The variables keep their types, and the main thread only ever uses controls that are in
\* the map (finish() waits for requests_mutex).
THEOREM TypeCorrect == Spec => []TypeOK
<1>1. IInv => TypeOK
  BY DEF IInv
<1> QED BY <1>1, Inductive, PTL

\* However calls, cancellations and deadlines overlap, an interrupt finds an open handle:
\* a handle is bound after it is opened and unbound before it is closed.
THEOREM HandlesOutliveInterrupts == Spec => []InterruptsOpenHandle
<1>1. IInv => InterruptsOpenHandle
  BY DEF IInv, Calls, CallSound, HandleSound, InterruptsOpenHandle
<1> QED BY <1>1, Inductive, PTL

\* A reply never presents work that was cut short as a result, and never calls a call
\* stopped that was not (the last stopped() test and the override after the join).
THEOREM AnswersAreTrue == Spec => []AnswerIsTrue
<1>1. IInv => AnswerIsTrue
  BY DEF IInv, Calls, CallSound, OutcomeSound, AnswerIsTrue, Cut, After
<1> QED BY <1>1, Inductive, PTL

\* Every request read is answered once, in whatever order calls end.
THEOREM RequestsAreAnsweredOnce == Spec => []OneReply
<1>1. IInv => OneReply
  BY DEF IInv
<1> QED BY <1>1, Inductive, PTL

\* run() returns after the last worker and the last deadline thread.
THEOREM WorkersEndFirst == Spec => []RunOutlivesWorkers
<1>1. IInv => RunOutlivesWorkers
  BY DEF IInv, MainSound, Calls, CallSound, TimerSound, RunOutlivesWorkers
<1> QED BY <1>1, Inductive, PTL

=============================================================================
