-------------------------- MODULE LspServerProofs --------------------------
(***************************************************************************)
(* What the language server promises its client for every client, every    *)
(* set of files and every order of stores and edits, checked by TLAPS:     *)
(* each request is answered once and before the next message is read,      *)
(* nothing is looked up or indexed outside a session, highlights come from *)
(* the overlay where it has replaced what the database knows, and an       *)
(* answer has what was there while it was made and nothing else.           *)
(***************************************************************************)
EXTENDS LspServer, SequenceTheorems, FiniteSetTheorems, WellFoundedInduction, TLAPS

\* A job has all its fields.
Shaped(j) ==
    j = [pc |-> j.pc, id |-> j.id, method |-> j.method, params |-> j.params, column |-> j.column,
         version |-> j.version, names |-> j.names, cursors |-> j.cursors, todo |-> j.todo, hit |-> j.hit,
         excluded |-> j.excluded, cached |-> j.cached, found |-> j.found, calls |-> j.calls,
         functions |-> j.functions]

\* What is owed while the job in hand is j.
Owed(j) == [id \in Ids |-> IF j.pc # "idle" /\ j.id = id THEN 1 ELSE 0]

\* The request in hand has an id of the client's; its answer is all that is owed
\* until the server breaks off, and one that ends in order has none in hand.
JobInv ==
    /\ Shaped(job)
    /\ Working => job.id \in Ids
    /\ exit \in {None, 0} => due = Owed(job)
    /\ exit = 0 => ~Working

\* The server is in a session, and so is what it has in hand.
SessionInv == TypeOK /\ JobInv

-----------------------------------------------------------------------------
(* Jobs.                                                                    *)

\* The idle job, and one that is answered at once.
LEMMA NewJobs ==
    /\ Shaped(Idle) /\ Idle.pc = "idle"
    /\ \A id : /\ Shaped(Instead(id)) /\ Instead(id).pc = "reply"
               /\ Instead(id).id = id /\ Instead(id).method = "none"
<1>1. Shaped(Idle) /\ Idle.pc = "idle" /\ Idle.method = "none"
  BY DEF Shaped, Idle
<1>2. ASSUME NEW id PROVE /\ Shaped(Instead(id)) /\ Instead(id).pc = "reply"
                          /\ Instead(id).id = id /\ Instead(id).method = "none"
  <2> DEFINE idle == Idle
  <2>1. Instead(id) = [idle EXCEPT !.pc = "reply", !.id = id]
    BY DEF Instead
  <2>2. Shaped(idle) /\ idle.method = "none"
    BY <1>1
  <2> HIDE DEF idle
  <2> QED BY <2>1, <2>2 DEF Shaped
<1> QED BY <1>1, <1>2

\* An answer's records leave the request as it was.
LEMMA CollectParams ==
    ASSUME NEW j, Shaped(j), NEW op, NEW records
    PROVE  LET c == Collect(op, j, records)
           IN /\ Shaped(c) /\ c.pc = j.pc /\ c.id = j.id /\ c.method = j.method
              /\ c.params = j.params /\ c.column = j.column /\ c.version = j.version
              /\ c.names = j.names /\ c.cursors = j.cursors /\ c.todo = j.todo
              /\ c.excluded = j.excluded /\ c.calls = j.calls /\ c.functions = j.functions
<1> DEFINE g == Gathered(op, j, records)
<1>1. Collect(op, j, records) = [j EXCEPT !.hit = g.hit, !.cached = g.cached, !.found = g.found]
  BY DEF Collect
<1> HIDE DEF g
<1> QED BY <1>1 DEF Shaped

\* The next statement after s was tried on the overlay.
LEMMA OverlayParams ==
    ASSUME Shaped(job), NEW s
    PROVE  LET c == AfterOverlay(s)
           IN /\ Shaped(c) /\ c.pc = job.pc /\ c.id = job.id /\ c.method = job.method
              /\ c.params = job.params /\ c.column = job.column /\ c.version = job.version
              /\ c.names = job.names /\ c.cursors = job.cursors /\ c.todo = Tail(job.todo)
              /\ c.calls = job.calls /\ c.functions = job.functions
<1> DEFINE hit == IF s.filter = "definition" THEN FALSE ELSE job.hit
           todo == Tail(job.todo)
           reset == [job EXCEPT !.todo = todo, !.excluded = None, !.hit = hit]
           above == IF HasOverlay(s.cursor.path) THEN OverlayQuery(s.cursor.path, s.cursor.variant, Options(s))
                    ELSE <<>>
           collected == Collect(s.op, reset, above)
<1>1. PICK excluded : AfterOverlay(s) = [collected EXCEPT !.excluded = excluded]
  BY Zenon DEF AfterOverlay
<1> HIDE DEF above, hit, todo
<1>2. /\ Shaped(reset) /\ reset.pc = job.pc /\ reset.id = job.id /\ reset.method = job.method
      /\ reset.params = job.params /\ reset.column = job.column /\ reset.version = job.version
      /\ reset.names = job.names /\ reset.cursors = job.cursors /\ reset.todo = todo
      /\ reset.calls = job.calls /\ reset.functions = job.functions
  <2> DEFINE first == [job EXCEPT !.todo = todo]
             second == [first EXCEPT !.excluded = None]
             Same(j) == /\ Shaped(j) /\ j.pc = job.pc /\ j.id = job.id /\ j.method = job.method
                        /\ j.params = job.params /\ j.column = job.column /\ j.version = job.version
                        /\ j.names = job.names /\ j.cursors = job.cursors /\ j.todo = todo
                        /\ j.calls = job.calls /\ j.functions = job.functions
  <2>1. Same(first)
    BY DEF Shaped
  <2>2. reset = [second EXCEPT !.hit = hit]
    OBVIOUS
  <2> HIDE DEF first
  <2>3. Same(second)
    BY <2>1 DEF Shaped
  <2> HIDE DEF second, reset
  <2> QED BY <2>2, <2>3 DEF Shaped
<1> HIDE DEF reset
<1>3. /\ Shaped(collected) /\ collected.pc = job.pc /\ collected.id = job.id /\ collected.method = job.method
      /\ collected.params = job.params /\ collected.column = job.column /\ collected.version = job.version
      /\ collected.names = job.names /\ collected.cursors = job.cursors /\ collected.todo = todo
      /\ collected.calls = job.calls /\ collected.functions = job.functions
  BY <1>2, CollectParams
<1> HIDE DEF collected
<1> QED BY <1>1, <1>3 DEF Shaped, todo

\* A statement of the job in hand leaves its request in hand.
LEMMA NavigationKeeps ==
    ASSUME Shaped(job), Working, NavigationStep
    PROVE  /\ Shaped(job') /\ job'.pc # "idle" /\ job'.id = job.id
           /\ job'.method \in {job.method, "none"}
<1>1. CASE Locate
  <2>1. PICK column, version, names :
           job' \in {[job EXCEPT !.pc = "run"],
                     [job EXCEPT !.pc = "at", !.column = column, !.version = version, !.names = names]}
    BY <1>1, Zenon DEF Locate
  <2> QED BY <2>1 DEF Shaped
<1>2. CASE RecordsAt
  <2>1. /\ job.pc = "at"
        /\ \E cursors, todo :
              job' \in {[job EXCEPT !.names = Tail(@)],
                        [job EXCEPT !.pc = "run", !.names = <<>>, !.cursors = cursors, !.todo = todo]}
    BY <1>2, Zenon DEF RecordsAt
  <2> QED BY <2>1 DEF Shaped
<1>3. CASE QuerySymbol
  <2> DEFINE s == Head(job.todo)
             before == IF s.first THEN AfterOverlay(s) ELSE [job EXCEPT !.todo = Tail(@)]
  <2>1. job.pc = "run"
    BY <1>3 DEF QuerySymbol
  <2>2. PICK rows : job' = Collect(s.op, before, rows)
    BY <1>3, Zenon DEF QuerySymbol
  <2>3. Shaped(before) /\ before.pc = job.pc /\ before.id = job.id /\ before.method = job.method
    <3>1. CASE s.first
      BY <3>1, OverlayParams
    <3>2. CASE ~s.first
      BY <3>2 DEF Shaped
    <3> QED BY <3>1, <3>2
  <2> HIDE DEF before
  <2> QED BY <2>1, <2>2, <2>3, CollectParams
<1>4. CASE Fallback
  <2>1. job.pc = "run" /\ \E todo : job' = [job EXCEPT !.todo = todo]
    BY <1>4, Zenon DEF Fallback
  <2> QED BY <2>1 DEF Shaped
<1>5. CASE QueryHierarchy
  <2>1. \/ job' = Failure
        \/ \E calls, todo : job' = [job EXCEPT !.pc = "run", !.calls = calls, !.todo = todo]
    BY <1>5, Zenon DEF QueryHierarchy
  <2> QED BY <2>1, NewJobs DEF Shaped, Failure
<1>6. CASE QueryFunctions
  <2>1. job.pc = "run" /\ \E functions : job' = [job EXCEPT !.todo = Tail(@), !.functions = functions]
    BY <1>6, Zenon DEF QueryFunctions
  <2> QED BY <2>1 DEF Shaped
<1>7. CASE StatementFails
  BY <1>7, NewJobs DEF StatementFails, Failure
<1> QED BY <1>1, <1>2, <1>3, <1>4, <1>5, <1>6, <1>7 DEF NavigationStep

-----------------------------------------------------------------------------
(* What is owed.                                                            *)

\* A message is read with nothing owed; what is in hand after it is what it expects.
LEMMA TakenUp ==
    ASSUME SessionInv, NEW m \in Messages, Receive(m), Shaped(job'),
           Expects(m) => job'.pc # "idle" /\ job'.id = Id(m),
           ~Expects(m) => job'.pc = "idle"
    PROVE  /\ Working' => job'.id \in Ids
           /\ due' = Owed(job') /\ due' \in [Ids -> {0, 1}]
<1>1. exit = None /\ ~Working /\ due = Owed(job)
  BY DEF SessionInv, JobInv, Receive
<1>2. due = [id \in Ids |-> 0]
  BY <1>1 DEF Owed, Working
<1>3. Id(m) \in Ids
  BY MessagesAssumption DEF Id
<1>4. CASE Expects(m)
  <2>1. due' = [due EXCEPT ![Id(m)] = @ + 1]
    BY <1>4 DEF Receive
  <2>2. due' = [id \in Ids |-> IF Id(m) = id THEN 1 ELSE 0]
    BY <1>2, <1>3, <2>1
  <2>3. job'.pc # "idle" /\ job'.id = Id(m)
    BY <1>4
  <2> QED BY <1>3, <2>2, <2>3 DEF Owed, Working
<1>5. CASE ~Expects(m)
  <2>1. due' = due /\ job'.pc = "idle"
    BY <1>5 DEF Receive
  <2> QED BY <1>2, <2>1 DEF Owed, Working
<1> QED BY <1>4, <1>5

\* Error answers and results without a lookup.
LEMMA AnsweredAtOnce ==
    ASSUME SessionInv, NEW m \in Messages, Receive(m), Expects(m), AnswerAtOnce(m), exit' = exit
    PROVE  JobInv' /\ due' \in [Ids -> {0, 1}] /\ job'.method = "none"
<1>1. job' = Instead(Id(m)) /\ exit = None
  BY DEF AnswerAtOnce, Receive
<1>2. Shaped(job') /\ job'.pc = "reply" /\ job'.id = Id(m) /\ job'.method = "none"
  BY <1>1, NewJobs
<1>3. /\ Working' => job'.id \in Ids
      /\ due' = Owed(job') /\ due' \in [Ids -> {0, 1}]
  BY <1>2, TakenUp
<1> QED BY <1>1, <1>2, <1>3, NoneAssumption DEF JobInv, Shaped

\* Notifications.
LEMMA NotAnswered ==
    ASSUME SessionInv, NEW m \in Messages, Receive(m), ~Expects(m), Done
    PROVE  JobInv' /\ due' \in [Ids -> {0, 1}] /\ ~Working'
<1>1. job' = Idle
  BY DEF Done
<1>2. Shaped(job') /\ job'.pc = "idle"
  BY <1>1, NewJobs
<1>3. /\ Working' => job'.id \in Ids
      /\ due' = Owed(job') /\ due' \in [Ids -> {0, 1}]
  BY <1>2, TakenUp
<1> QED BY <1>2, <1>3 DEF JobInv, Working, Shaped

-----------------------------------------------------------------------------
(* The messages.                                                            *)

\* What is refused is owed an answer; what is not refused came in its place.
LEMMA RefusedIsExpected ==
    ASSUME NEW m
    PROVE  /\ Refused(m) => Expects(m)
           /\ ~Refused(m) => m.form = "valid"
           /\ ~Refused(m) /\ m.method = "exit" => m.id = None
           /\ ~Refused(m) /\ m.method \notin {"exit", "initialize"} /\ m.id # None => state = "Running"
BY DEF Refused, Expects

\* A message that is refused.
LEMMA RefuseKeeps ==
    ASSUME SessionInv, NEW m \in Messages, Refuse(m)
    PROVE  SessionInv'
<1>1. /\ Receive(m) /\ Expects(m) /\ AnswerAtOnce(m)
      /\ UNCHANGED <<edition, configured, overlay, workspace, disk, state, exit>>
  BY RefusedIsExpected DEF Refuse, worldVars, dbVars
<1>2. JobInv' /\ due' \in [Ids -> {0, 1}] /\ job'.method = "none"
  BY <1>1, AnsweredAtOnce
<1> QED BY <1>1, <1>2 DEF SessionInv, TypeOK

\* A notification without effect.
LEMMA PassKeeps ==
    ASSUME SessionInv, NEW m \in Messages, Pass(m)
    PROVE  SessionInv'
<1>1. /\ Receive(m) /\ ~Expects(m) /\ Done
      /\ UNCHANGED <<edition, configured, overlay, workspace, disk, state, exit>>
  BY DEF Pass, Expects, worldVars, dbVars
<1>2. JobInv' /\ due' \in [Ids -> {0, 1}] /\ ~Working'
  BY <1>1, NotAnswered
<1> QED BY <1>1, <1>2 DEF SessionInv, TypeOK

\* A session begins, ...
LEMMA InitializeKeeps ==
    ASSUME SessionInv, NEW m \in Messages, Initialize(m)
    PROVE  SessionInv'
<1>1. /\ Receive(m) /\ Expects(m) /\ AnswerAtOnce(m) /\ state' = "Running"
      /\ UNCHANGED <<edition, configured, overlay, disk, exit>>
  BY DEF Initialize, Expects, dbVars
<1>2. JobInv' /\ due' \in [Ids -> {0, 1}] /\ job'.method = "none"
  BY <1>1, AnsweredAtOnce
<1> QED BY <1>1, <1>2 DEF SessionInv, TypeOK

\* ... is over, ...
LEMMA ShutdownKeeps ==
    ASSUME SessionInv, NEW m \in Messages, Shutdown(m)
    PROVE  SessionInv'
<1>1. /\ Receive(m) /\ Expects(m) /\ AnswerAtOnce(m) /\ state' = "Shutdown"
      /\ UNCHANGED <<edition, configured, overlay, workspace, disk, exit>>
  BY DEF Shutdown, Expects, worldVars, dbVars
<1>2. JobInv' /\ due' \in [Ids -> {0, 1}] /\ job'.method = "none"
  BY <1>1, AnsweredAtOnce
<1> QED BY <1>1, <1>2 DEF SessionInv, TypeOK

\* ... and the server ends.
LEMMA ExitKeeps ==
    ASSUME SessionInv, NEW m \in Messages, Exit(m)
    PROVE  SessionInv'
<1>1. /\ Receive(m) /\ ~Expects(m) /\ Done /\ exit' \in {0, 1}
      /\ UNCHANGED <<edition, configured, overlay, workspace, disk, state>>
  BY RefusedIsExpected DEF Exit, Expects, worldVars, dbVars
<1>2. JobInv' /\ due' \in [Ids -> {0, 1}] /\ ~Working'
  BY <1>1, NotAnswered
<1> QED BY <1>1, <1>2 DEF SessionInv, TypeOK

\* A request that looks something up.
LEMMA LookUpKeeps ==
    ASSUME SessionInv, NEW m \in Messages, LookUp(m)
    PROVE  SessionInv'
<1>1. /\ Receive(m) /\ m.method \in Lookups /\ m.id # None /\ ~Refused(m)
      /\ UNCHANGED <<edition, configured, overlay, workspace, disk, state, exit>>
  BY DEF LookUp, worldVars, dbVars
<1>2. Expects(m) /\ Id(m) = m.id /\ state = "Running" /\ exit = None
  BY <1>1, RefusedIsExpected DEF Expects, Id, Lookups, Receive
<1>3. CASE BadParams(m)
  <2>1. AnswerAtOnce(m)
    BY <1>3 DEF LookUp
  <2>2. JobInv' /\ due' \in [Ids -> {0, 1}] /\ job'.method = "none"
    BY <1>1, <1>2, <2>1, AnsweredAtOnce
  <2> QED BY <1>1, <2>2 DEF SessionInv, TypeOK
<1>4. CASE ~BadParams(m)
  <2> DEFINE pc == IF m.method \in {"incoming", "outgoing"} THEN "calls" ELSE "locate"
             idle == Idle
  <2>1. job' = [idle EXCEPT !.pc = pc, !.id = m.id, !.method = m.method, !.params = m.params]
    BY <1>4, Zenon DEF LookUp
  <2>2. Shaped(job') /\ job'.pc # "idle" /\ job'.id = Id(m)
    <3>1. pc # "idle" /\ Shaped(idle)
      BY NewJobs
    <3> HIDE DEF pc, idle
    <3> QED BY <1>2, <2>1, <3>1 DEF Shaped
  <2>3. /\ Working' => job'.id \in Ids
        /\ due' = Owed(job') /\ due' \in [Ids -> {0, 1}]
    BY <1>1, <1>2, <2>2, TakenUp
  <2>4. JobInv'
    BY <1>1, <1>2, <2>2, <2>3, NoneAssumption DEF JobInv, Shaped
  <2> QED BY <1>1, <1>2, <2>3, <2>4 DEF SessionInv, TypeOK
<1> QED BY <1>3, <1>4

\* A save leaves the versions of files and overlays in their ranges.
LEMMA DidSaveKeeps ==
    ASSUME SessionInv, NEW m \in Messages, DidSave(m)
    PROVE  SessionInv'
<1> DEFINE file == m.params
<1>1. /\ Receive(m) /\ ~Expects(m) /\ Done /\ exit' \in {None, 1} /\ state = "Running"
      /\ Persisted(file) \/ Fallen(file) \/ FailedRun(file)
      /\ UNCHANGED <<configured, workspace, disk, state>>
  BY DEF DidSave, Expects
<1>2. JobInv' /\ due' \in [Ids -> {0, 1}] /\ ~Working'
  BY <1>1, NotAnswered
<1>3. OnDisk(file) # 0 => file \in SourceFiles /\ OnDisk(file) \in 1 .. MaxVersion
  BY BoundsAssumption DEF OnDisk, SessionInv, TypeOK
<1>4. edition' \in [Files -> 0 .. MaxEdition]
  <2>1. edition \in [Files -> 0 .. MaxEdition]
    BY DEF SessionInv, TypeOK
  <2>2. CASE Persisted(file)
    BY <1>3, <2>1, <2>2, BoundsAssumption DEF Persisted, Put
  <2>3. CASE ~Persisted(file)
    BY <1>1, <2>1, <2>3 DEF Fallen, FailedRun, dbVars
  <2> QED BY <2>2, <2>3
<1>5. /\ DOMAIN overlay' \subseteq SourceFiles
      /\ \A f \in DOMAIN overlay' : overlay'[f] \in 1 .. MaxVersion
  <2>1. /\ DOMAIN overlay \subseteq SourceFiles
        /\ \A f \in DOMAIN overlay : overlay[f] \in 1 .. MaxVersion
    BY DEF SessionInv, TypeOK
  <2>2. CASE Fallen(file)
    BY <1>3, <2>1, <2>2 DEF Fallen, Replaced
  <2>3. CASE ~Fallen(file)
    BY <1>1, <2>1, <2>3 DEF Persisted, FailedRun, Erased
  <2> QED BY <2>2, <2>3
<1> QED BY <1>1, <1>2, <1>4, <1>5 DEF SessionInv, TypeOK

\* The answer settles what is owed; one that cannot be written ends the server.
LEMMA ReplyKeeps ==
    ASSUME SessionInv, Reply
    PROVE  SessionInv'
<1>1. /\ exit = None /\ Working /\ job' = Idle
      /\ UNCHANGED <<edition, configured, overlay, workspace, disk, state>>
  BY DEF Reply, Done, Answered, Working, worldVars, dbVars
<1>2. Shaped(job') /\ job'.pc = "idle"
  BY <1>1, NewJobs
<1>3. job.id \in Ids /\ due = Owed(job) /\ due \in [Ids -> {0, 1}]
  BY <1>1 DEF SessionInv, TypeOK, JobInv
<1>4. CASE due' = [due EXCEPT ![job.id] = @ - 1] /\ exit' \in {None, 1}
  <2>1. due' = Owed(job') /\ due' \in [Ids -> {0, 1}]
    BY <1>1, <1>2, <1>3, <1>4 DEF Owed, Working
  <2> QED BY <1>1, <1>2, <1>4, <2>1 DEF SessionInv, TypeOK, JobInv, Working, Shaped
<1>5. CASE due' = due /\ exit' = 1
  BY <1>1, <1>2, <1>3, <1>5, NoneAssumption DEF SessionInv, TypeOK, JobInv, Working, Shaped
<1> QED BY <1>4, <1>5 DEF Reply

\* The client is gone.
LEMMA EndKeeps ==
    ASSUME SessionInv, EndOfInput
    PROVE  SessionInv'
BY DEF EndOfInput, SessionInv, TypeOK, JobInv, Working, Shaped, worldVars, dbVars

\* The request in hand is worked on.
LEMMA WorkKeeps ==
    ASSUME SessionInv, Work
    PROVE  SessionInv'
<1>1. exit = None /\ NavigationStep /\ UNCHANGED <<state, due, exit>>
  BY DEF Work
<1>2. UNCHANGED <<edition, configured, overlay, workspace, disk>> /\ Working
  BY <1>1, Zenon DEF NavigationStep, Locate, RecordsAt, QuerySymbol, Fallback, QueryHierarchy,
                     QueryFunctions, StatementFails, Working, worldVars, dbVars
<1>3. /\ Shaped(job') /\ job'.pc # "idle" /\ job'.id = job.id
      /\ job'.method \in {job.method, "none"}
  BY <1>1, <1>2, NavigationKeeps DEF SessionInv, JobInv
<1>4. job.id \in Ids /\ due = Owed(job)
  BY <1>1, <1>2 DEF SessionInv, JobInv
<1>5. due' = Owed(job')
  BY <1>1, <1>2, <1>3, <1>4 DEF Owed, Working
<1>6. JobInv'
  BY <1>1, <1>3, <1>4, <1>5, NoneAssumption DEF JobInv, Working, Shaped
<1>7. TypeOK'
  BY <1>1, <1>2, <1>3 DEF SessionInv, TypeOK, Working
<1> QED BY <1>6, <1>7 DEF SessionInv

\* Others store and edit.
LEMMA EnvironmentKeeps ==
    ASSUME SessionInv, Environment
    PROVE  SessionInv'
<1>1. exit = None /\ UNCHANGED <<configured, overlay, workspace, job, state, due, exit>>
  BY Zenon DEF Environment, OtherStore, EditFile
<1>2. JobInv'
  BY <1>1 DEF SessionInv, JobInv, Working, Shaped
<1> DEFINE InRange(e, d) == e \in [Files -> 0 .. MaxEdition] /\ d \in [SourceFiles -> 0 .. MaxVersion]
<1>3. InRange(edition', disk')
  <2>1. InRange(edition, disk)
    BY DEF SessionInv, TypeOK
  <2>2. ASSUME NEW f \in Files, NEW e \in 0 .. MaxEdition, OtherStore(f, e) PROVE InRange(edition', disk')
    <3>1. edition' = [edition EXCEPT ![f] = e] /\ disk' = disk
      BY <2>2, Zenon DEF OtherStore, StoreFile, Put
    <3> QED BY <2>1, <3>1
  <2>3. ASSUME NEW file \in SourceFiles, EditFile(file) PROVE InRange(edition', disk')
    <3>1. edition' = edition
      BY <2>3, Zenon DEF EditFile, dbVars
    <3>2. PICK version \in {0} \cup (disk[file] + 1 .. MaxVersion) : disk' = [disk EXCEPT ![file] = version]
      BY <2>3 DEF EditFile
    <3>3. version \in 0 .. MaxVersion
      BY <2>1, BoundsAssumption
    <3> QED BY <2>1, <3>1, <3>2, <3>3
  <2> QED BY <2>2, <2>3 DEF Environment
<1> QED BY <1>1, <1>2, <1>3 DEF SessionInv, TypeOK, Working

-----------------------------------------------------------------------------
\* At first no session has begun, ...
LEMMA InitSession == Init => SessionInv
<1> SUFFICES ASSUME Init PROVE SessionInv
  OBVIOUS
<1>1. /\ edition \in [Files -> {0, 1}] /\ configured \in Configured
      /\ overlay = <<>> /\ workspace = None /\ disk = [f \in SourceFiles |-> 1]
      /\ job = Idle /\ state = "Uninitialized" /\ due = [id \in Ids |-> 0] /\ exit = None
  BY Zenon DEF Init, DbInit
<1>2. Shaped(job) /\ job.pc = "idle"
  BY <1>1, NewJobs
<1>3. JobInv
  BY <1>1, <1>2 DEF JobInv, Owed, Working
<1>4. TypeOK
  BY <1>1, <1>2, BoundsAssumption DEF TypeOK, Working
<1> QED BY <1>3, <1>4 DEF SessionInv

\* ... and no step leaves it in disorder.
LEMMA NextSession == SessionInv /\ [Next]_vars => SessionInv'
<1> SUFFICES ASSUME SessionInv, [Next]_vars PROVE SessionInv'
  OBVIOUS
<1>1. CASE UNCHANGED vars
  BY <1>1 DEF vars, worldVars, dbVars, SessionInv, TypeOK, JobInv, Working, Shaped
<1>2. ASSUME NEW m \in Messages,
             Refuse(m) \/ Pass(m) \/ Initialize(m) \/ Shutdown(m) \/ Exit(m) \/ DidSave(m) \/ LookUp(m)
      PROVE  SessionInv'
  BY <1>2, RefuseKeeps, PassKeeps, InitializeKeeps, ShutdownKeeps, ExitKeeps, DidSaveKeeps, LookUpKeeps
<1>3. CASE Reply \/ EndOfInput \/ Work \/ Environment
  BY <1>3, ReplyKeeps, EndKeeps, WorkKeeps, EnvironmentKeeps
<1> QED BY <1>1, <1>2, <1>3 DEF Next

\* The server is always in a session of a client's, and a request in hand is one
\* that the client made in it (LspServer::run, LspServer::dispatch).
THEOREM SessionInvariant == Spec => []SessionInv
BY InitSession, NextSession, PTL DEF Spec

\* Versions and answers are in their ranges, and nothing is looked up or kept in
\* the overlay by a server that is not initialized (LspServer::dispatch).
THEOREM TypeCorrect == Spec => []TypeOK
<1>1. SessionInv => TypeOK
  BY DEF SessionInv
<1> QED BY <1>1, SessionInvariant, PTL

\* Each request is answered once before the next message is read, a notification
\* never, and a server that ends in order owes nothing (LspServer::reply, error).
THEOREM RequestsAreAnsweredOnce == Spec => []RepliesMatchRequests
<1>1. SessionInv => RepliesMatchRequests
  <2> SUFFICES ASSUME SessionInv PROVE RepliesMatchRequests
    OBVIOUS
  <2>1. exit \in {None, 0} => \A id \in Ids : due[id] = IF Working /\ job.id = id THEN 1 ELSE 0
    BY DEF SessionInv, JobInv, Owed, Working
  <2>2. exit = 0 => \A id \in Ids : due[id] = 0
    BY <2>1 DEF SessionInv, JobInv
  <2>3. \A id \in Ids : due[id] >= 0
    BY DEF SessionInv, TypeOK
  <2> QED BY <2>1, <2>2, <2>3 DEF RepliesMatchRequests
<1> QED BY <1>1, SessionInvariant, PTL

-----------------------------------------------------------------------------
(* Folds over the rows of an answer.                                        *)

\* Natural numbers are well-ordered, so a set that is closed under successors
\* has all of them.
LEMMA Induction ==
    ASSUME NEW S, 0 \in S, \A n \in Nat : n \in S => n + 1 \in S
    PROVE  Nat \subseteq S
<1> SUFFICES ASSUME NEW m \in Nat, m \notin S PROVE FALSE
  OBVIOUS
<1> DEFINE T == Nat \ S
           R == OpToRel(<, Nat)
<1>1. IsWellFoundedOn(R, Nat)
  BY NatLessThanWellFounded
<1>2. PICK x \in T : \A y \in T : ~(<<y, x>> \in R)
  <2> HIDE DEF R
  <2>1. T \subseteq Nat /\ T # {}
    OBVIOUS
  <2> HIDE DEF T
  <2> QED BY <1>1, <2>1, WFMin
<1>3. x # 0 /\ x - 1 \in Nat /\ x - 1 \in T
  OBVIOUS
<1>4. <<x - 1, x>> \in R
  BY <1>3 DEF OpToRel
<1> QED BY <1>2, <1>3, <1>4

\* The greatest of a set of numbers.
LEMMA MaxIsGreatest ==
    ASSUME NEW s \in SUBSET Nat, NEW n \in s, \A y \in s : n >= y
    PROVE  Max(s) = n
<1> DEFINE Top(x) == \A y \in s : x >= y
<1>1. \A x \in s : Top(x) => x = n
  OBVIOUS
<1>2. Top(CHOOSE x \in s : Top(x)) /\ (CHOOSE x \in s : Top(x)) \in s
  <2>1. Top(n)
    OBVIOUS
  <2> HIDE DEF Top
  <2> QED BY <2>1
<1>3. Max(s) = CHOOSE x \in s : Top(x)
  BY DEF Max
<1> HIDE DEF Top
<1> QED BY <1>1, <1>2, <1>3

\* What a record adds to what was gathered before.
Gather(op, x, r) ==
    CASE op = "symbol" -> CollectLocation(x, r)
      [] op = "highlight" -> CollectHighlight(x, r)
      [] op = "functions" -> CollectFunction(x, r)
      [] op = "at" -> Collected(x, r)
      [] op = "bytes" -> x + Bytes(r)
      [] op = "units" -> x + Units(r)

\* What a fold over rows defines: a function on the sets of their numbers, which
\* takes the last row of each after the others.
IsFold(h, op, base, rows, n) ==
    h = [s \in SUBSET (1 .. n) |->
            IF s = {} THEN base ELSE Gather(op, h[s \ {Max(s)}], rows[Max(s)])]

\* There is such a function.
LEMMA FoldExists ==
    ASSUME NEW op, NEW base, NEW rows, NEW n \in Nat
    PROVE  \E h : IsFold(h, op, base, rows, n)
<1> DEFINE V(h, s) == IF s = {} THEN base ELSE Gather(op, h[s \ {Max(s)}], rows[Max(s)])
           Is(h, k) == IsFold(h, op, base, rows, k)
           T == {k \in Nat : \E h : Is(h, k)}
<1>0. ASSUME NEW h, NEW k
      PROVE  Is(h, k) <=> h = [s \in SUBSET (1 .. k) |-> V(h, s)]
  BY Zenon DEF IsFold
<1> HIDE DEF Is
<1>1. 0 \in T
  <2> DEFINE h == [s \in SUBSET (1 .. 0) |-> base]
  <2>1. \A s \in SUBSET (1 .. 0) : V(h, s) = base
    <3>1. \A s \in SUBSET (1 .. 0) : s = {}
      OBVIOUS
    <3> QED BY <3>1, Zenon
  <2> HIDE DEF V
  <2>2. h = [s \in SUBSET (1 .. 0) |-> V(h, s)]
    BY <2>1
  <2> HIDE DEF h
  <2> QED BY <1>0, <2>2
<1>2. ASSUME NEW k \in Nat, k \in T PROVE k + 1 \in T
  <2>1. PICK h : h = [s \in SUBSET (1 .. k) |-> V(h, s)]
    BY <1>0, <1>2
  <2> DEFINE g == [s \in SUBSET (1 .. k + 1) |-> V(h, s)]
  <2>2. \A s \in SUBSET (1 .. k) : g[s] = h[s]
    <3>1. \A s \in SUBSET (1 .. k) : s \in SUBSET (1 .. k + 1)
      OBVIOUS
    <3>2. \A s \in SUBSET (1 .. k) : h[s] = V(h, s)
      BY <2>1, Zenon
    <3>3. \A s \in SUBSET (1 .. k + 1) : g[s] = V(h, s)
      OBVIOUS
    <3> HIDE DEF g, V
    <3> QED BY <3>1, <3>2, <3>3
  <2>3. ASSUME NEW s \in SUBSET (1 .. k + 1), s # {} PROVE s \ {Max(s)} \in SUBSET (1 .. k)
    <3>1. CASE k + 1 \in s
      <4>1. s \in SUBSET Nat /\ \A y \in s : k + 1 >= y
        OBVIOUS
      <4>2. Max(s) = k + 1
        BY <3>1, <4>1, MaxIsGreatest
      <4>3. \A m : m = k + 1 => s \ {m} \in SUBSET (1 .. k)
        OBVIOUS
      <4> QED BY <4>2, <4>3
    <3>2. CASE k + 1 \notin s
      <4>1. \A x \in s : x \in 1 .. k + 1 /\ x # k + 1
        BY <3>2
      <4>2. \A x \in s : x \in 1 .. k
        BY <4>1
      <4> QED BY <4>2
    <3> QED BY <3>1, <3>2
  <2>4. ASSUME NEW s \in SUBSET (1 .. k + 1) PROVE V(h, s) = V(g, s)
    <3>1. CASE s = {}
      BY <3>1
    <3>2. CASE s # {}
      <4>1. g[s \ {Max(s)}] = h[s \ {Max(s)}]
        <5> HIDE DEF g
        <5> QED BY <2>2, <2>3, <3>2
      <4> HIDE DEF g
      <4> QED BY <3>2, <4>1, Zenon
    <3> QED BY <3>1, <3>2
  <2>5. g = [s \in SUBSET (1 .. k + 1) |-> V(h, s)]
    OBVIOUS
  <2> HIDE DEF g, V
  <2>6. g = [s \in SUBSET (1 .. k + 1) |-> V(g, s)]
    BY <2>4, <2>5
  <2>7. Is(g, k + 1)
    BY <1>0, <2>6
  <2> QED BY <2>7
<1>3. n \in T
  <2> HIDE DEF T
  <2> QED BY <1>1, <1>2, Induction
<1> QED BY <1>3 DEF Is

\* b gathers row after row.
IsCourse(b, op, base, rows) ==
    /\ b[0] = base
    /\ \A k \in 1 .. Len(rows) : b[k] = Gather(op, b[k - 1], rows[k])

\* A fold is where its course ends.
LEMMA FoldCourse ==
    ASSUME NEW op, NEW base, NEW R, NEW rows \in Seq(R),
           NEW h, IsFold(h, op, base, rows, Len(rows))
    PROVE  \E b : IsCourse(b, op, base, rows) /\ h[DOMAIN rows] = b[Len(rows)]
<1> DEFINE n == Len(rows)
           b == [k \in 0 .. n |-> h[1 .. k]]
<1>1. n \in Nat /\ DOMAIN rows = 1 .. n
  OBVIOUS
<1>4. b[0] = base
  <2>1. 1 .. 0 = {}
    OBVIOUS
  <2>2. h[1 .. 0] = base
    BY <2>1, Zenon DEF IsFold
  <2> QED BY <1>1, <2>2
<1>5. ASSUME NEW k \in 1 .. n PROVE b[k] = Gather(op, b[k - 1], rows[k])
  <2> DEFINE s == 1 .. k
  <2>1. s \in SUBSET (1 .. n) /\ s # {} /\ s \in SUBSET Nat /\ k \in s /\ \A y \in s : k >= y
    <3>1. k \in 1 .. k /\ k \in Nat /\ k <= n
      BY <1>1
    <3> HIDE DEF n
    <3> QED BY <1>1, <3>1
  <2>2. s \ {k} = 1 .. (k - 1) /\ k \in 0 .. n /\ k - 1 \in 0 .. n
    BY <1>1
  <2>3. b[k] = h[s] /\ b[k - 1] = h[1 .. (k - 1)]
    BY <2>2
  <2> HIDE DEF s, b
  <2>4. Max(s) = k
    BY <2>1, MaxIsGreatest
  <2>5. h[s] = Gather(op, h[s \ {Max(s)}], rows[Max(s)])
    BY <2>1, Zenon DEF IsFold
  <2> QED BY <2>2, <2>3, <2>4, <2>5
<1>6. b[n] = h[DOMAIN rows]
  BY <1>1
<1> HIDE DEF b, n
<1>7. IsCourse(b, op, base, rows)
  BY <1>4, <1>5 DEF IsCourse, n
<1> QED BY <1>6, <1>7 DEF n

\* The highlights of an answer.
LEMMA HighlightCourse ==
    ASSUME NEW j, NEW R, NEW rows \in Seq(R)
    PROVE  \E b : IsCourse(b, "highlight", j, rows) /\ FoldLeft(CollectHighlight, j, rows) = b[Len(rows)]
<1> DEFINE n == Len(rows)
           Body(h) == [s \in SUBSET DOMAIN rows |->
                          IF s = {} THEN j ELSE CollectHighlight(h[s \ {Max(s)}], rows[Max(s)])]
           h == CHOOSE h : h = Body(h)
<1>1. n \in Nat /\ DOMAIN rows = 1 .. n
  OBVIOUS
<1>2. \A x, r : Gather("highlight", x, r) = CollectHighlight(x, r)
  BY DEF Gather
<1>3. ASSUME NEW f PROVE IsFold(f, "highlight", j, rows, n) <=> f = Body(f)
  BY <1>1, <1>2, Zenon DEF IsFold
<1>4. \E f : f = Body(f)
  BY <1>1, <1>3, FoldExists
<1>5. h = Body(h)
  <2> HIDE DEF Body
  <2> QED BY <1>4, Zenon
<1>6. FoldLeft(CollectHighlight, j, rows) = h[DOMAIN rows]
  BY Zenon DEF FoldLeft, MapThenFoldSet
<1> HIDE DEF h
<1>7. IsFold(h, "highlight", j, rows, Len(rows))
  BY <1>3, <1>5
<1> QED BY <1>6, <1>7, FoldCourse

\* The records at a position, each identity once.
LEMMA CollectedCourse ==
    ASSUME NEW R, NEW rows \in Seq(R)
    PROVE  \E b : IsCourse(b, "at", <<>>, rows) /\ FoldLeft(Collected, <<>>, rows) = b[Len(rows)]
<1> DEFINE n == Len(rows)
           Body(h) == [s \in SUBSET DOMAIN rows |->
                          IF s = {} THEN <<>> ELSE Collected(h[s \ {Max(s)}], rows[Max(s)])]
           h == CHOOSE h : h = Body(h)
<1>1. n \in Nat /\ DOMAIN rows = 1 .. n
  OBVIOUS
<1>2. \A x, r : Gather("at", x, r) = Collected(x, r)
  BY DEF Gather
<1>3. ASSUME NEW f PROVE IsFold(f, "at", <<>>, rows, n) <=> f = Body(f)
  BY <1>1, <1>2, Zenon DEF IsFold
<1>4. \E f : f = Body(f)
  BY <1>1, <1>3, FoldExists
<1>5. h = Body(h)
  <2> HIDE DEF Body
  <2> QED BY <1>4, Zenon
<1>6. FoldLeft(Collected, <<>>, rows) = h[DOMAIN rows]
  BY Zenon DEF FoldLeft, MapThenFoldSet
<1> HIDE DEF h
<1>7. IsFold(h, "at", <<>>, rows, Len(rows))
  BY <1>3, <1>5
<1> QED BY <1>6, <1>7, FoldCourse

-----------------------------------------------------------------------------
(* The rows of a statement.                                                 *)

\* What a finite set's subsets have, if each of them has it whose subsets with one
\* member less do, the set itself has.
LEMMA Shrinking ==
    ASSUME NEW S, IsFiniteSet(S), NEW G,
           \A T \in SUBSET S : (\A x \in T : T \ {x} \in G) => T \in G
    PROVE  SUBSET S \subseteq G
<1> SUFFICES ASSUME NEW U \in SUBSET S, U \notin G PROVE FALSE
  OBVIOUS
<1> DEFINE R == StrictSubsetOrdering(S)
           Bad == (SUBSET S) \ G
<1>1. IsWellFoundedOn(R, FiniteSubsetsOf(S))
  BY FS_StrictSubsetOrderingWellFounded
<1>2. Bad \subseteq FiniteSubsetsOf(S) /\ Bad # {}
  BY FS_Subset DEF FiniteSubsetsOf
<1>3. PICK T \in Bad : \A V \in Bad : ~(<<V, T>> \in R)
  <2> HIDE DEF R, Bad
  <2> QED BY <1>1, <1>2, WFMin
<1>4. ASSUME NEW x \in T PROVE T \ {x} \in G
  <2>1. <<T \ {x}, T>> \in R
    BY DEF StrictSubsetOrdering
  <2> QED BY <1>3, <2>1
<1>5. T \in SUBSET S /\ T \notin G
  <2> HIDE DEF R
  <2> QED BY <1>3
<1> HIDE DEF R, Bad
<1> QED BY <1>4, <1>5

\* LexLess orders the keys of the rows, of which some may be equal.
Ranks(rows, key) ==
    /\ \A a \in rows : ~LexLess(key[a], key[a])
    /\ \A a, b, c \in rows : LexLess(key[a], key[b]) /\ LexLess(key[b], key[c])
                                => LexLess(key[a], key[c])

\* A sequence has the rows, and no others.
Lists(seq, rows) == seq \in Seq(rows) /\ \A r \in rows : \E i \in 1 .. Len(seq) : seq[i] = r

\* A key of some numbers.
Numbers(k, m) == k \in [1 .. m -> Int]

\* Such keys are ordered.
LEMMA NumbersRank ==
    ASSUME NEW rows, NEW m \in Nat, NEW key, \A r \in rows : Numbers(key[r], m)
    PROVE  Ranks(rows, key)
<1>1. ASSUME NEW a \in [1 .. m -> Int] PROVE ~LexLess(a, a)
  BY DEF LexLess
<1>2. ASSUME NEW a \in [1 .. m -> Int], NEW b \in [1 .. m -> Int], NEW c \in [1 .. m -> Int],
             LexLess(a, b), LexLess(b, c)
      PROVE  LexLess(a, c)
  <2>1. PICK i \in 1 .. m : a[i] < b[i] /\ \A j \in 1 .. i - 1 : a[j] = b[j]
    BY <1>2 DEF LexLess
  <2>2. PICK k \in 1 .. m : b[k] < c[k] /\ \A j \in 1 .. k - 1 : b[j] = c[j]
    BY <1>2 DEF LexLess
  <2>3. CASE i < k
    <3>1. b[i] = c[i] /\ \A j \in 1 .. i - 1 : a[j] = c[j]
      BY <2>1, <2>2, <2>3
    <3>2. a[i] < c[i]
      BY <2>1, <3>1
    <3> QED BY <3>1, <3>2 DEF LexLess
  <2>4. CASE k < i
    <3>1. a[k] = b[k] /\ \A j \in 1 .. k - 1 : a[j] = c[j]
      BY <2>1, <2>2, <2>4
    <3>2. a[k] < c[k]
      BY <2>2, <3>1
    <3> QED BY <3>1, <3>2 DEF LexLess
  <2>5. CASE i = k
    <3>1. \A j \in 1 .. i - 1 : a[j] = c[j]
      BY <2>1, <2>2, <2>5
    <3>2. a[i] \in Int /\ b[i] \in Int /\ c[i] \in Int
      OBVIOUS
    <3>3. a[i] < c[i]
      BY <2>1, <2>2, <2>5, <3>2
    <3> QED BY <3>1, <3>3 DEF LexLess
  <2> QED BY <2>3, <2>4, <2>5
<1> QED BY <1>1, <1>2 DEF Ranks, Numbers

\* A row with no other before it is one of the rows.
LEMMA LeastIsMember ==
    ASSUME NEW rows, IsFiniteSet(rows), NEW key, Ranks(rows, key),
           NEW s \in SUBSET rows, s # {}
    PROVE  Least(s, key) \in s
<1> DEFINE L(a, b) == LexLess(key[a], key[b])
           Has(T) == \E m \in T : \A o \in T : ~L(o, m)
           G == {T \in SUBSET rows : T = {} \/ Has(T)}
<1>o. /\ \A a \in rows : ~L(a, a)
      /\ \A a, b, c \in rows : L(a, b) /\ L(b, c) => L(a, c)
  BY DEF Ranks
<1>l. Least(s, key) = CHOOSE r \in s : \A other \in s : ~L(other, r)
  BY DEF Least
<1> HIDE DEF L
<1>1. ASSUME NEW T \in SUBSET rows, \A x \in T : T \ {x} \in G, T # {} PROVE Has(T)
  <2>1. PICK x \in T : TRUE
    BY <1>1
  <2>2. CASE T \ {x} = {}
    BY <1>o, <2>2
  <2>3. CASE T \ {x} # {}
    <3>1. PICK m \in T \ {x} : \A o \in T \ {x} : ~L(o, m)
      BY <1>1, <2>1, <2>3
    <3>2. CASE L(x, m)
      <4>1. \A o \in T : ~L(o, x)
        BY <1>o, <3>1, <3>2, <2>1
      <4> QED BY <4>1, <2>1
    <3>3. CASE ~L(x, m)
      BY <3>1, <3>3
    <3> QED BY <3>2, <3>3
  <2> QED BY <2>2, <2>3
<1>2. SUBSET rows \subseteq G
  <2>1. \A T \in SUBSET rows : (\A x \in T : T \ {x} \in G) => T \in G
    BY <1>1
  <2> HIDE DEF G
  <2> QED BY <2>1, Shrinking
<1>3. Has(s)
  BY <1>2
<1> QED BY <1>l, <1>3

\* What a fold over a finite set defines: a function on the subsets that takes a
\* member from each and goes on with the rest.
IsSort(h, rows, key) ==
    h = [s \in SUBSET rows |->
            IF s = {} THEN <<>> ELSE <<Least(s, key)>> \o h[s \ {Least(s, key)}]]

\* Rows can be sorted.
LEMMA SortExists ==
    ASSUME NEW rows, IsFiniteSet(rows), NEW key, Ranks(rows, key)
    PROVE  \E h : IsSort(h, rows, key)
<1> DEFINE D(n) == {s \in SUBSET rows : Cardinality(s) <= n}
           Value(h, s) == IF s = {} THEN <<>> ELSE <<Least(s, key)>> \o h[s \ {Least(s, key)}]
           Rec(h, n) == \A s \in D(n) : h[s] = Value(h, s)
           T == {n \in Nat : \E h : Rec(h, n)}
<1>1. ASSUME NEW s \in SUBSET rows, s # {}
      PROVE  /\ Cardinality(s) \in Nat \ {0}
             /\ s \ {Least(s, key)} \in SUBSET rows
             /\ Cardinality(s \ {Least(s, key)}) = Cardinality(s) - 1
  <2>1. IsFiniteSet(s)
    BY FS_Subset
  <2>2. Cardinality(s) \in Nat /\ Cardinality(s) # 0
    BY <1>1, <2>1, FS_CardinalityType, FS_EmptySet
  <2>3. Least(s, key) \in s
    BY <1>1, LeastIsMember
  <2> QED BY <2>1, <2>2, <2>3, FS_RemoveElement
<1>2. 0 \in T
  <2> DEFINE h == [s \in D(0) |-> <<>>]
  <2>1. ASSUME NEW s \in D(0), s # {} PROVE FALSE
    <3>1. Cardinality(s) \in Nat \ {0}
      BY <1>1, <2>1
    <3>2. Cardinality(s) <= 0
      OBVIOUS
    <3> QED BY <3>1, <3>2
  <2>2. Rec(h, 0)
    BY <2>1
  <2> QED BY <2>2
<1>3. ASSUME NEW n \in Nat, n \in T PROVE n + 1 \in T
  <2>1. PICK h : Rec(h, n)
    BY <1>3
  <2> DEFINE g == [s \in D(n + 1) |-> Value(h, s)]
  <2>2. \A s \in D(n) : g[s] = h[s]
    <3>1. \A s \in D(n) : s \in D(n + 1)
      <4> SUFFICES ASSUME NEW s \in SUBSET rows, Cardinality(s) <= n
                   PROVE  Cardinality(s) <= n + 1
        OBVIOUS
      <4>1. Cardinality(s) \in Nat
        BY FS_Subset, FS_CardinalityType
      <4> QED BY <4>1
    <3> HIDE DEF D, Value
    <3> QED BY <2>1, <3>1
  <2>3. \A s \in D(n + 1) : s # {} => s \ {Least(s, key)} \in D(n)
    BY <1>1
  <2>4. ASSUME NEW s \in D(n + 1) PROVE g[s] = Value(g, s)
    <3> HIDE DEF D
    <3>1. g[s] = Value(h, s)
      OBVIOUS
    <3> HIDE DEF g
    <3> QED BY <2>2, <2>3, <3>1
  <2> HIDE DEF g, D, Value
  <2> QED BY <2>4
<1>4. Cardinality(rows) \in T
  <2>1. Cardinality(rows) \in Nat
    BY FS_CardinalityType
  <2> HIDE DEF T
  <2> QED BY <1>2, <1>3, <2>1, Induction
<1>5. PICK h : Rec(h, Cardinality(rows))
  BY <1>4
<1> DEFINE g == [s \in SUBSET rows |-> h[s]]
<1>6. \A s \in SUBSET rows : h[s] = Value(h, s)
  BY <1>5, FS_Subset
<1>7. \A s \in SUBSET rows : s # {} => s \ {Least(s, key)} \in SUBSET rows
  OBVIOUS
<1>8. g = [s \in SUBSET rows |-> Value(g, s)]
  <2>1. ASSUME NEW s \in SUBSET rows PROVE Value(h, s) = Value(g, s)
    BY <1>7
  <2> HIDE DEF Value
  <2> QED BY <1>6, <2>1
<1>9. IsSort(g, rows, key)
  <2> HIDE DEF g
  <2> QED BY <1>8 DEF IsSort
<1> QED BY <1>9

\* A statement returns the rows it is asked for.
LEMMA Listing ==
    ASSUME NEW rows, IsFiniteSet(rows), NEW key, Ranks(rows, key)
    PROVE  Lists(OrderedBy(rows, key), rows)
<1> DEFINE h == CHOOSE h : IsSort(h, rows, key)
<1>1. OrderedBy(rows, key) = h[rows]
  BY Zenon DEF OrderedBy, MapThenFoldSet, IsSort
<1>2. IsSort(h, rows, key)
  BY SortExists
<1> HIDE DEF h
<1> DEFINE G == {s \in SUBSET rows : Lists(h[s], s)}
<1>3. ASSUME NEW s \in SUBSET rows, \A x \in s : s \ {x} \in G PROVE s \in G
  <2>1. ASSUME s = {} PROVE Lists(h[s], s)
    <3>1. h[s] = <<>>
      BY <1>2, <2>1 DEF IsSort
    <3> QED BY <2>1, <3>1 DEF Lists
  <2>2. ASSUME s # {} PROVE Lists(h[s], s)
    <3> DEFINE m == Least(s, key)
               rest == s \ {m}
               later == h[rest]
    <3>1. m \in s
      BY <2>2, LeastIsMember
    <3>2. h[s] = <<m>> \o later
      BY <1>2, <2>2 DEF IsSort
    <3>3. Lists(later, rest)
      BY <1>3, <3>1
    <3> HIDE DEF m
    <3>4. later \in Seq(rest) /\ later \in Seq(s) /\ Len(later) \in Nat
      BY <3>3, LenProperties DEF Lists
    <3> HIDE DEF later
    <3> DEFINE q == <<m>> \o later
    <3>5. /\ q \in Seq(s) /\ Len(q) = Len(later) + 1 /\ q[1] = m
          /\ \A i \in 1 .. Len(later) : q[i + 1] = later[i]
      BY <3>1, <3>4
    <3> HIDE DEF q
    <3>6. ASSUME NEW r \in s PROVE \E i \in 1 .. Len(q) : q[i] = r
      <4>1. CASE r = m
        BY <3>4, <3>5, <4>1
      <4>2. CASE r # m
        <5>1. PICK i \in 1 .. Len(later) : later[i] = r
          BY <3>3, <4>2 DEF Lists
        <5>2. i + 1 \in 1 .. Len(q)
          BY <3>4, <3>5, <5>1
        <5> QED BY <3>5, <5>1, <5>2
      <4> QED BY <4>1, <4>2
    <3>7. Lists(q, s)
      BY <3>5, <3>6 DEF Lists
    <3> QED BY <3>2, <3>7 DEF q
  <2>3. Lists(h[s], s)
    BY <2>1, <2>2
  <2> QED BY <2>3
<1>4. SUBSET rows \subseteq G
  <2>1. \A s \in SUBSET rows : (\A x \in s : s \ {x} \in G) => s \in G
    BY <1>3
  <2> HIDE DEF G
  <2> QED BY <2>1, Shrinking
<1> QED BY <1>1, <1>4

-----------------------------------------------------------------------------
(* Records, and what is answered from them.                                 *)

\* The records there can be.
AnyRecord == UNION {RecordsOf(path) : path \in ToSet(Paths) \cup SourceFiles}

\* What a record consists of.
LEMMA RecordNumbers ==
    ASSUME NEW path, NEW r \in RecordsOf(path)
    PROVE  /\ r.path = path /\ r.variant \in Nat /\ r.line \in Nat /\ r.column \in Nat
           /\ r.record \in Nat /\ r.action \in Nat /\ r.kind \in Nat /\ r.symbol \in Nat
           /\ r.context \in Nat /\ r.mode \in Nat /\ r.usr \in Nat /\ r.cusr \in Nat
           /\ r.local \in BOOLEAN
BY DEF RecordsOf, Symbol, Use

\* The image of a finite set is finite.
LEMMA FiniteImage ==
    ASSUME NEW S, IsFiniteSet(S), NEW f
    PROVE  IsFiniteSet({f[x] : x \in S})
<1> DEFINE T == {f[x] : x \in S}
           g == [x \in S |-> f[x]]
<1>1. g \in Surjection(S, T)
  BY DEF Surjection
<1> HIDE DEF g, T
<1>2. IsFiniteSet(T)
  BY <1>1, FS_Surjection
<1> QED BY <1>2 DEF T

\* The records of the database.
LEMMA StoredRecords ==
    ASSUME TypeOK
    PROVE  /\ IsFiniteSet(Records) /\ Records \subseteq AnyRecord
           /\ \A r \in Records : r.path \in ToSet(Paths)
<1> DEFINE Of(f) == Edition(f, edition[f]).records
           Present == {g \in Files : edition[g] > 0}
           Sets == {Of(f) : f \in Present}
<1>1. Records = UNION Sets
  BY Zenon DEF Records, RowsIn
<1>2. ASSUME NEW f \in Present
      PROVE  /\ IsFiniteSet(Of(f)) /\ f.path \in ToSet(Paths) /\ Of(f) \subseteq RecordsOf(f.path)
  <2>1. f \in Files /\ edition[f] \in 1 .. MaxEdition
    BY BoundsAssumption DEF TypeOK
  <2> QED BY <2>1, RecordsAssumption
<1>3. IsFiniteSet(Sets)
  <2>1. IsFiniteSet(Present)
    BY RecordsAssumption, FS_Subset
  <2> DEFINE g == [f \in Present |-> Of(f)]
  <2>2. Sets = {g[f] : f \in Present}
    OBVIOUS
  <2> HIDE DEF Present, Of, g, Sets
  <2> QED BY <2>1, <2>2, FiniteImage
<1>4. \A S \in Sets : IsFiniteSet(S)
  BY <1>2
<1>5. IsFiniteSet(UNION Sets)
  <2> HIDE DEF Sets
  <2> QED BY <1>3, <1>4, FS_UNION
<1>6. ASSUME NEW r \in UNION Sets PROVE r \in AnyRecord /\ r.path \in ToSet(Paths)
  <2>1. PICK f \in Present : r \in Of(f)
    OBVIOUS
  <2> HIDE DEF Present, Of
  <2>2. f.path \in ToSet(Paths) /\ r \in RecordsOf(f.path)
    BY <1>2, <2>1
  <2>3. r \in AnyRecord
    BY <2>2 DEF AnyRecord
  <2> QED BY <2>2, <2>3, RecordNumbers
<1> HIDE DEF Sets
<1> QED BY <1>1, <1>5, <1>6

\* The records of an overlay.
LEMMA OverlaysRecords ==
    ASSUME TypeOK, NEW path, NEW variant \in Nat
    PROVE  /\ IsFiniteSet(OverlayRecords(path, variant))
           /\ OverlayRecords(path, variant) \subseteq AnyRecord
           /\ \A r \in OverlayRecords(path, variant) :
                 r.path = path /\ r.variant = variant /\ HasOverlay(path)
<1>1. CASE ~HasOverlay(path)
  <2>1. OverlayRecords(path, variant) = {}
    BY <1>1 DEF OverlayRecords
  <2> QED BY <2>1, FS_EmptySet
<1>2. CASE HasOverlay(path)
  <2> DEFINE E == Emitted(path, overlay[path])
             f(r) == [r EXCEPT !.variant = variant, !.path = path]
  <2>1. path \in SourceFiles /\ overlay[path] \in 1 .. MaxVersion
    BY <1>2 DEF TypeOK, HasOverlay
  <2>2. IsFiniteSet(E) /\ E \subseteq RecordsOf(path)
    BY <2>1, RecordsAssumption
  <2>3. OverlayRecords(path, variant) = {f(r) : r \in E}
    BY <1>2 DEF OverlayRecords
  <2>4. IsFiniteSet({f(r) : r \in E})
    <3> DEFINE g == [r \in E |-> f(r)]
    <3>1. {f(r) : r \in E} = {g[r] : r \in E}
      OBVIOUS
    <3> HIDE DEF f, E, g
    <3> QED BY <2>2, <3>1, FiniteImage
  <2>5. \A r \in RecordsOf(path) : f(r) \in RecordsOf(path) /\ f(r).path = path /\ f(r).variant = variant
    BY DEF RecordsOf
  <2>6. RecordsOf(path) \subseteq AnyRecord
    BY <2>1 DEF AnyRecord
  <2> HIDE DEF f, E
  <2> QED BY <1>2, <2>2, <2>3, <2>4, <2>5, <2>6
<1> QED BY <1>1, <1>2

\* Keys are sequences of numbers.
LEMMA RecordsRank ==
    ASSUME NEW rows, rows \subseteq AnyRecord
    PROVE  /\ Ranks(rows, [r \in rows |-> EmissionKey(r)])
           /\ Ranks(rows, [r \in rows |-> PositionKey(r)])
           /\ (\A r \in rows : r.path \in ToSet(Paths)) => Ranks(rows, [r \in rows |-> RecordKey(r)])
<1>1. ASSUME NEW r \in rows
      PROVE  /\ r.variant \in Nat /\ r.line \in Nat /\ r.column \in Nat
             /\ r.record \in Nat /\ r.action \in Nat /\ r.kind \in Nat /\ r.symbol \in Nat
             /\ r.context \in Nat /\ r.mode \in Nat
  <2>1. PICK path : r \in RecordsOf(path)
    BY DEF AnyRecord
  <2> QED BY <2>1, RecordNumbers
<1>2. Ranks(rows, [r \in rows |-> EmissionKey(r)])
  <2> DEFINE k == [r \in rows |-> EmissionKey(r)]
  <2>1. \A r \in rows : Numbers(k[r], 6)
    BY <1>1 DEF EmissionKey, Numbers
  <2> HIDE DEF k
  <2>2. Ranks(rows, k)
    BY <2>1, NumbersRank
  <2> QED BY <2>2 DEF k
<1>3. Ranks(rows, [r \in rows |-> PositionKey(r)])
  <2> DEFINE k == [r \in rows |-> PositionKey(r)]
  <2>1. \A r \in rows : Numbers(k[r], 7)
    BY <1>1 DEF PositionKey, Numbers
  <2> HIDE DEF k
  <2>2. Ranks(rows, k)
    BY <2>1, NumbersRank
  <2> QED BY <2>2 DEF k
<1>4. ASSUME \A r \in rows : r.path \in ToSet(Paths)
      PROVE  Ranks(rows, [r \in rows |-> RecordKey(r)])
  <2> DEFINE k == [r \in rows |-> RecordKey(r)]
  <2>1. ASSUME NEW r \in rows PROVE Rank(r.path) \in Int
    <3>1. PICK i \in DOMAIN Paths : Paths[i] = r.path
      BY <1>4 DEF ToSet
    <3>2. Rank(r.path) \in DOMAIN Paths
      BY <3>1 DEF Rank
    <3>3. DOMAIN Paths \subseteq Int
      <4>1. Paths \in Seq(ToSet(Paths))
        BY RecordsAssumption
      <4> DEFINE T == ToSet(Paths)
      <4> HIDE DEF T
      <4>2. Paths \in Seq(T) => DOMAIN Paths \subseteq Int
        OBVIOUS
      <4> QED BY <4>1, <4>2 DEF T
    <3> QED BY <3>2, <3>3
  <2>2. \A r \in rows : Numbers(k[r], 9)
    BY <1>1, <2>1 DEF RecordKey, Numbers
  <2> HIDE DEF k
  <2>3. Ranks(rows, k)
    BY <2>2, NumbersRank
  <2> QED BY <2>3 DEF k
<1> QED BY <1>2, <1>3, <1>4

\* What the overlay answers.
LEMMA OverlayAnswers ==
    ASSUME TypeOK, NEW path, NEW variant \in Nat, NEW o
    PROVE  Lists(OverlayQuery(path, variant, o),
                 {r \in OverlayRecords(path, variant) : MatchesOptions(o, r)})
<1> DEFINE rows == {r \in OverlayRecords(path, variant) : MatchesOptions(o, r)}
           k == [r \in rows |-> EmissionKey(r)]
<1>1. IsFiniteSet(rows) /\ rows \subseteq AnyRecord
  BY OverlaysRecords, FS_Subset
<1>2. OverlayQuery(path, variant, o) = OrderedBy(rows, k)
  BY Zenon DEF OverlayQuery, Ordered
<1> HIDE DEF rows
<1>3. Ranks(rows, k)
  BY <1>1, RecordsRank
<1> HIDE DEF k
<1>4. Lists(OverlayQuery(path, variant, o), rows)
  BY <1>1, <1>2, <1>3, Listing
<1> QED BY <1>4 DEF rows

\* What the database answers.
LEMMA DatabaseAnswers ==
    ASSUME TypeOK, NEW o, o.after = None, o.limit = 0
    PROVE  Lists(Query(edition, o).rows, {r \in Records : MatchesQuery(o, r)})
<1> DEFINE rows == {r \in Records : MatchesQuery(o, r)}
           k == [r \in rows |-> RecordKey(r)]
<1>1. IsFiniteSet(rows) /\ rows \subseteq AnyRecord /\ \A r \in rows : r.path \in ToSet(Paths)
  BY StoredRecords, FS_Subset
<1>2. Query(edition, o).rows = OrderedBy(rows, k)
  <2>1. Query(edition, o) = Answer(Limited(Ordered(After(rows, RecordKey, o.after), RecordKey), o.limit))
    BY Zenon DEF Query, Records
  <2> HIDE DEF rows
  <2>2. Query(edition, o) = Answer(Ordered(rows, RecordKey))
    BY <2>1, Zenon DEF After, Limited
  <2>3. Ordered(rows, RecordKey) = OrderedBy(rows, k)
    BY Zenon DEF Ordered
  <2> QED BY <2>2, <2>3 DEF Answer
<1> HIDE DEF rows
<1>3. Ranks(rows, k)
  BY <1>1, RecordsRank
<1> HIDE DEF k
<1>4. Lists(Query(edition, o).rows, rows)
  BY <1>1, <1>2, <1>3, Listing
<1> QED BY <1>4 DEF rows

\* The records of a position, each identity once.
LEMMA CollectedAre ==
    ASSUME NEW R, NEW rows \in Seq(R)
    PROVE  FoldLeft(Collected, <<>>, rows) \in Seq(R)
<1>1. PICK b : IsCourse(b, "at", <<>>, rows) /\ FoldLeft(Collected, <<>>, rows) = b[Len(rows)]
  BY CollectedCourse
<1> DEFINE T == {k \in Nat : k <= Len(rows) => b[k] \in Seq(R)}
<1>2. 0 \in T
  <2>1. b[0] = <<>>
    BY <1>1, Zenon DEF IsCourse
  <2>2. <<>> \in Seq(R)
    OBVIOUS
  <2>3. b[0] \in Seq(R)
    BY <2>1, <2>2, Zenon
  <2> QED BY <2>3
<1>3. ASSUME NEW k \in Nat, k \in T PROVE k + 1 \in T
  <2> SUFFICES ASSUME k + 1 <= Len(rows) PROVE b[k + 1] \in Seq(R)
    OBVIOUS
  <2>1. b[k] \in Seq(R) /\ k + 1 \in 1 .. Len(rows) /\ (k + 1) - 1 = k /\ rows[k + 1] \in R
    BY <1>3
  <2>2. b[k + 1] = Gather("at", b[k], rows[k + 1])
    BY <1>1, <2>1 DEF IsCourse
  <2>3. b[k + 1] = Collected(b[k], rows[k + 1])
    BY <2>2 DEF Gather
  <2>4. b[k + 1] = b[k] \/ b[k + 1] = Append(b[k], rows[k + 1])
    BY <2>3, Zenon DEF Collected
  <2>5. Append(b[k], rows[k + 1]) \in Seq(R)
    BY <2>1
  <2> QED BY <2>1, <2>4, <2>5, Zenon
<1>4. Len(rows) \in T
  <2>1. Nat \subseteq T
    <3> HIDE DEF T
    <3> QED BY <1>2, <1>3, Induction
  <2> QED BY <2>1
<1> QED BY <1>1, <1>4

\* The cursors of a lookup are records.
LEMMA AtNameFinds ==
    ASSUME TypeOK, NEW name, NEW line, NEW column, NEW withOverlay
    PROVE  AtName(name, line, column, withOverlay).rows \in Seq(AnyRecord)
<1> DEFINE above == IF withOverlay THEN OverlayFindAt(name, line, column) ELSE <<>>
           variant == IF configured = 0 THEN None ELSE configured
           stored == FindAt(edition, name, variant, line, column)
<1>1. AtName(name, line, column, withOverlay) =
         IF above # <<>> THEN Answer(FoldLeft(Collected, <<>>, above))
         ELSE [stored EXCEPT !.rows = FoldLeft(Collected, <<>>, @)]
  BY Zenon DEF AtName
<1>2. above \in Seq(AnyRecord)
  <2>1. CASE ~withOverlay
    BY <2>1
  <2>2. CASE withOverlay
    <3> DEFINE rows == {r \in OverlayRecords(name, configured) : Covers(r, line, column)}
               k == [r \in rows |-> EmissionKey(r)]
    <3>1. configured \in Nat
      BY RecordsAssumption DEF TypeOK
    <3>2. IsFiniteSet(rows) /\ rows \subseteq AnyRecord
      BY <3>1, OverlaysRecords, FS_Subset
    <3>3. above = OrderedBy(rows, k)
      BY <2>2, Zenon DEF OverlayFindAt, Ordered
    <3> HIDE DEF rows
    <3>4. Ranks(rows, k)
      BY <3>2, RecordsRank
    <3> HIDE DEF k
    <3>5. Lists(above, rows)
      BY <3>2, <3>3, <3>4, Listing
    <3> HIDE DEF above
    <3> QED BY <3>2, <3>5 DEF Lists
  <2> QED BY <2>1, <2>2
<1>3. stored = [ret |-> stored.ret, rows |-> stored.rows] /\ stored.rows \in Seq(AnyRecord)
  <2>1. CASE line = 0 \/ column = 0
    <3>1. stored = Failed
      BY <2>1, Zenon DEF FindAt
    <3> HIDE DEF stored
    <3> QED BY <3>1 DEF Failed
  <2>2. CASE ~(line = 0 \/ column = 0)
    <3> DEFINE rows == {r \in RowsIn(edition, "records") :
                            /\ r.path = name
                            /\ Equals(variant, r.variant)
                            /\ Covers(r, line, column)}
               k == [r \in rows |-> PositionKey(r)]
    <3>1. IsFiniteSet(rows) /\ rows \subseteq AnyRecord
      <4>1. rows \subseteq Records
        BY DEF Records
      <4> HIDE DEF rows
      <4> QED BY <4>1, StoredRecords, FS_Subset
    <3>2. stored = Answer(OrderedBy(rows, k))
      BY <2>2, Zenon DEF FindAt, Ordered
    <3> HIDE DEF rows
    <3>3. Ranks(rows, k)
      BY <3>1, RecordsRank
    <3> HIDE DEF k, stored
    <3>4. Lists(OrderedBy(rows, k), rows)
      BY <3>1, <3>3, Listing
    <3>5. stored.rows = OrderedBy(rows, k) /\ stored = [ret |-> stored.ret, rows |-> stored.rows]
      BY <3>2 DEF Answer
    <3> QED BY <3>1, <3>4, <3>5 DEF Lists
  <2> QED BY <2>1, <2>2
<1> HIDE DEF above, stored
<1>4. CASE above # <<>>
  <2> DEFINE c == FoldLeft(Collected, <<>>, above)
  <2>1. c \in Seq(AnyRecord)
    BY <1>2, CollectedAre
  <2>2. AtName(name, line, column, withOverlay) = Answer(c)
    BY <1>1, <1>4
  <2> HIDE DEF c
  <2> QED BY <2>1, <2>2 DEF Answer
<1>5. CASE ~(above # <<>>)
  <2> DEFINE c == FoldLeft(Collected, <<>>, stored.rows)
  <2>1. c \in Seq(AnyRecord)
    BY <1>3, CollectedAre
  <2>2. AtName(name, line, column, withOverlay) = [stored EXCEPT !.rows = c]
    BY <1>1, <1>5
  <2> HIDE DEF c
  <2> QED BY <1>3, <2>1, <2>2
<1> QED BY <1>4, <1>5

-----------------------------------------------------------------------------
(* What a request has to do.                                                *)

\* The sequences are put one after the other.
LEMMA Flattened ==
    ASSUME NEW T, NEW seqs \in Seq(T), seqs # <<>>
    PROVE  \E f : /\ f[1] = seqs[1]
                  /\ \A i \in 1 .. Len(seqs) : i > 1 => f[i] = f[i - 1] \o seqs[i]
                  /\ FlattenSeq(seqs) = f[Len(seqs)]
<1> DEFINE n == Len(seqs)
           Body(f, m) == [i \in 1 .. m |-> IF i = 1 THEN seqs[i] ELSE f[i - 1] \o seqs[i]]
           G == {m \in Nat : \E f : f = Body(f, m)}
           f == CHOOSE f : f = Body(f, n)
<1>1. n \in Nat /\ n # 0
  OBVIOUS
<1>2. 0 \in G
  <2> DEFINE g == [i \in 1 .. 0 |-> <<>>]
  <2>1. \A i \in 1 .. 0 : FALSE
    OBVIOUS
  <2>2. g = Body(g, 0)
    BY <2>1
  <2> QED BY <2>2
<1>3. ASSUME NEW m \in Nat, m \in G PROVE m + 1 \in G
  <2>1. PICK g : g = Body(g, m)
    BY <1>3
  <2> DEFINE h == [i \in 1 .. m + 1 |-> IF i = 1 THEN seqs[i] ELSE g[i - 1] \o seqs[i]]
  <2>2. \A i \in 1 .. m : h[i] = g[i]
    <3> SUFFICES ASSUME NEW i \in 1 .. m PROVE h[i] = g[i]
      OBVIOUS
    <3>1. g[i] = IF i = 1 THEN seqs[i] ELSE g[i - 1] \o seqs[i]
      BY <2>1, Zenon
    <3>2. i \in 1 .. m + 1
      OBVIOUS
    <3> QED BY <3>1, <3>2, Zenon
  <2>3. \A i \in 1 .. m + 1 : i # 1 => i - 1 \in 1 .. m
    OBVIOUS
  <2>4. ASSUME NEW i \in 1 .. m + 1
        PROVE  h[i] = IF i = 1 THEN seqs[i] ELSE h[i - 1] \o seqs[i]
    <3>1. h[i] = IF i = 1 THEN seqs[i] ELSE g[i - 1] \o seqs[i]
      OBVIOUS
    <3> HIDE DEF h
    <3>2. i # 1 => h[i - 1] = g[i - 1]
      BY <2>2, <2>3
    <3> QED BY <3>1, <3>2, Zenon
  <2>5. h = [i \in 1 .. m + 1 |-> h[i]]
    OBVIOUS
  <2>6. h = Body(h, m + 1)
    <3> HIDE DEF h
    <3> QED BY <2>4, <2>5, Zenon
  <2> HIDE DEF h, Body
  <2> QED BY <2>6
<1>4. n \in G
  <2> HIDE DEF G, n
  <2> QED BY <1>1, <1>2, <1>3, Induction
<1>5. f = Body(f, n)
  <2>1. \E g : g = Body(g, n)
    BY <1>4
  <2> HIDE DEF Body
  <2> QED BY <2>1, Zenon
<1>6. FlattenSeq(seqs) = f[n]
  BY <1>1, Zenon DEF FlattenSeq
<1> HIDE DEF f
<1>7. \A i \in 1 .. n : f[i] = IF i = 1 THEN seqs[i] ELSE f[i - 1] \o seqs[i]
  BY <1>5, Zenon
<1>8. 1 \in 1 .. n /\ \A i \in 1 .. n : i > 1 => i # 1
  BY <1>1
<1>9. f[1] = seqs[1] /\ \A i \in 1 .. n : i > 1 => f[i] = f[i - 1] \o seqs[i]
  BY <1>7, <1>8, Zenon
<1> QED BY <1>6, <1>9

\* The statements of a highlight request.
HighlightStatements(cursors, names) ==
    {Statement("highlight", c, "all", name, first) :
        c \in ToSet(cursors), name \in ToSet(names), first \in BOOLEAN}

\* What is ahead, with the cursor of each statement: those whose first statement is
\* ahead come after the first d, in order.
Ahead(todo, cursors, names, d, at) ==
    /\ todo \in Seq(HighlightStatements(cursors, names))
    /\ at \in [1 .. Len(todo) -> DOMAIN cursors]
    /\ \A m \in 1 .. Len(todo) : todo[m].cursor = cursors[at[m]] /\ (todo[m].first => at[m] > d)
    /\ \A m, o \in 1 .. Len(todo) : m < o /\ todo[m].first /\ todo[o].first => at[m] < at[o]

\* What a statement of a highlight request consists of.
LEMMA StatementFields ==
    ASSUME NEW cursors, NEW names, NEW s \in HighlightStatements(cursors, names)
    PROVE  /\ s.op = "highlight" /\ s.filter = "all" /\ s.cursor \in ToSet(cursors)
           /\ s.path \in ToSet(names) /\ s.first \in BOOLEAN
BY DEF HighlightStatements, Statement

\* The statement for name m of its file.
IsStatement(s, cursors, names, i, m) ==
    /\ s \in HighlightStatements(cursors, names)
    /\ s.cursor = cursors[i]
    /\ s.first <=> m = 1

\* It has its cursor and name, and the first name's is the first.
LEMMA StatementIs ==
    ASSUME NEW cursors, NEW names, NEW i \in DOMAIN cursors, NEW m \in DOMAIN names
    PROVE  IsStatement(Statement("highlight", cursors[i], "all", names[m], m = 1), cursors, names, i, m)
<1> DEFINE first == m = 1
           s == Statement("highlight", cursors[i], "all", names[m], first)
<1>1. cursors[i] \in ToSet(cursors) /\ names[m] \in ToSet(names) /\ first \in BOOLEAN
  BY DEF ToSet
<1> HIDE DEF first
<1>2. s \in HighlightStatements(cursors, names)
  BY <1>1 DEF HighlightStatements
<1>3. s.cursor = cursors[i] /\ s.first = first
  BY DEF Statement
<1> HIDE DEF s
<1>4. s.first <=> first
  BY <1>3, Zenon
<1> QED BY <1>2, <1>3, <1>4, Zenon DEF IsStatement, s, first

\* A file has a name.
LEMMA SomeName ==
    ASSUME NEW path
    PROVE  NamesOf(path) \in Seq(ToSet(NamesOf(path))) /\ NamesOf(path) # <<>>
<1> DEFINE relative == LexicallyRelative(path, root)
           cwdRelative == LexicallyRelative(path, Cwd)
           X == {path, relative, cwdRelative}
           names == NamesOf(path)
<1>1. PICK a \in {<<>>, <<relative>>}, b \in {<<>>, <<cwdRelative>>} : names = <<path>> \o a \o b
  BY Zenon DEF NamesOf, DatabasePaths
<1> HIDE DEF relative, cwdRelative, names
<1>2. names \in Seq(X) /\ names # <<>>
  <2> DEFINE p == <<path>>
             pa == p \o a
  <2>1. /\ p \in Seq(X) /\ Len(p) = 1 /\ a \in Seq(X) /\ b \in Seq(X)
    <3>1. path \in X /\ relative \in X /\ cwdRelative \in X
      OBVIOUS
    <3> HIDE DEF X
    <3>2. <<>> \in Seq(X) /\ <<relative>> \in Seq(X) /\ <<cwdRelative>> \in Seq(X) /\ p \in Seq(X) /\ Len(p) = 1
      BY <3>1
    <3>3. (a = <<>> \/ a = <<relative>>) /\ (b = <<>> \/ b = <<cwdRelative>>)
      OBVIOUS
    <3> QED BY <3>2, <3>3, Zenon
  <2> HIDE DEF X, p
  <2>2. pa \in Seq(X) /\ Len(pa) >= 1
    BY <2>1
  <2>3. names = pa \o b
    BY <1>1 DEF p
  <2> HIDE DEF pa
  <2>4. pa \o b \in Seq(X) /\ Len(pa \o b) >= 1
    BY <2>1, <2>2
  <2> QED BY <2>3, <2>4
<1> HIDE DEF X
<1>3. names \in Seq(ToSet(names))
  BY <1>2 DEF ToSet
<1> QED BY <1>2, <1>3 DEF names

\* The statements for the cursors come in their order.
LEMMA HighlightPlan ==
    ASSUME job.method = "highlight", NEW C, NEW cursors \in Seq(C)
    PROVE  LET names == NamesOf(job.params.path)
               todo == StatementsFor(cursors)
           IN /\ \E at : Ahead(todo, cursors, names, 0, at)
              /\ todo # <<>> => todo[1].first
<1> DEFINE names == NamesOf(job.params.path)
           S == HighlightStatements(cursors, names)
           q == Len(names)
           n == Len(cursors)
           block(i) == [m \in DOMAIN names |-> Statement("highlight", cursors[i], "all", names[m], m = 1)]
           seqs == [i \in DOMAIN cursors |-> block(i)]
           todo == StatementsFor(cursors)
<1>1. todo = FlattenSeq(seqs)
  BY Zenon DEF StatementsFor, ForEach, Highlights
<1>2. q \in Nat /\ q # 0 /\ DOMAIN names = 1 .. q
  BY SomeName
<1>3. n \in Nat /\ DOMAIN cursors = 1 .. n
  OBVIOUS
<1>4. ASSUME NEW i \in 1 .. n
      PROVE  /\ block(i) \in Seq(S) /\ Len(block(i)) = q
             /\ \A m \in 1 .. q : block(i)[m].cursor = cursors[i] /\ (block(i)[m].first <=> m = 1)
  <2>1. \A m \in 1 .. q : block(i)[m] = Statement("highlight", cursors[i], "all", names[m], m = 1)
    BY <1>2
  <2>2. \A m \in 1 .. q : i \in DOMAIN cursors /\ m \in DOMAIN names
    BY <1>2, <1>3
  <2>3. ASSUME NEW m \in 1 .. q PROVE IsStatement(block(i)[m], cursors, names, i, m)
    <3> DEFINE x == block(i)[m]
               y == Statement("highlight", cursors[i], "all", names[m], m = 1)
    <3>1. x = y
      BY <2>1
    <3>2. IsStatement(y, cursors, names, i, m)
      BY <2>2, StatementIs
    <3> HIDE DEF x, y
    <3>3. IsStatement(x, cursors, names, i, m)
      BY <3>1, <3>2, Zenon
    <3> QED BY <3>3, Zenon DEF x
  <2>4. \A m \in 1 .. q : /\ block(i)[m] \in S
                          /\ block(i)[m].cursor = cursors[i]
                          /\ block(i)[m].first <=> m = 1
    <3> HIDE DEF block, q
    <3> QED BY <2>3, Zenon DEF IsStatement
  <2>5. block(i) = [m \in 1 .. q |-> block(i)[m]]
    BY <1>2
  <2> DEFINE b == block(i)
  <2>6. b \in [1 .. q -> S]
    <3> HIDE DEF S
    <3> QED BY <2>4, <2>5
  <2> HIDE DEF b, S, q
  <2>7. b \in Seq(S) /\ Len(b) = q
    BY <1>2, <2>6
  <2> QED BY <2>4, <2>7 DEF b, q
<1> DEFINE Planned(f, i, at) == /\ f \in Seq(S) /\ f # <<>> /\ f[1].first
                                /\ at \in [1 .. Len(f) -> 1 .. i]
                                /\ \A m \in 1 .. Len(f) : f[m].cursor = cursors[at[m]]
                                /\ \A m, o \in 1 .. Len(f) : m < o /\ f[m].first /\ f[o].first => at[m] < at[o]
<1> HIDE DEF names, S, q, block
<1>5. CASE n = 0
  <2>1. cursors = <<>> /\ DOMAIN cursors = {}
    BY <1>5
  <2>2. seqs = <<>> /\ Len(seqs) = 0
    BY <2>1
  <2>3. todo = <<>>
    BY <1>1, <2>2, Zenon DEF FlattenSeq
  <2>4. Ahead(todo, cursors, names, 0, <<>>)
    <3> HIDE DEF todo, seqs
    <3> QED BY <2>3 DEF Ahead
  <2> QED BY <2>3, <2>4 DEF names
<1>6. CASE n # 0
  <2>1. seqs \in Seq(Seq(S)) /\ Len(seqs) = n /\ seqs # <<>> /\ \A i \in 1 .. n : seqs[i] = block(i)
    <3>1. \A i \in 1 .. n : seqs[i] = block(i) /\ block(i) \in Seq(S)
      BY <1>3, <1>4
    <3>2. seqs \in [1 .. n -> Seq(S)]
      BY <1>3, <3>1
    <3> HIDE DEF seqs, n
    <3> QED BY <1>3, <1>6, <3>1, <3>2
  <2>2. PICK f : /\ f[1] = seqs[1]
                 /\ \A i \in 1 .. n : i > 1 => f[i] = f[i - 1] \o seqs[i]
                 /\ todo = f[n]
    <3> HIDE DEF seqs, todo, n
    <3> QED BY <1>1, <2>1, Flattened
  <2> DEFINE T == {i \in Nat : i + 1 <= n => \E at : Planned(f[i + 1], i + 1, at)}
  <2> HIDE DEF seqs, todo
  <2>3. 0 \in T
    <3> DEFINE b == block(1)
               at == [m \in 1 .. q |-> 1]
    <3>1. 1 \in 1 .. n
      BY <1>3, <1>6
    <3>2. f[1] = b
      BY <2>1, <2>2, <3>1
    <3>3. /\ b \in Seq(S) /\ Len(b) = q
          /\ \A m \in 1 .. q : b[m].cursor = cursors[1] /\ (b[m].first <=> m = 1)
      BY <1>4, <3>1
    <3> HIDE DEF b
    <3>4. Planned(b, 1, at)
      <4>1. b # <<>> /\ b[1].first
        BY <1>2, <3>3
      <4>2. at \in [1 .. Len(b) -> 1 .. 1]
        BY <3>3
      <4>3. \A m \in 1 .. Len(b) : b[m].cursor = cursors[at[m]]
        BY <3>3
      <4>4. \A m, o \in 1 .. Len(b) : m < o /\ b[m].first /\ b[o].first => at[m] < at[o]
        BY <1>2, <3>3
      <4> HIDE DEF at
      <4> QED BY <3>3, <4>1, <4>2, <4>3, <4>4
    <3> HIDE DEF Planned
    <3>5. \E a : Planned(f[0 + 1], 0 + 1, a)
      BY <3>2, <3>4
    <3> QED BY <3>5
  <2>4. ASSUME NEW i \in Nat, i \in T PROVE i + 1 \in T
    <3> SUFFICES ASSUME (i + 1) + 1 <= n PROVE \E at : Planned(f[(i + 1) + 1], (i + 1) + 1, at)
      OBVIOUS
    <3> DEFINE k == i + 1
               a == f[k]
               b == block(k + 1)
    <3>1. k \in Nat /\ k >= 1 /\ k + 1 \in 1 .. n /\ k + 1 > 1 /\ (k + 1) - 1 = k /\ k <= n
      BY <1>3
    <3>2. PICK at : Planned(a, k, at)
      BY <2>4, <3>1
    <3> HIDE DEF k
    <3>3. f[k + 1] = a \o b
      BY <2>1, <2>2, <3>1
    <3>4. /\ b \in Seq(S) /\ Len(b) = q
          /\ \A m \in 1 .. q : b[m].cursor = cursors[k + 1] /\ (b[m].first <=> m = 1)
      BY <1>4, <3>1
    <3> DEFINE g == a \o b
               l == Len(a)
               new == [m \in 1 .. l + q |-> IF m <= l THEN at[m] ELSE k + 1]
    <3> HIDE DEF a, b
    <3>5. /\ l \in Nat /\ l >= 1 /\ a \in Seq(S)
          /\ g \in Seq(S) /\ Len(g) = l + q
          /\ \A m \in 1 .. l + q : g[m] = IF m <= l THEN a[m] ELSE b[m - l]
      <4>1. a \in Seq(S) /\ a # <<>>
        BY <3>2
      <4>2. l \in Nat /\ l >= 1
        BY <4>1
      <4>3. b \in Seq(S)
        BY <3>4
      <4> HIDE DEF l
      <4>4. /\ g \in Seq(S) /\ Len(g) = Len(a) + Len(b)
            /\ \A m \in 1 .. Len(a) + Len(b) : g[m] = IF m <= Len(a) THEN a[m] ELSE b[m - Len(a)]
        BY <4>1, <4>3, ConcatProperties
      <4>5. l = Len(a) /\ Len(b) = q
        BY <3>4 DEF l
      <4> HIDE DEF g
      <4>6. /\ g \in Seq(S) /\ Len(g) = l + q
            /\ \A m \in 1 .. l + q : g[m] = IF m <= l THEN a[m] ELSE b[m - l]
        BY <4>4, <4>5
      <4> QED BY <4>1, <4>2, <4>6
    <3> HIDE DEF g, l
    <3>6. \A m \in 1 .. l : at[m] \in 1 .. k /\ a[m].cursor = cursors[at[m]]
      BY <3>2 DEF l
    <3>7. new \in [1 .. Len(g) -> 1 .. k + 1]
      BY <1>2, <3>1, <3>5, <3>6
    <3>8. ASSUME NEW m \in 1 .. Len(g)
          PROVE  /\ g[m].cursor = cursors[new[m]]
                 /\ m > l /\ g[m].first => m = l + 1
      <4>1. CASE m <= l
        BY <3>5, <3>6, <4>1
      <4>2. CASE ~(m <= l)
        <5>1. m - l \in 1 .. q /\ g[m] = b[m - l] /\ new[m] = k + 1
          BY <1>2, <3>5, <4>2
        <5>2. b[m - l].cursor = cursors[k + 1] /\ (b[m - l].first <=> m - l = 1)
          BY <3>4, <5>1
        <5>3. m - l = 1 => m = l + 1
          BY <3>5
        <5> QED BY <5>1, <5>2, <5>3
      <4> QED BY <4>1, <4>2
    <3>9. ASSUME NEW m \in 1 .. Len(g), NEW o \in 1 .. Len(g), m < o, g[m].first, g[o].first
          PROVE  new[m] < new[o]
      <4>1. CASE o <= l
        <5>1. m \in 1 .. l /\ o \in 1 .. l /\ g[m] = a[m] /\ g[o] = a[o] /\ new[m] = at[m] /\ new[o] = at[o]
          BY <3>5, <3>9, <4>1
        <5> QED BY <3>2, <3>9, <5>1 DEF l
      <4>2. CASE ~(o <= l) /\ m <= l
        <5>1. m \in 1 .. l /\ new[m] = at[m] /\ new[o] = k + 1
          BY <3>5, <4>2
        <5>2. at[m] \in 1 .. k
          BY <3>6, <5>1
        <5> QED BY <3>1, <5>1, <5>2
      <4>3. CASE ~(o <= l) /\ ~(m <= l)
        <5>1. m = l + 1 /\ o = l + 1
          BY <3>5, <3>8, <3>9, <4>3
        <5> QED BY <3>5, <3>9, <5>1
      <4> QED BY <4>1, <4>2, <4>3
    <3>10. g # <<>> /\ g[1].first
      <4>1. g[1] = a[1] /\ 1 \in 1 .. Len(g)
        BY <1>2, <3>5
      <4>2. a[1].first
        BY <3>2
      <4> QED BY <3>5, <4>1, <4>2
    <3> HIDE DEF new
    <3>11. Planned(g, k + 1, new)
      BY <3>5, <3>7, <3>8, <3>9, <3>10
    <3> HIDE DEF Planned
    <3>12. \E x : Planned(f[k + 1], k + 1, x)
      BY <3>3, <3>11 DEF g
    <3> QED BY <3>12 DEF k
  <2>5. Nat \subseteq T
    <3> HIDE DEF T
    <3> QED BY <2>3, <2>4, Induction
  <2>6. \E at : Planned(todo, n, at)
    <3>1. n - 1 \in Nat /\ (n - 1) + 1 = n
      BY <1>3, <1>6
    <3>2. n - 1 \in T
      BY <2>5, <3>1
    <3>3. \E at : Planned(f[n], n, at)
      <4> HIDE DEF Planned
      <4> QED BY <1>3, <3>1, <3>2
    <3> HIDE DEF Planned
    <3> QED BY <2>2, <3>3
  <2>7. PICK at : Planned(todo, n, at)
    BY <2>6
  <2>8. \A m \in 1 .. Len(todo) : at[m] > 0
    <3>1. at \in [1 .. Len(todo) -> 1 .. n]
      BY <2>7
    <3> QED BY <1>3, <3>1
  <2>9. Ahead(todo, cursors, names, 0, at)
    <3> HIDE DEF n
    <3> QED BY <1>3, <2>7, <2>8 DEF Ahead, S
  <2> QED BY <2>7, <2>9 DEF names, todo
<1> QED BY <1>5, <1>6

-----------------------------------------------------------------------------
(* Highlights.                                                              *)

\* A place in an answer has all its fields.
LocationShaped(l) ==
    l = [path |-> l.path, line |-> l.line, column |-> l.column, uri |-> l.uri, span |-> l.span,
         kind |-> l.kind]

\* There is one highlight at a place.
Kept(found) ==
    /\ IsFiniteSet(found)
    /\ \A l \in found : LocationShaped(l)
    /\ \A k, l \in found : Place(k) = Place(l) => k = l

\* The places of highlights.
LEMMA PlacedIs == ASSUME NEW found PROVE Placed(found) = {Place(l) : l \in found}
BY DEF Placed, Place

\* What is collected from a record.
IsCollected(g, j, r) ==
    /\ Shaped(g) /\ g.excluded = j.excluded /\ Kept(g.found)
    /\ Placed(g.found) = Placed(j.found) \cup {Place(x) : x \in {y \in {r} : ~Excluded(j, y)}}

\* A kind in place of another leaves a highlight where it is.
Kind(k, l) == LocationShaped(l) => LocationShaped(k) /\ Place(k) = Place(l)

\* Only the kind is another.
LEMMA OtherKind ==
    ASSUME NEW l, NEW kind
    PROVE  Kind([l EXCEPT !.kind = kind], l)
<1> DEFINE k == [l EXCEPT !.kind = kind]
<1>1. k = [l EXCEPT !.kind = kind]
  OBVIOUS
<1> HIDE DEF k
<1>2. LocationShaped(l) => LocationShaped(k) /\ Place(k) = Place(l)
  BY <1>1 DEF LocationShaped, Place
<1> QED BY <1>2 DEF k, Kind

\* That is so for all highlights at once.
LEMMA OtherKinds ==
    ASSUME NEW found, Kept(found), NEW f, \A l \in found : Kind(f[l], l)
    PROVE  Kept({f[l] : l \in found}) /\ Placed({f[l] : l \in found}) = Placed(found)
<1> DEFINE new == {f[l] : l \in found}
<1>1. \A l \in found : LocationShaped(f[l]) /\ Place(f[l]) = Place(l)
  BY DEF Kept, Kind
<1>2. IsFiniteSet(new)
  BY FiniteImage DEF Kept
<1>3. \A l \in new : LocationShaped(l)
  BY <1>1
<1>4. \A k, l \in found : Place(k) = Place(l) => k = l
  BY DEF Kept
<1>5. \A k, l \in new : Place(k) = Place(l) => k = l
  BY <1>1, <1>4
<1>6. {Place(l) : l \in new} = {Place(l) : l \in found}
  BY <1>1
<1> HIDE DEF new
<1>7. Kept(new)
  BY <1>2, <1>3, <1>5 DEF Kept
<1>8. Placed(new) = Placed(found)
  BY <1>6, PlacedIs
<1> QED BY <1>7, <1>8 DEF new

\* A record is collected unless its file is excluded.
LEMMA CollectOne ==
    ASSUME NEW j, Shaped(j), Kept(j.found), NEW r
    PROVE  IsCollected(CollectHighlight(j, r), j, r)
<1> DEFINE g == CollectHighlight(j, r)
           cached == Cached(j.cached, Uri(r.path))
           new == Location(r, cached, HighlightKind(r))
           Stronger(l) == Place(r) = [path |-> l.path, line |-> l.line, column |-> l.column]
                             /\ HighlightKind(r) > l.kind
           F(l) == IF Stronger(l) THEN [l EXCEPT !.kind = HighlightKind(r)] ELSE l
<1>1. CASE Excluded(j, r)
  <2>1. g = j
    BY <1>1, Zenon DEF CollectHighlight
  <2>2. {Place(x) : x \in {y \in {r} : ~Excluded(j, y)}} = {}
    BY <1>1
  <2> HIDE DEF g
  <2>3. IsCollected(j, j, r)
    BY <2>2, Zenon DEF IsCollected
  <2> QED BY <2>1, <2>3, Zenon DEF g
<1>2. CASE ~Excluded(j, r)
  <2>1. {Place(x) : x \in {y \in {r} : ~Excluded(j, y)}} = {Place(r)}
    BY <1>2
  <2>2. CASE Place(r) \in Placed(j.found)
    <3> DEFINE found == {F(l) : l \in j.found}
    <3>1. g = [j EXCEPT !.found = found]
      BY <1>2, <2>2, Zenon DEF CollectHighlight
    <3> DEFINE f == [l \in j.found |-> F(l)]
    <3>2. \A l \in j.found : f[l] = F(l) /\ Kind(F(l), l)
      <4>1. \A l : Kind(l, l)
        BY DEF Kind
      <4>2. \A l : F(l) = l \/ F(l) = [l EXCEPT !.kind = HighlightKind(r)]
        BY Zenon
      <4>3. \A l : Kind(F(l), l)
        <5> HIDE DEF F
        <5> QED BY <4>1, <4>2, OtherKind, Zenon
      <4> QED BY <4>3, Zenon
    <3> HIDE DEF F, f
    <3>3. Kept(found) /\ Placed(found) = Placed(j.found)
      <4>1. \A l \in j.found : Kind(f[l], l)
        BY <3>2, Zenon
      <4>2. {f[l] : l \in j.found} = found
        BY <3>2
      <4> HIDE DEF found
      <4>3. Kept({f[l] : l \in j.found}) /\ Placed({f[l] : l \in j.found}) = Placed(j.found)
        BY <4>1, OtherKinds
      <4> QED BY <4>2, <4>3, Zenon
    <3> HIDE DEF found, g
    <3>4. Shaped(g) /\ g.excluded = j.excluded /\ g.found = found
      BY <3>1 DEF Shaped
    <3>5. Placed(j.found) = Placed(j.found) \cup {Place(r)}
      BY <2>2
    <3>6. IsCollected(g, j, r)
      BY <2>1, <3>3, <3>4, <3>5 DEF IsCollected
    <3> QED BY <3>6 DEF g
  <2>3. CASE Place(r) \notin Placed(j.found)
    <3> DEFINE found == j.found \cup {new}
    <3>1. g = [j EXCEPT !.cached = cached, !.found = found]
      BY <1>2, <2>3, Zenon DEF CollectHighlight
    <3>2. LocationShaped(new) /\ Place(new) = Place(r)
      BY DEF LocationShaped, Location, Place
    <3> HIDE DEF new, cached, g
    <3>3. \A l \in j.found : Place(l) # Place(r)
      BY <2>3, PlacedIs
    <3>4. IsFiniteSet(found)
      BY FS_AddElement DEF Kept
    <3>5. Kept(found)
      BY <3>2, <3>3, <3>4 DEF Kept
    <3>6. Placed(found) = Placed(j.found) \cup {Place(r)}
      BY <3>2, PlacedIs
    <3> HIDE DEF found
    <3>7. Shaped(g) /\ g.excluded = j.excluded /\ g.found = found
      BY <3>1 DEF Shaped
    <3>8. IsCollected(g, j, r)
      BY <2>1, <3>5, <3>6, <3>7 DEF IsCollected
    <3> QED BY <3>8 DEF g
  <2> QED BY <2>2, <2>3
<1> QED BY <1>1, <1>2

\* What is collected from an answer: the places of all records but those of the file
\* that is excluded.
LEMMA CollectAll ==
    ASSUME NEW j, Shaped(j), Kept(j.found), NEW R, NEW rows \in Seq(R)
    PROVE  LET g == FoldLeft(CollectHighlight, j, rows)
           IN /\ Shaped(g) /\ Kept(g.found)
              /\ Placed(g.found) =
                    Placed(j.found) \cup {Place(r) : r \in {x \in ToSet(rows) : ~Excluded(j, x)}}
<1>1. PICK b : IsCourse(b, "highlight", j, rows) /\ FoldLeft(CollectHighlight, j, rows) = b[Len(rows)]
  BY HighlightCourse
<1> DEFINE Before(k) == {x \in {rows[i] : i \in 1 .. k} : ~Excluded(j, x)}
           Good(k) == /\ Shaped(b[k]) /\ b[k].excluded = j.excluded /\ Kept(b[k].found)
                      /\ Placed(b[k].found) = Placed(j.found) \cup {Place(r) : r \in Before(k)}
           T == {k \in Nat : k <= Len(rows) => Good(k)}
<1>2. 0 \in T
  <2>1. b[0] = j
    BY <1>1, Zenon DEF IsCourse
  <2>2. Before(0) = {}
    OBVIOUS
  <2>3. Placed(j.found) = Placed(j.found) \cup {Place(r) : r \in Before(0)}
    BY <2>2
  <2> HIDE DEF Before
  <2>4. Good(0)
    BY <2>1, <2>3, Zenon
  <2> QED BY <2>4
<1>3. ASSUME NEW k \in Nat, k \in T PROVE k + 1 \in T
  <2> SUFFICES ASSUME k + 1 <= Len(rows) PROVE Good(k + 1)
    OBVIOUS
  <2>1. Good(k) /\ k + 1 \in 1 .. Len(rows) /\ (k + 1) - 1 = k
    BY <1>3
  <2> DEFINE x == b[k]
             y == b[k + 1]
             r == rows[k + 1]
  <2>2. y = Gather("highlight", x, r)
    BY <1>1, <2>1 DEF IsCourse
  <2>3. y = CollectHighlight(x, r)
    BY <2>2 DEF Gather
  <2>4. IsCollected(y, x, r)
    <3>1. Shaped(x) /\ Kept(x.found)
      BY <2>1
    <3> HIDE DEF x, y, r
    <3>2. IsCollected(CollectHighlight(x, r), x, r)
      BY <3>1, CollectOne
    <3> QED BY <2>3, <3>2, Zenon
  <2>5. \A z : Excluded(x, z) <=> Excluded(j, z)
    <3>1. x.excluded = j.excluded
      BY <2>1
    <3> HIDE DEF x
    <3> QED BY <3>1 DEF Excluded
  <2>6. Before(k + 1) = Before(k) \cup {z \in {r} : ~Excluded(j, z)}
    <3>1. 1 .. (k + 1) = (1 .. k) \cup {k + 1}
      OBVIOUS
    <3> QED BY <3>1
  <2>7. /\ Shaped(y) /\ y.excluded = x.excluded /\ Kept(y.found)
        /\ Placed(y.found) = Placed(x.found) \cup {Place(z) : z \in {v \in {r} : ~Excluded(x, v)}}
    <3> HIDE DEF x, y, r
    <3> QED BY <2>4 DEF IsCollected
  <2> HIDE DEF Before
  <2> QED BY <2>1, <2>5, <2>6, <2>7
<1>4. Nat \subseteq T
  <2> HIDE DEF T
  <2> QED BY <1>2, <1>3, Induction
<1>5. Good(Len(rows))
  BY <1>4
<1>6. Before(Len(rows)) = {x \in ToSet(rows) : ~Excluded(j, x)}
  BY DEF ToSet
<1> HIDE DEF Before
<1> QED BY <1>1, <1>5, <1>6

\* The request, its cursors and how far it is.
Alike(c, j) ==
    /\ Shaped(c) /\ c.pc = j.pc /\ c.method = j.method /\ c.params = j.params
    /\ c.cursors = j.cursors

\* What the records of an answer leave as it is, and what they add.
LEMMA CollectHighlights ==
    ASSUME NEW j, Shaped(j), Kept(j.found), NEW R, NEW rows \in Seq(R)
    PROVE  LET c == Collect("highlight", j, rows)
           IN /\ Alike(c, j) /\ c.todo = j.todo /\ c.excluded = j.excluded /\ Kept(c.found)
              /\ Placed(c.found) =
                    Placed(j.found) \cup {Place(r) : r \in {x \in ToSet(rows) : ~Excluded(j, x)}}
<1> DEFINE g == FoldLeft(CollectHighlight, j, rows)
           P == Placed(j.found) \cup {Place(r) : r \in {x \in ToSet(rows) : ~Excluded(j, x)}}
           c == Collect("highlight", j, rows)
<1>1. c = [j EXCEPT !.hit = g.hit, !.cached = g.cached, !.found = g.found]
  BY Zenon DEF Collect, Gathered
<1>2. Kept(g.found) /\ Placed(g.found) = P
  BY CollectAll
<1> HIDE DEF g, P, c
<1>3. Alike(c, j) /\ c.todo = j.todo /\ c.excluded = j.excluded /\ c.found = g.found
  BY <1>1 DEF Shaped, Alike
<1>4. Kept(c.found) /\ Placed(c.found) = P
  BY <1>2, <1>3
<1> QED BY <1>3, <1>4 DEF P, c

\* Highlights at new places are more highlights.
LEMMA MoreHighlights ==
    ASSUME NEW a, Kept(a), NEW b, Kept(b), NEW P, Placed(b) = Placed(a) \cup P,
           P # {}, P \cap Placed(a) = {}
    PROVE  Cardinality(b) # Cardinality(a)
<1>1. ASSUME NEW found, Kept(found)
      PROVE  IsFiniteSet(Placed(found)) /\ Cardinality(Placed(found)) = Cardinality(found)
  <2> DEFINE f == [l \in found |-> Place(l)]
             T == {Place(l) : l \in found}
  <2>1. f \in Surjection(found, T)
    BY DEF Surjection
  <2>2. f \in Injection(found, T)
    BY <1>1 DEF Injection, IsInjective, Kept
  <2>3. IsFiniteSet(found)
    BY <1>1 DEF Kept
  <2> HIDE DEF f, T
  <2>4. IsFiniteSet(T) /\ Cardinality(T) = Cardinality(found)
    BY <2>1, <2>2, <2>3, FS_Surjection
  <2> QED BY <2>4, PlacedIs DEF T
<1>2. Placed(a) \subseteq Placed(b) /\ Placed(a) # Placed(b)
  OBVIOUS
<1>3. Cardinality(Placed(b)) # Cardinality(Placed(a))
  BY <1>1, <1>2, FS_Subset
<1> QED BY <1>1, <1>3

-----------------------------------------------------------------------------
(* A statement of a highlight request.                                      *)

\* What it asks for.
LEMMA HighlightOptions ==
    ASSUME NEW s, s.op = "highlight", s.filter = "all"
    PROVE  LET o == Options(s)
           IN /\ o.symbol = s.cursor.symbol /\ o.record = "all" /\ o.path = None
              /\ o.context = (IF s.cursor.local THEN s.cursor.context ELSE None)
              /\ o.kind = None /\ o.usr = None /\ o.local = s.cursor.local
              /\ LET q == [o EXCEPT !.path = s.path]
                 IN q.after = None /\ q.limit = 0 /\ q.path = s.path
<1> DEFINE context == IF s.cursor.local THEN s.cursor.context ELSE None
           kind == IF s.op = "symbol" THEN s.cursor.kind ELSE None
           local == s.cursor.local
           o == Options(s)
<1>1. kind = None
  OBVIOUS
<1> HIDE DEF context, kind, local
<1>2. o = [NoFilters EXCEPT !.symbol = s.cursor.symbol, !.variant = s.cursor.variant, !.record = s.filter,
                            !.context = context, !.kind = kind, !.local = local]
  BY DEF Options, context, kind, local
<1>3. o = [symbol |-> s.cursor.symbol, path |-> None, variant |-> s.cursor.variant, context |-> context,
           record |-> "all", kind |-> None, usr |-> None, local |-> local, after |-> None, limit |-> 0]
  BY <1>1, <1>2 DEF NoFilters
<1> HIDE DEF o
<1>4. /\ o.symbol = s.cursor.symbol /\ o.record = "all" /\ o.path = None
      /\ o.context = context /\ o.kind = None /\ o.usr = None /\ o.local = local
  BY <1>3
<1> DEFINE q == [o EXCEPT !.path = s.path]
<1>5. q.after = None /\ q.limit = 0 /\ q.path = s.path
  BY <1>3
<1> QED BY <1>4, <1>5 DEF o, context, local

\* What the overlay shows of a cursor's symbol, when it has any.
LEMMA OverlayShows ==
    ASSUME TypeOK, job.method = "highlight", NEW s, s.op = "highlight", s.filter = "all",
           s.cursor \in AnyRecord, Above(s.cursor, "all") # {}
    PROVE  LET c == s.cursor
               above == OverlayQuery(c.path, c.variant, Options(s))
           IN /\ HasOverlay(c.path) /\ Uri(c.path) = Uri(job.params.path)
              /\ above \in Seq(AnyRecord) /\ ToSet(above) = Above(c, "all")
<1> DEFINE c == s.cursor
           o == Options(s)
           all == OverlayRecords(c.path, c.variant)
           rows == {r \in all : MatchesOptions(o, r)}
           above == OverlayQuery(c.path, c.variant, o)
<1>1. c.variant \in Nat /\ c.context \in Nat /\ c.local \in BOOLEAN
  <2>1. PICK path : c \in RecordsOf(path)
    BY DEF AnyRecord
  <2> QED BY <2>1, RecordNumbers
<1>2. \A r \in all : r.path = c.path /\ r.variant = c.variant /\ HasOverlay(c.path)
  BY <1>1, OverlaysRecords
<1>3. \A r \in all : r \in AnyRecord
  BY <1>1, OverlaysRecords
<1>4. PICK r0 \in all : Matches(c, r0, "all")
  BY DEF Above
<1>5. HasOverlay(c.path) /\ Uri(c.path) = Uri(job.params.path)
  <2>1. r0.path = c.path
    BY <1>2
  <2>2. Uri(r0.path) = Uri(job.params.path)
    BY <1>4 DEF Matches
  <2> QED BY <1>2, <2>1, <2>2
<1>6. ASSUME NEW r \in all
      PROVE  MatchesOptions(o, r) <=> Matches(c, r, "all")
  <2>1. r.path = c.path /\ r.variant = c.variant
    BY <1>2
  <2>2. Uri(r.path) = Uri(c.path)
    BY <2>1
  <2>3. Filtered("all", r)
    BY Zenon DEF Filtered
  <2>4. /\ o.symbol = c.symbol /\ o.record = "all" /\ o.path = None
        /\ o.context = (IF c.local THEN c.context ELSE None)
        /\ o.kind = None /\ o.usr = None /\ o.local = c.local
    BY HighlightOptions
  <2>5. None \notin Nat /\ None \notin BOOLEAN
    BY NoneAssumption
  <2>6. c.symbol \in Nat
    <3>1. PICK path : c \in RecordsOf(path)
      BY DEF AnyRecord
    <3> QED BY <3>1, RecordNumbers
  <2>7. r.local \in BOOLEAN
    <3>1. PICK path : r \in RecordsOf(path)
      BY <1>3 DEF AnyRecord
    <3> QED BY <3>1, RecordNumbers
  <2> HIDE DEF o, c
  <2>8. Equals(o.symbol, r.symbol) <=> r.symbol = c.symbol
    BY <2>4, <2>5, <2>6 DEF Equals
  <2>9. Equals(o.context, r.context) <=> (c.local => r.context = c.context)
    <3>1. CASE c.local
      <4>1. o.context = c.context
        BY <2>4, <3>1
      <4> QED BY <1>1, <2>5, <3>1, <4>1 DEF Equals, c
    <3>2. CASE ~c.local
      <4>1. o.context = None
        BY <2>4, <3>2
      <4> QED BY <3>2, <4>1 DEF Equals
    <3> QED BY <3>1, <3>2
  <2>10. Equals(o.local, r.local) <=> r.local = c.local
    <3>1. o.local = c.local /\ o.local # None
      BY <1>1, <2>4, <2>5 DEF c
    <3> QED BY <3>1, Zenon DEF Equals
  <2>11. Equals(o.path, r.path) /\ Equals(o.kind, r.kind) /\ Equals(o.usr, r.usr)
    BY <2>4 DEF Equals
  <2>12. Filtered(o.record, r)
    BY <2>3, <2>4
  <2>13. MatchesOptions(o, r) <=>
            r.symbol = c.symbol /\ r.local = c.local /\ (c.local => r.context = c.context)
    BY <2>8, <2>9, <2>10, <2>11, <2>12, Zenon DEF MatchesOptions
  <2>14. Matches(c, r, "all") <=>
            r.symbol = c.symbol /\ r.local = c.local /\ (c.local => r.context = c.context)
    <3>1. Uri(r.path) = Uri(job.params.path)
      BY <1>5, <2>2 DEF c
    <3> QED BY <2>1, <2>2, <2>3, <3>1, Zenon DEF Matches
  <2> QED BY <2>13, <2>14
<1>7. rows = Above(c, "all")
  BY <1>6 DEF Above
<1>8. Lists(above, rows)
  BY <1>1, OverlayAnswers
<1>9. rows \subseteq AnyRecord
  BY <1>3
<1> HIDE DEF rows, above
<1>10. above \in Seq(rows)
  BY <1>8 DEF Lists
<1>11. ToSet(above) = rows
  BY <1>8 DEF Lists, ToSet
<1>12. above \in Seq(AnyRecord)
  BY <1>9, <1>10
<1> QED BY <1>5, <1>7, <1>11, <1>12 DEF above

\* The database is asked next, under one of the file's names.
LEMMA DatabaseRows ==
    ASSUME TypeOK, NEW s, s.op = "highlight", s.filter = "all"
    PROVE  LET rows == Query(edition, [Options(s) EXCEPT !.path = s.path]).rows
           IN /\ rows \in Seq(AnyRecord)
              /\ \A r \in ToSet(rows) : r.path \in ToSet(Paths) /\ TextMatches("path", s.path, r.path)
<1> DEFINE o == [Options(s) EXCEPT !.path = s.path]
           found == {r \in Records : MatchesQuery(o, r)}
           rows == Query(edition, o).rows
<1>1. o.after = None /\ o.limit = 0 /\ o.path = s.path
  BY HighlightOptions
<1> HIDE DEF o
<1>2. Lists(rows, found)
  BY <1>1, DatabaseAnswers
<1>3. \A r \in found : r \in AnyRecord /\ r.path \in ToSet(Paths) /\ TextMatches("path", s.path, r.path)
  BY <1>1, StoredRecords DEF MatchesQuery
<1> HIDE DEF found, rows
<1>4. rows \in Seq(found)
  BY <1>2 DEF Lists
<1>5. \A r \in ToSet(rows) : r \in found
  BY <1>4 DEF ToSet
<1>6. found \subseteq AnyRecord
  BY <1>3
<1>7. rows \in Seq(AnyRecord)
  BY <1>4, <1>6
<1> QED BY <1>3, <1>5, <1>7 DEF rows, o

\* The records of the file are left out when the overlay has replaced them.
LEMMA FileExcluded ==
    ASSUME OwnNames(job.params.path), job.params.path # None, job.params.path.abs,
           NEW name \in ToSet(NamesOf(job.params.path)), NEW j, j.excluded = Uri(job.params.path),
           NEW r, r.path \in ToSet(Paths), TextMatches("path", name, r.path)
    PROVE  Excluded(j, r)
<1>1. Uri(job.params.path) # None
  BY DEF Uri, Resolve
<1>2. Uri(r.path) = Uri(job.params.path)
  BY DEF OwnNames
<1> QED BY <1>1, <1>2 DEF Excluded

\* The overlay comes before the database.
LEMMA OverlayFirst ==
    ASSUME TypeOK, Shaped(job), Kept(job.found), job.method = "highlight",
           NEW s, s.op = "highlight", s.filter = "all", s.cursor \in AnyRecord
    PROVE  LET new == {Place(r) : r \in Above(s.cursor, "all")}
               c == AfterOverlay(s)
           IN /\ Alike(c, job) /\ c.todo = Tail(job.todo) /\ Kept(c.found)
              /\ new # {} /\ new \cap Placed(job.found) = {} =>
                    /\ HasOverlay(s.cursor.path) /\ c.excluded = Uri(job.params.path)
                    /\ Placed(c.found) = Placed(job.found) \cup new
<1> DEFINE hit == IF s.filter = "definition" THEN FALSE ELSE job.hit
           todo == Tail(job.todo)
           reset == [job EXCEPT !.todo = todo, !.excluded = None, !.hit = hit]
           query == OverlayQuery(s.cursor.path, s.cursor.variant, Options(s))
           above == IF HasOverlay(s.cursor.path) THEN query ELSE <<>>
           collected == Collect("highlight", reset, above)
           more == Cardinality(collected.found) # Cardinality(job.found)
           excluded == IF more THEN Uri(s.cursor.path) ELSE None
           c == AfterOverlay(s)
           new == {Place(r) : r \in Above(s.cursor, "all")}
<1>1. c = [collected EXCEPT !.excluded = excluded]
  BY Zenon DEF AfterOverlay
<1>2. above \in Seq(AnyRecord)
  <2>1. s.cursor.variant \in Nat
    <3>1. PICK path : s.cursor \in RecordsOf(path)
      BY DEF AnyRecord
    <3> QED BY <3>1, RecordNumbers
  <2> DEFINE rows == {r \in OverlayRecords(s.cursor.path, s.cursor.variant) : MatchesOptions(Options(s), r)}
  <2>2. Lists(query, rows) /\ rows \subseteq AnyRecord
    BY <2>1, OverlayAnswers, OverlaysRecords
  <2> HIDE DEF query, rows
  <2>3. query \in Seq(AnyRecord)
    BY <2>2 DEF Lists
  <2>4. <<>> \in Seq(AnyRecord)
    OBVIOUS
  <2> QED BY <2>3, <2>4
<1>3. HasOverlay(s.cursor.path) => above = query
  OBVIOUS
<1> HIDE DEF query, above, hit
<1>4. /\ Alike(reset, job) /\ reset.todo = todo /\ reset.found = job.found /\ reset.excluded = None
  <2> HIDE DEF todo
  <2> DEFINE first == [job EXCEPT !.todo = todo]
             second == [first EXCEPT !.excluded = None]
  <2>1. Alike(first, job) /\ first.todo = todo /\ first.found = job.found
    BY DEF Shaped, Alike
  <2>2. reset = [second EXCEPT !.hit = hit]
    OBVIOUS
  <2> HIDE DEF first
  <2>3. Alike(second, job) /\ second.todo = todo /\ second.found = job.found /\ second.excluded = None
    BY <2>1 DEF Shaped, Alike
  <2> HIDE DEF second, reset
  <2> QED BY <2>2, <2>3 DEF Shaped, Alike
<1> HIDE DEF reset, todo
<1>5. /\ Alike(collected, reset) /\ collected.todo = reset.todo /\ Kept(collected.found)
      /\ Placed(collected.found) =
            Placed(job.found) \cup {Place(r) : r \in {x \in ToSet(above) : ~Excluded(reset, x)}}
  <2>1. Shaped(reset) /\ Kept(reset.found)
    BY <1>4 DEF Alike
  <2> HIDE DEF collected
  <2>2. /\ Alike(collected, reset) /\ collected.todo = reset.todo /\ Kept(collected.found)
        /\ Placed(collected.found) =
              Placed(reset.found) \cup {Place(r) : r \in {x \in ToSet(above) : ~Excluded(reset, x)}}
    BY <1>2, <2>1, CollectHighlights DEF collected
  <2> QED BY <1>4, <2>2
<1>6. \A x : ~Excluded(reset, x)
  BY <1>4 DEF Excluded
<1>7. Placed(collected.found) = Placed(job.found) \cup {Place(r) : r \in ToSet(above)}
  BY <1>5, <1>6
<1> HIDE DEF collected, excluded
<1>8. Alike(c, job) /\ c.todo = todo /\ c.found = collected.found /\ c.excluded = excluded
  BY <1>1, <1>4, <1>5 DEF Alike, Shaped
<1>9. ASSUME new # {}, new \cap Placed(job.found) = {}
      PROVE  /\ HasOverlay(s.cursor.path) /\ excluded = Uri(job.params.path)
             /\ Placed(collected.found) = Placed(job.found) \cup new
  <2>1. Above(s.cursor, "all") # {}
    BY <1>9
  <2>2. /\ HasOverlay(s.cursor.path) /\ Uri(s.cursor.path) = Uri(job.params.path)
        /\ ToSet(query) = Above(s.cursor, "all")
    BY <2>1, OverlayShows DEF query
  <2>3. Placed(collected.found) = Placed(job.found) \cup new
    BY <1>3, <1>7, <2>2
  <2> HIDE DEF new
  <2>4. more
    BY <1>5, <1>9, <2>3, MoreHighlights
  <2>5. excluded = Uri(s.cursor.path)
    BY <2>4 DEF excluded
  <2> QED BY <2>2, <2>3, <2>5
<1> HIDE DEF c, new
<1>10. new # {} /\ new \cap Placed(job.found) = {} =>
          /\ HasOverlay(s.cursor.path) /\ c.excluded = Uri(job.params.path)
          /\ Placed(c.found) = Placed(job.found) \cup new
  BY <1>8, <1>9
<1> QED BY <1>5, <1>8, <1>10 DEF todo, c, new

\* What is ahead after the first statement.
LEMMA AheadOfNext ==
    ASSUME NEW todo, NEW cursors, NEW names, NEW d, NEW at, Ahead(todo, cursors, names, d, at),
           todo # <<>>, DOMAIN cursors \subseteq Nat
    PROVE  \E a : Ahead(Tail(todo), cursors, names, IF todo[1].first THEN at[1] ELSE d, a)
<1> DEFINE S == HighlightStatements(cursors, names)
           n == Len(todo)
           new == [m \in 1 .. n - 1 |-> at[m + 1]]
           tail == Tail(todo)
           e == IF todo[1].first THEN at[1] ELSE d
<1>1. /\ todo \in Seq(S) /\ at \in [1 .. n -> DOMAIN cursors]
      /\ \A m \in 1 .. n : todo[m].cursor = cursors[at[m]] /\ (todo[m].first => at[m] > d)
      /\ \A m, o \in 1 .. n : m < o /\ todo[m].first /\ todo[o].first => at[m] < at[o]
  BY DEF Ahead
<1> HIDE DEF S
<1>2. n \in Nat /\ n >= 1
  BY <1>1
<1>3. tail \in Seq(S) /\ Len(tail) = n - 1 /\ \A m \in 1 .. n - 1 : tail[m] = todo[m + 1]
  BY <1>1
<1> HIDE DEF tail, n
<1>4. \A m \in 1 .. n - 1 : m + 1 \in 1 .. n /\ new[m] = at[m + 1]
  BY <1>2
<1>5. new \in [1 .. n - 1 -> DOMAIN cursors]
  BY <1>1, <1>4
<1>6. \A m, o \in 1 .. n - 1 : m < o /\ tail[m].first /\ tail[o].first => new[m] < new[o]
  <2>1. \A m, o \in 1 .. n - 1 : m < o => m + 1 < o + 1
    BY <1>2
  <2> HIDE DEF new
  <2> QED BY <1>1, <1>3, <1>4, <2>1
<1>7. ASSUME NEW m \in 1 .. n - 1
      PROVE  tail[m].cursor = cursors[new[m]] /\ (tail[m].first => new[m] > e)
  <2>1. 1 \in 1 .. n /\ m + 1 \in 1 .. n /\ 1 < m + 1
    BY <1>2
  <2>2. tail[m] = todo[m + 1] /\ new[m] = at[m + 1]
    BY <1>3, <1>4
  <2>3. todo[m + 1].first => at[m + 1] > d
    BY <1>1, <2>1
  <2>4. todo[m + 1].first /\ todo[1].first => at[1] < at[m + 1]
    BY <1>1, <2>1
  <2>5. at[1] \in Nat /\ at[m + 1] \in Nat
    BY <1>1, <2>1
  <2>6. todo[m + 1].cursor = cursors[at[m + 1]]
    BY <1>1, <2>1
  <2> HIDE DEF new
  <2> QED BY <2>2, <2>3, <2>4, <2>5, <2>6
<1> HIDE DEF new, e
<1>8. Ahead(tail, cursors, names, e, new)
  BY <1>3, <1>5, <1>6, <1>7 DEF Ahead, S
<1> QED BY <1>8 DEF tail, e

-----------------------------------------------------------------------------
(* The highlights of a request so far.                                      *)

\* Every symbol at the cursor is shown by the overlay, at places of its own, and
\* the names of the file are its own.
ShownAbove ==
    /\ OwnNames(job.params.path)
    /\ \A c \in ToSet(job.cursors) : Above(c, "all") # {}
    /\ \A i, j \in DOMAIN job.cursors : i # j =>
          \A r \in Above(job.cursors[i], "all"), other \in Above(job.cursors[j], "all") :
             Place(r) # Place(other)

\* The highlights of the first d cursors, from the overlay.
FromOverlay(j, d) ==
    \A p \in Placed(j.found) :
        /\ HasOverlay(p.path)
        /\ \E i \in DOMAIN j.cursors : i <= d /\ \E r \in Above(j.cursors[i], "all") : Place(r) = p

\* How far a highlight request is: the file is excluded from the first statement on.
Progress(j, d, at) ==
    /\ Ahead(j.todo, j.cursors, NamesOf(j.params.path), d, at)
    /\ ShownAbove =>
          /\ FromOverlay(j, d)
          /\ j.excluded = Uri(j.params.path) \/ (j.todo # <<>> => j.todo[1].first)

\* A statement of a highlight request, done.
Stated(s) ==
    LET before == IF s.first THEN AfterOverlay(s) ELSE [job EXCEPT !.todo = Tail(@)]
    IN Collect("highlight", before, Query(edition, [Options(s) EXCEPT !.path = s.path]).rows)

\* A statement of the request: the overlay first, then the database without the file.
LEMMA HighlightStep ==
    ASSUME TypeOK, Shaped(job), Kept(job.found), job.method = "highlight", job.todo # <<>>,
           job.params.path # None, job.params.path.abs, job.cursors \in Seq(AnyRecord),
           NEW d \in Nat, NEW at, Progress(job, d, at)
    PROVE  LET c == Stated(Head(job.todo))
           IN /\ Head(job.todo).op = "highlight" /\ Alike(c, job) /\ Kept(c.found)
              /\ \E e \in Nat : \E a : Progress(c, e, a)
<1> DEFINE s == Head(job.todo)
           names == NamesOf(job.params.path)
           before == IF s.first THEN AfterOverlay(s) ELSE [job EXCEPT !.todo = Tail(@)]
           rows == Query(edition, [Options(s) EXCEPT !.path = s.path]).rows
           c == Stated(s)
           new == {Place(r) : r \in Above(s.cursor, "all")}
           e == IF s.first THEN at[1] ELSE d
<1>1. /\ s = job.todo[1] /\ 1 \in 1 .. Len(job.todo) /\ s \in HighlightStatements(job.cursors, names)
  <2>1. job.todo \in Seq(HighlightStatements(job.cursors, names))
    BY DEF Progress, Ahead
  <2> DEFINE S == HighlightStatements(job.cursors, names)
  <2> HIDE DEF S
  <2> QED BY <2>1
<1>2. /\ s.cursor = job.cursors[at[1]] /\ at[1] \in DOMAIN job.cursors /\ (s.first => at[1] > d)
  BY <1>1 DEF Progress, Ahead
<1> HIDE DEF s
<1>3. /\ s.op = "highlight" /\ s.filter = "all" /\ s.cursor \in ToSet(job.cursors)
      /\ s.path \in ToSet(names)
  BY <1>1, StatementFields
<1>4. s.cursor \in AnyRecord /\ DOMAIN job.cursors \subseteq Nat /\ at[1] \in Nat
  <2>1. DOMAIN job.cursors \subseteq Nat /\ \A i \in DOMAIN job.cursors : job.cursors[i] \in AnyRecord
    OBVIOUS
  <2> QED BY <1>2, <2>1
<1>5. PICK a : Ahead(Tail(job.todo), job.cursors, names, e, a)
  <2>1. Ahead(job.todo, job.cursors, names, d, at)
    BY DEF Progress
  <2>2. \E a : Ahead(Tail(job.todo), job.cursors, names, IF job.todo[1].first THEN at[1] ELSE d, a)
    BY <1>4, <2>1, AheadOfNext
  <2> QED BY <1>1, <2>2
<1>6. e \in Nat
  BY <1>4
<1>7. rows \in Seq(AnyRecord) /\ \A r \in ToSet(rows) : r.path \in ToSet(Paths) /\ TextMatches("path", s.path, r.path)
  BY <1>3, DatabaseRows
<1>8. /\ Alike(before, job) /\ before.todo = Tail(job.todo) /\ Kept(before.found)
      /\ s.first /\ new # {} /\ new \cap Placed(job.found) = {} =>
            /\ HasOverlay(s.cursor.path) /\ before.excluded = Uri(job.params.path)
            /\ Placed(before.found) = Placed(job.found) \cup new
      /\ ~s.first => before.excluded = job.excluded /\ before.found = job.found
  <2>1. CASE s.first
    <3>1. before = AfterOverlay(s)
      BY <2>1
    <3> HIDE DEF before, new
    <3>2. /\ Alike(AfterOverlay(s), job) /\ AfterOverlay(s).todo = Tail(job.todo)
          /\ Kept(AfterOverlay(s).found)
          /\ new # {} /\ new \cap Placed(job.found) = {} =>
                /\ HasOverlay(s.cursor.path) /\ AfterOverlay(s).excluded = Uri(job.params.path)
                /\ Placed(AfterOverlay(s).found) = Placed(job.found) \cup new
      BY <1>3, <1>4, OverlayFirst DEF new
    <3> QED BY <2>1, <3>1, <3>2
  <2>2. CASE ~s.first
    <3> DEFINE tail == Tail(job.todo)
    <3>1. before = [job EXCEPT !.todo = tail]
      BY <2>2
    <3> HIDE DEF before, tail
    <3>2. /\ Alike(before, job) /\ before.todo = tail /\ before.found = job.found
          /\ before.excluded = job.excluded
      BY <3>1 DEF Shaped, Alike
    <3> QED BY <2>2, <3>2 DEF tail
  <2> QED BY <2>1, <2>2
<1>9. c = Collect("highlight", before, rows)
  BY DEF Stated
<1> HIDE DEF before, rows, c
<1>10. /\ Alike(c, before) /\ c.todo = before.todo /\ c.excluded = before.excluded /\ Kept(c.found)
       /\ Placed(c.found) =
             Placed(before.found) \cup {Place(r) : r \in {x \in ToSet(rows) : ~Excluded(before, x)}}
  <2>1. Shaped(before)
    BY <1>8 DEF Alike
  <2>2. /\ Alike(Collect("highlight", before, rows), before)
        /\ Collect("highlight", before, rows).todo = before.todo
        /\ Collect("highlight", before, rows).excluded = before.excluded
        /\ Kept(Collect("highlight", before, rows).found)
        /\ Placed(Collect("highlight", before, rows).found) =
             Placed(before.found) \cup {Place(r) : r \in {x \in ToSet(rows) : ~Excluded(before, x)}}
    BY <1>7, <1>8, <2>1, CollectHighlights
  <2> QED BY <1>9, <2>2
<1>11. Alike(c, job) /\ c.todo = Tail(job.todo)
  BY <1>8, <1>10 DEF Alike
<1>12. ASSUME ShownAbove
       PROVE  FromOverlay(c, e) /\ c.excluded = Uri(c.params.path)
  <2>1. FromOverlay(job, d) /\ (job.excluded = Uri(job.params.path) \/ s.first)
    BY <1>1, <1>12 DEF Progress
  <2>2. /\ before.excluded = Uri(job.params.path)
        /\ \A p \in Placed(before.found) :
              /\ HasOverlay(p.path)
              /\ \E i \in DOMAIN job.cursors : i <= e /\ \E r \in Above(job.cursors[i], "all") : Place(r) = p
    <3>1. CASE ~s.first
      <4>1. e = d /\ before.excluded = Uri(job.params.path) /\ before.found = job.found
        BY <1>8, <2>1, <3>1
      <4> QED BY <2>1, <4>1 DEF FromOverlay
    <3>2. CASE s.first
      <4>1. e = at[1] /\ e > d
        BY <1>2, <3>2
      <4>2. new # {}
        <5>1. Above(s.cursor, "all") # {}
          BY <1>3, <1>12 DEF ShownAbove
        <5> QED BY <5>1
      <4>3. new \cap Placed(job.found) = {}
        <5> SUFFICES ASSUME NEW p \in Placed(job.found), NEW q \in Above(s.cursor, "all"), Place(q) = p
                     PROVE  FALSE
          OBVIOUS
        <5>1. PICK i \in DOMAIN job.cursors : i <= d /\ \E r \in Above(job.cursors[i], "all") : Place(r) = p
          BY <2>1 DEF FromOverlay
        <5>2. i # at[1] /\ at[1] \in DOMAIN job.cursors
          BY <1>2, <1>4, <4>1, <5>1
        <5>3. \A r \in Above(job.cursors[i], "all"), other \in Above(s.cursor, "all") : Place(r) # Place(other)
          BY <1>2, <1>12, <5>2 DEF ShownAbove
        <5> QED BY <5>1, <5>3
      <4>4. /\ HasOverlay(s.cursor.path) /\ before.excluded = Uri(job.params.path)
            /\ Placed(before.found) = Placed(job.found) \cup new
        <5> HIDE DEF new
        <5> QED BY <1>8, <3>2, <4>2, <4>3
      <4>5. ASSUME NEW p \in new
            PROVE  /\ HasOverlay(p.path)
                   /\ \E i \in DOMAIN job.cursors : i <= e /\ \E r \in Above(job.cursors[i], "all") : Place(r) = p
        <5>1. PICK r \in Above(s.cursor, "all") : p = Place(r)
          OBVIOUS
        <5>2. r.path = s.cursor.path
          <6>1. s.cursor.variant \in Nat
            <7>1. PICK path : s.cursor \in RecordsOf(path)
              BY <1>4 DEF AnyRecord
            <7> QED BY <7>1, RecordNumbers
          <6>2. r \in OverlayRecords(s.cursor.path, s.cursor.variant)
            BY DEF Above
          <6> QED BY <6>1, <6>2, OverlaysRecords
        <5>3. p.path = s.cursor.path
          BY <5>1, <5>2 DEF Place
        <5>4. at[1] \in DOMAIN job.cursors /\ at[1] <= e /\ r \in Above(job.cursors[at[1]], "all") /\ Place(r) = p
          BY <1>2, <1>4, <4>1, <5>1
        <5> HIDE DEF new, e
        <5> QED BY <4>4, <5>3, <5>4
      <4>6. ASSUME NEW p \in Placed(job.found)
            PROVE  /\ HasOverlay(p.path)
                   /\ \E i \in DOMAIN job.cursors : i <= e /\ \E r \in Above(job.cursors[i], "all") : Place(r) = p
        <5>1. HasOverlay(p.path)
          BY <2>1 DEF FromOverlay
        <5>2. PICK i \in DOMAIN job.cursors : i <= d /\ \E r \in Above(job.cursors[i], "all") : Place(r) = p
          BY <2>1 DEF FromOverlay
        <5>3. i <= e
          BY <1>4, <1>6, <4>1, <5>2
        <5> HIDE DEF e
        <5> QED BY <5>1, <5>2, <5>3
      <4> HIDE DEF new, e
      <4> QED BY <4>4, <4>5, <4>6
    <3> QED BY <3>1, <3>2
  <2>3. \A r \in ToSet(rows) : Excluded(before, r)
    BY <1>3, <1>7, <1>12, <2>2, FileExcluded DEF ShownAbove
  <2>4. Placed(c.found) = Placed(before.found)
    BY <1>10, <2>3
  <2>5. c.cursors = job.cursors /\ c.params = job.params /\ c.excluded = before.excluded
    BY <1>10, <1>11 DEF Alike
  <2> HIDE DEF e
  <2>6. FromOverlay(c, e)
    BY <2>2, <2>4, <2>5 DEF FromOverlay
  <2> QED BY <2>2, <2>5, <2>6
<1>13. Progress(c, e, a)
  <2>1. Ahead(c.todo, c.cursors, NamesOf(c.params.path), e, a)
    BY <1>5, <1>11 DEF Alike
  <2> HIDE DEF e
  <2> QED BY <1>12, <2>1 DEF Progress
<1> HIDE DEF e
<1> QED BY <1>3, <1>6, <1>10, <1>11, <1>13 DEF c, s

-----------------------------------------------------------------------------
(* Highlight requests in a session.                                         *)

\* A highlight request from its arrival to its answer.
HighlightInv ==
    job.method = "highlight" =>
        /\ job.params.path # None /\ job.params.path.abs /\ Kept(job.found)
        /\ job.pc \in {"locate", "at", "run"}
        /\ job.pc # "run" => job.found = {} /\ job.cursors = <<>> /\ job.todo = <<>>
        /\ job.pc = "run" =>
              job.cursors \in Seq(AnyRecord) /\ \E d \in Nat : \E at : Progress(job, d, at)

\* What the overlay shows and the names of a file stay while a request is in hand.
LEMMA ViewStays ==
    ASSUME overlay' = overlay, workspace' = workspace, job'.method = job.method,
           job'.params = job.params
    PROVE  /\ \A path : NamesOf(path)' = NamesOf(path) /\ Uri(path)' = Uri(path)
           /\ \A path : HasOverlay(path)' <=> HasOverlay(path)
           /\ \A c : Above(c, "all")' = Above(c, "all")
<1>1. \A path : NamesOf(path)' = NamesOf(path) /\ Uri(path)' = Uri(path)
  BY DEF NamesOf, Uri, root
<1>2. \A path : HasOverlay(path)' <=> HasOverlay(path)
  BY DEF HasOverlay
<1>3. \A path, variant : OverlayRecords(path, variant)' = OverlayRecords(path, variant)
  BY DEF OverlayRecords, HasOverlay
<1>4. \A c, r : Matches(c, r, "all")' <=> Matches(c, r, "all")
  BY <1>1 DEF Matches
<1>5. \A c : Above(c, "all")' = Above(c, "all")
  BY <1>3, <1>4 DEF Above
<1> QED BY <1>1, <1>2, <1>5

\* Progress of the job after a step, seen before it.
LEMMA ProgressStays ==
    ASSUME overlay' = overlay, workspace' = workspace, job'.method = job.method,
           job'.params = job.params, job'.cursors = job.cursors,
           NEW d, NEW at, Progress(job', d, at)
    PROVE  Progress(job, d, at)'
<1>1. Ahead(job'.todo, job'.cursors, NamesOf(job'.params.path), d, at)
  BY DEF Progress
<1>2. Ahead(job.todo, job.cursors, NamesOf(job.params.path), d, at)'
  BY <1>1, ViewStays
<1>3. ShownAbove' => ShownAbove
  BY ViewStays DEF ShownAbove, OwnNames
<1>4. FromOverlay(job', d) => FromOverlay(job, d)'
  BY ViewStays DEF FromOverlay
<1>5. Uri(job'.params.path) = Uri(job.params.path)'
  BY ViewStays
<1> QED BY <1>2, <1>3, <1>4, <1>5 DEF Progress

\* Other requests are no highlights.
LEMMA OtherJobs ==
    ASSUME job'.method # "highlight"
    PROVE  HighlightInv'
BY DEF HighlightInv

\* A step that leaves the request and what is above it.
LEMMA HighlightStays ==
    ASSUME HighlightInv, UNCHANGED <<job, overlay, workspace>>
    PROVE  HighlightInv'
<1> SUFFICES ASSUME job.method = "highlight" PROVE HighlightInv'
  BY OtherJobs
<1>1. ASSUME job.pc = "run"
      PROVE  job'.cursors \in Seq(AnyRecord) /\ \E d \in Nat : \E at : Progress(job, d, at)'
  <2>1. PICK d, at : d \in Nat /\ Progress(job, d, at)
    BY <1>1 DEF HighlightInv
  <2>2. Progress(job', d, at)
    BY <2>1
  <2>3. Progress(job, d, at)'
    BY <2>2, ProgressStays
  <2>4. \E x \in Nat : \E y : Progress(job, x, y)'
    BY <2>1, <2>3, Zenon
  <2> QED BY <1>1, <2>4 DEF HighlightInv
<1> QED BY <1>1 DEF HighlightInv

\* The client asks for highlights.
LEMMA HighlightAsked ==
    ASSUME NEW m \in Messages, LookUp(m)
    PROVE  HighlightInv'
<1>1. CASE BadParams(m)
  <2>1. job' = Instead(Id(m))
    BY <1>1 DEF LookUp, AnswerAtOnce
  <2>2. job'.method = "none"
    BY <2>1, NewJobs
  <2> QED BY <2>2, OtherJobs
<1>2. CASE ~BadParams(m)
  <2> DEFINE pc == IF m.method \in {"incoming", "outgoing"} THEN "calls" ELSE "locate"
             idle == Idle
  <2>1. job' = [idle EXCEPT !.pc = pc, !.id = m.id, !.method = m.method, !.params = m.params]
    BY <1>2, Zenon DEF LookUp
  <2>2. Shaped(idle) /\ idle.found = {} /\ idle.cursors = <<>> /\ idle.todo = <<>>
    BY NewJobs DEF Idle
  <2>3. m.method = "highlight" => pc = "locate"
    OBVIOUS
  <2> HIDE DEF pc, idle
  <2>4. /\ job'.method = m.method /\ job'.params = m.params /\ job'.pc = pc
        /\ job'.found = {} /\ job'.cursors = <<>> /\ job'.todo = <<>>
    BY <2>1, <2>2 DEF Shaped
  <2> SUFFICES ASSUME m.method = "highlight" PROVE HighlightInv'
    BY <2>4, OtherJobs
  <2>5. m.params.path # None /\ m.params.path.abs
    <3>1. m.form = "valid"
      BY RefusedIsExpected DEF LookUp
    <3> QED BY <1>2, <3>1, DocumentsAssumption DEF BadParams, NormalPaths
  <2>6. Kept(job'.found)
    BY <2>4, FS_EmptySet DEF Kept
  <2>7. Kept(job.found)'
    BY <2>6 DEF Kept, LocationShaped, Place
  <2> QED BY <2>3, <2>4, <2>5, <2>7 DEF HighlightInv
<1> QED BY <1>1, <1>2

\* A statement of a request leaves what the overlay shows as it is.
LEMMA HighlightWorks ==
    ASSUME SessionInv, HighlightInv, Work
    PROVE  HighlightInv'
<1>1. NavigationStep /\ UNCHANGED <<overlay, workspace, configured>>
  BY Zenon DEF Work, NavigationStep, Locate, RecordsAt, QuerySymbol, Fallback, QueryHierarchy,
               QueryFunctions, StatementFails, worldVars
<1>2. TypeOK /\ Shaped(job) /\ Working
  <2>1. Working
    BY <1>1, Zenon DEF NavigationStep, Locate, RecordsAt, QuerySymbol, Fallback, QueryHierarchy,
                       QueryFunctions, StatementFails, Working
  <2> QED BY <2>1 DEF SessionInv, JobInv
<1>3. job'.method \in {job.method, "none"}
  BY <1>1, <1>2, NavigationKeeps
<1> SUFFICES ASSUME job.method = "highlight", job'.method = "highlight" PROVE HighlightInv'
  BY <1>3, OtherJobs
<1>4. /\ job.params.path # None /\ job.params.path.abs /\ Kept(job.found)
      /\ job.pc \in {"locate", "at", "run"}
      /\ job.pc # "run" => job.found = {} /\ job.cursors = <<>> /\ job.todo = <<>>
      /\ job.pc = "run" => job.cursors \in Seq(AnyRecord) /\ \E d \in Nat : \E at : Progress(job, d, at)
  BY DEF HighlightInv
<1>5. ASSUME job'.params = job.params, Kept(job'.found), job'.pc \in {"locate", "at", "run"},
             job'.pc # "run" => job'.found = {} /\ job'.cursors = <<>> /\ job'.todo = <<>>,
             job'.pc = "run" => job'.cursors \in Seq(AnyRecord) /\ \E d \in Nat : \E at : Progress(job, d, at)'
      PROVE  HighlightInv'
  <2>1. Kept(job.found)'
    BY <1>5 DEF Kept, LocationShaped, Place
  <2> QED BY <1>4, <1>5, <2>1 DEF HighlightInv
\* The first statements are planned.
<1>6. ASSUME NEW cursors \in Seq(AnyRecord), job'.params = job.params, job'.found = {},
             job'.cursors = cursors, NEW todo, job'.todo = todo,
             NEW at, Ahead(todo, cursors, NamesOf(job.params.path), 0, at),
             todo # <<>> => todo[1].first
      PROVE  Progress(job, 0, at)'
  <2>1. Ahead(job.todo, job.cursors, NamesOf(job.params.path), 0, at)'
    BY <1>1, <1>6, ViewStays
  <2>2. Placed(job.found)' = {}
    BY <1>6 DEF Placed
  <2>3. FromOverlay(job, 0)'
    BY <2>2 DEF FromOverlay
  <2>4. (job.todo # <<>> => job.todo[1].first)'
    BY <1>6
  <2> QED BY <2>1, <2>3, <2>4 DEF Progress
<1>7. Kept({})
  BY FS_EmptySet DEF Kept
<1>8. CASE Locate
  <2>1. PICK column, version, names :
           job' \in {[job EXCEPT !.pc = "run"],
                     [job EXCEPT !.pc = "at", !.column = column, !.version = version, !.names = names]}
    BY <1>8, Zenon DEF Locate
  <2>2. job.pc = "locate"
    BY <1>8 DEF Locate
  <2>3. /\ job'.params = job.params /\ job'.found = {} /\ job'.cursors = <<>> /\ job'.todo = <<>>
        /\ job'.pc \in {"at", "run"}
    BY <1>2, <1>4, <2>1, <2>2 DEF Shaped
  <2>4. <<>> \in Seq(AnyRecord)
    OBVIOUS
  <2> DEFINE empty == <<>>
  <2>5. Ahead(empty, empty, NamesOf(job.params.path), 0, empty)
    BY DEF Ahead
  <2>6. Progress(job, 0, empty)'
    BY <1>6, <2>3, <2>4, <2>5
  <2>7. 0 \in Nat
    OBVIOUS
  <2> HIDE DEF empty
  <2>8. \E d \in Nat : \E at : Progress(job, d, at)'
    BY <2>6, <2>7
  <2> QED BY <1>5, <1>7, <2>3, <2>4, <2>8
<1>9. CASE RecordsAt
  <2> DEFINE answer == AtName(job.names[1], job.params.line + 1, job.column, job.method # "prepare")
             cursors == answer.rows
             todo == StatementsFor(cursors)
  <2>1. /\ job.pc = "at"
        /\ job' \in {[job EXCEPT !.names = Tail(@)],
                     [job EXCEPT !.pc = "run", !.names = <<>>, !.cursors = cursors, !.todo = todo]}
    BY <1>9, Zenon DEF RecordsAt
  <2>2. cursors \in Seq(AnyRecord)
    BY <1>2, AtNameFinds
  <2> HIDE DEF answer
  <2>3. /\ \E at : Ahead(todo, cursors, NamesOf(job.params.path), 0, at)
        /\ todo # <<>> => todo[1].first
    <3> HIDE DEF cursors
    <3> QED BY <2>2, HighlightPlan
  <2> HIDE DEF cursors, todo
  <2>4. CASE job' = [job EXCEPT !.names = Tail(@)]
    <3>1. /\ job'.params = job.params /\ job'.found = {} /\ job'.cursors = <<>> /\ job'.todo = <<>>
          /\ job'.pc = "at"
      BY <1>2, <1>4, <2>1, <2>4 DEF Shaped
    <3> QED BY <1>5, <1>7, <3>1
  <2>5. CASE job' = [job EXCEPT !.pc = "run", !.names = <<>>, !.cursors = cursors, !.todo = todo]
    <3>1. /\ job'.params = job.params /\ job'.found = {} /\ job'.cursors = cursors /\ job'.todo = todo
          /\ job'.pc = "run"
      BY <1>2, <1>4, <2>1, <2>5 DEF Shaped
    <3>2. PICK at : Ahead(todo, cursors, NamesOf(job.params.path), 0, at)
      BY <2>3
    <3>3. Progress(job, 0, at)'
      BY <1>6, <2>2, <2>3, <3>1, <3>2
    <3>4. 0 \in Nat
      OBVIOUS
    <3>5. \E d \in Nat : \E a : Progress(job, d, a)'
      BY <3>3, <3>4
    <3> QED BY <1>5, <1>7, <2>2, <3>1, <3>5
  <2> QED BY <2>1, <2>4, <2>5
<1>10. ASSUME job.pc = "run", job.todo # <<>>
       PROVE  Head(job.todo).op = "highlight"
  <2>1. PICK d, at : d \in Nat /\ Progress(job, d, at)
    BY <1>4, <1>10
  <2> QED BY <1>2, <1>4, <1>10, <2>1, HighlightStep
<1>11. CASE QuerySymbol
  <2> DEFINE s == Head(job.todo)
             c == Stated(s)
  <2>1. job.pc = "run" /\ job.todo # <<>>
    BY <1>11 DEF QuerySymbol
  <2>2. PICK d, at : d \in Nat /\ Progress(job, d, at)
    BY <1>4, <2>1
  <2>3. s.op = "highlight" /\ Alike(c, job) /\ Kept(c.found) /\ \E e \in Nat : \E a : Progress(c, e, a)
    BY <1>2, <1>4, <2>1, <2>2, HighlightStep
  <2>4. job' = c
    <3>1. job' = LET before == IF s.first THEN AfterOverlay(s) ELSE [job EXCEPT !.todo = Tail(@)]
                 IN Collect(s.op, before, Query(edition, [Options(s) EXCEPT !.path = s.path]).rows)
      BY <1>11, Zenon DEF QuerySymbol
    <3>2. s.op = "highlight"
      BY <2>3
    <3> HIDE DEF s
    <3> QED BY <3>1, <3>2, Zenon DEF Stated
  <2> HIDE DEF s, c
  <2>5. /\ job'.params = job.params /\ job'.cursors = job.cursors /\ job'.pc = "run" /\ Kept(job'.found)
        /\ \E e \in Nat : \E a : Progress(job', e, a)
    <3>1. c.params = job.params /\ c.cursors = job.cursors /\ c.pc = "run"
      BY <2>1, <2>3 DEF Alike
    <3> QED BY <2>3, <2>4, <3>1
  <2>6. PICK e, a : e \in Nat /\ Progress(job', e, a)
    BY <2>5
  <2>7. Progress(job, e, a)'
    BY <1>1, <2>5, <2>6, ProgressStays
  <2>8. \E x \in Nat : \E y : Progress(job, x, y)'
    BY <2>6, <2>7, Zenon
  <2> QED BY <1>4, <1>5, <2>1, <2>5, <2>8
<1>12. CASE Fallback
  BY <1>10, <1>12 DEF Fallback
<1>13. CASE QueryHierarchy
  BY <1>4, <1>13 DEF QueryHierarchy
<1>14. CASE QueryFunctions
  BY <1>10, <1>14 DEF QueryFunctions
<1>15. CASE StatementFails
  <2>1. job'.method = "none"
    BY <1>15, NewJobs DEF StatementFails, Failure
  <2> QED BY <2>1
<1> QED BY <1>1, <1>8, <1>9, <1>11, <1>12, <1>13, <1>14, <1>15 DEF NavigationStep

\* Every step keeps what is known of a highlight request.
LEMMA NextHighlight == SessionInv /\ HighlightInv /\ [Next]_vars => HighlightInv'
<1> SUFFICES ASSUME SessionInv, HighlightInv, [Next]_vars PROVE HighlightInv'
  OBVIOUS
<1>1. CASE UNCHANGED vars
  BY <1>1, HighlightStays DEF vars, worldVars
<1>2. ASSUME NEW m \in Messages,
             Refuse(m) \/ Pass(m) \/ Initialize(m) \/ Shutdown(m) \/ Exit(m) \/ DidSave(m)
      PROVE  HighlightInv'
  <2>1. job' = Idle \/ \E id : job' = Instead(id)
    BY <1>2, Zenon DEF Refuse, Pass, Initialize, Shutdown, Exit, DidSave, AnswerAtOnce, Done
  <2>2. job'.method = "none"
    BY <2>1, NewJobs DEF Idle
  <2> QED BY <2>2, OtherJobs
<1>3. ASSUME NEW m \in Messages, LookUp(m) PROVE HighlightInv'
  BY <1>3, HighlightAsked
<1>4. CASE Reply
  <2>1. job'.method = "none"
    BY <1>4 DEF Reply, Done, Idle
  <2> QED BY <2>1, OtherJobs
<1>5. CASE EndOfInput
  BY <1>5, HighlightStays, Zenon DEF EndOfInput, worldVars
<1>6. CASE Environment
  BY <1>6, HighlightStays, Zenon DEF Environment, OtherStore, EditFile
<1> QED BY <1>1, <1>2, <1>3, <1>4, <1>5, <1>6, HighlightWorks DEF Next

\* If the overlay of a file has shown every symbol at the cursor, each at places of
\* its own, and the names of the file find its own records only, every highlight is
\* in an overlay: the database's older records of the file are left out, under
\* whichever name they are found (LspServer::documentHighlight, querySymbol).
THEOREM HighlightsAreFresh == Spec => []HighlightsFresh
<1>1. Init => HighlightInv
  <2>1. Init => job.method = "none"
    BY DEF Init, Idle
  <2> QED BY <2>1 DEF HighlightInv
<1>2. SessionInv /\ HighlightInv => HighlightsFresh
  <2> SUFFICES ASSUME HighlightInv, Answered, job.method = "highlight", ShownAbove, NEW l \in job.found
               PROVE  HasOverlay(l.path)
    BY Zenon DEF HighlightsFresh, ShownAbove
  <2>1. PICK d, at : d \in Nat /\ Progress(job, d, at)
    BY DEF HighlightInv, Answered
  <2>2. FromOverlay(job, d)
    BY <2>1 DEF Progress
  <2>3. Place(l) \in Placed(job.found) /\ Place(l).path = l.path
    BY PlacedIs DEF Place
  <2> QED BY <2>2, <2>3 DEF FromOverlay
<1> QED BY <1>1, <1>2, NextHighlight, SessionInvariant, PTL DEF Spec

-----------------------------------------------------------------------------
(* The steps of a session, as far as lookups are concerned.                 *)

\* A lookup arrives: a job of which nothing is done, and the records of now.
Arrives(m) ==
    /\ m.form = "valid" /\ m.method \in Lookups /\ m.params # Malformed
    /\ job'.pc = IF m.method \in {"incoming", "outgoing"} THEN "calls" ELSE "locate"
    /\ job'.method = m.method /\ job'.params = m.params
    /\ job'.column = 0 /\ job'.version = 0 /\ job'.names = <<>> /\ job'.cursors = <<>>
    /\ job'.todo = <<>> /\ job'.hit = FALSE /\ job'.excluded = None /\ job'.cached = None
    /\ job'.found = {} /\ job'.calls = {} /\ job'.functions = {}
    /\ seen' = [always |-> Records, ever |-> Records]
    /\ UNCHANGED worldVars

\* Others store and edit, which a lookup sees; or nothing happens.
Passes ==
    /\ UNCHANGED <<job, configured, overlay, workspace>>
    /\ seen'.always \subseteq seen.always /\ seen.ever \subseteq seen'.ever
    /\ \/ UNCHANGED <<edition, seen>>
       \/ ~Working
       \/ seen'.always \subseteq Records' /\ Records' \subseteq seen'.ever

\* A statement of the job.
Works == Working /\ NavigationStep /\ UNCHANGED <<worldVars, seen>>

\* The fields of a job that arrives.
LEMMA ArrivalFields ==
    ASSUME NEW m \in Messages, LookUp(m), ~BadParams(m)
    PROVE  Arrives(m)
<1> DEFINE pc == IF m.method \in {"incoming", "outgoing"} THEN "calls" ELSE "locate"
           idle == Idle
<1>1. /\ job' = [idle EXCEPT !.pc = pc, !.id = m.id, !.method = m.method, !.params = m.params]
      /\ seen' = [always |-> Records, ever |-> Records]
      /\ UNCHANGED worldVars /\ m.method \in Lookups /\ ~Refused(m)
  BY Zenon DEF LookUp
<1>2. /\ Shaped(idle) /\ idle.column = 0 /\ idle.version = 0 /\ idle.names = <<>> /\ idle.cursors = <<>>
      /\ idle.todo = <<>> /\ idle.hit = FALSE /\ idle.excluded = None /\ idle.cached = None
      /\ idle.found = {} /\ idle.calls = {} /\ idle.functions = {}
  BY NewJobs DEF Idle
<1>3. m.form = "valid" /\ m.params # Malformed
  BY <1>1, RefusedIsExpected DEF BadParams
<1> DEFINE hit == idle.hit
<1> HIDE DEF pc, idle
<1>4. /\ job'.pc = pc /\ job'.method = m.method /\ job'.params = m.params
      /\ job'.column = 0 /\ job'.version = 0 /\ job'.names = <<>> /\ job'.cursors = <<>>
      /\ job'.todo = <<>> /\ job'.hit = hit /\ job'.excluded = None /\ job'.cached = None
      /\ job'.found = {} /\ job'.calls = {} /\ job'.functions = {}
  BY <1>1, <1>2 DEF Shaped
<1>5. job'.hit = FALSE
  BY <1>2, <1>4, Zenon
<1> QED BY <1>1, <1>3, <1>4, <1>5, Zenon DEF Arrives, pc

\* Each step ends the job, brings one, does a statement of it, or passes it by.
LEMMA StepsOfSession ==
    ASSUME SessionInv, [Next]_vars
    PROVE  \/ job'.method = "none" /\ job'.pc \in {"idle", "reply"}
           \/ \E m \in Messages : Arrives(m)
           \/ Works
           \/ Passes
<1>1. CASE UNCHANGED vars
  <2>1. UNCHANGED <<job, configured, overlay, workspace, edition, seen>>
    BY <1>1, Zenon DEF vars, worldVars, dbVars
  <2> QED BY <2>1 DEF Passes
<1>2. ASSUME NEW m \in Messages,
             Refuse(m) \/ Pass(m) \/ Initialize(m) \/ Shutdown(m) \/ Exit(m) \/ DidSave(m)
      PROVE  job'.method = "none" /\ job'.pc \in {"idle", "reply"}
  <2>1. job' = Idle \/ \E id : job' = Instead(id)
    BY <1>2, Zenon DEF Refuse, Pass, Initialize, Shutdown, Exit, DidSave, AnswerAtOnce, Done
  <2> QED BY <2>1, NewJobs DEF Idle
<1>3. ASSUME NEW m \in Messages, LookUp(m) 
      PROVE  (job'.method = "none" /\ job'.pc = "reply") \/ Arrives(m)
  <2>1. CASE BadParams(m)
    <3>1. job' = Instead(Id(m))
      BY <1>3, <2>1 DEF LookUp, AnswerAtOnce
    <3> QED BY <3>1, NewJobs
  <2>2. CASE ~BadParams(m)
    BY <1>3, <2>2, ArrivalFields
  <2> QED BY <2>1, <2>2
<1>4. CASE Reply
  BY <1>4 DEF Reply, Done, Idle
<1>5. CASE EndOfInput
  <2>1. UNCHANGED <<job, configured, overlay, workspace, edition, seen>>
    BY <1>5, Zenon DEF EndOfInput, worldVars, dbVars
  <2> QED BY <2>1 DEF Passes
<1>6. CASE Environment
  <2>1. CASE \E file \in SourceFiles : EditFile(file)
    <3>1. UNCHANGED <<job, configured, overlay, workspace, edition, seen>>
      BY <2>1, Zenon DEF EditFile, dbVars
    <3> QED BY <3>1 DEF Passes
  <2>2. CASE \E f \in Files, e \in 0 .. MaxEdition : OtherStore(f, e)
    <3>1. PICK f \in Files, e \in 0 .. MaxEdition : OtherStore(f, e)
      BY <2>2
    <3>2. UNCHANGED <<job, configured, overlay, workspace>>
      BY <3>1, Zenon DEF OtherStore
    <3> DEFINE records == RowsIn([edition EXCEPT ![f] = e], "records")
    <3>3. seen' = IF Working THEN [always |-> seen.always \cap records, ever |-> seen.ever \cup records]
                  ELSE seen
      BY <3>1, Zenon DEF OtherStore
    <3>4. Records' = records
      <4>1. edition' = [edition EXCEPT ![f] = e]
        BY <3>1, Zenon DEF OtherStore, StoreFile, Put
      <4> QED BY <4>1 DEF Records, RowsIn
    <3> HIDE DEF records
    <3> QED BY <3>2, <3>3, <3>4 DEF Passes
  <2> QED BY <1>6, <2>1, <2>2 DEF Environment
<1>7. CASE Work
  <2>1. NavigationStep /\ UNCHANGED <<worldVars, seen>>
    BY <1>7, Zenon DEF Work, NavigationStep, Locate, RecordsAt, QuerySymbol, Fallback, QueryHierarchy,
                       QueryFunctions, StatementFails
  <2>2. Working
    BY <2>1, Zenon DEF NavigationStep, Locate, RecordsAt, QuerySymbol, Fallback, QueryHierarchy,
                       QueryFunctions, StatementFails, Working
  <2> QED BY <2>1, <2>2 DEF Works
<1> QED BY <1>1, <1>2, <1>3, <1>4, <1>5, <1>6, <1>7 DEF Next

\* What is known of a lookup in hand: the records that were there all the time are
\* there now, and those that are there now were there; where the cursor is; and
\* where the server looks for files.
LookupInv ==
    /\ job.method = "none" => job.pc \in {"idle", "reply"}
    /\ workspace \in {None} \cup NormalPaths
    /\ job.method # "none" =>
          /\ Working
          /\ seen.always \subseteq Records /\ Records \subseteq seen.ever
          /\ job.method \in Lookups
          /\ job.pc \in IF job.method \in {"incoming", "outgoing"} THEN {"calls", "run"}
                        ELSE {"locate", "at", "run"}
          /\ job.method \notin {"incoming", "outgoing"} =>
                /\ job.params.path # None /\ job.params.path \in NormalPaths
                /\ job.params.line \in Nat /\ job.params.character \in Nat

\* A statement leaves the request and its position.
LEMMA StatementKeeps ==
    ASSUME Shaped(job), Works
    PROVE  \/ job'.method = "none" /\ job'.pc = "reply"
           \/ /\ Shaped(job') /\ job'.method = job.method /\ job'.params = job.params
              /\ \/ job.pc = "locate" /\ job'.pc \in {"at", "run"} /\ Locate
                 \/ job.pc = "at" /\ job'.pc \in {"at", "run"} /\ RecordsAt
                 \/ job.pc = "run" /\ job'.pc = "run" /\ (QuerySymbol \/ Fallback \/ QueryFunctions)
                 \/ job.pc = "calls" /\ job'.pc = "run" /\ QueryHierarchy
<1>0. NavigationStep /\ Working
  BY DEF Works
<1>1. CASE Locate
  <2>1. PICK column, version, names :
           job' \in {[job EXCEPT !.pc = "run"],
                     [job EXCEPT !.pc = "at", !.column = column, !.version = version, !.names = names]}
    BY <1>1, Zenon DEF Locate
  <2>2. job.pc = "locate"
    BY <1>1 DEF Locate
  <2> QED BY <1>1, <2>1, <2>2 DEF Shaped
<1>2. CASE RecordsAt
  <2>1. /\ job.pc = "at"
        /\ \E cursors, todo :
              job' \in {[job EXCEPT !.names = Tail(@)],
                        [job EXCEPT !.pc = "run", !.names = <<>>, !.cursors = cursors, !.todo = todo]}
    BY <1>2, Zenon DEF RecordsAt
  <2> QED BY <1>2, <2>1 DEF Shaped
<1>3. CASE QuerySymbol
  <2> DEFINE s == Head(job.todo)
             before == IF s.first THEN AfterOverlay(s) ELSE [job EXCEPT !.todo = Tail(@)]
  <2>1. job.pc = "run"
    BY <1>3 DEF QuerySymbol
  <2>2. PICK rows : job' = Collect(s.op, before, rows)
    BY <1>3, Zenon DEF QuerySymbol
  <2>3. /\ Shaped(before) /\ before.pc = job.pc /\ before.method = job.method /\ before.params = job.params
    <3>1. CASE s.first
      BY <3>1, OverlayParams
    <3>2. CASE ~s.first
      BY <3>2 DEF Shaped
    <3> QED BY <3>1, <3>2
  <2> HIDE DEF before
  <2>4. Shaped(job') /\ job'.pc = before.pc /\ job'.method = before.method /\ job'.params = before.params
    BY <2>2, <2>3, CollectParams
  <2> QED BY <1>3, <2>1, <2>3, <2>4
<1>4. CASE Fallback
  <2>1. job.pc = "run" /\ \E todo : job' = [job EXCEPT !.todo = todo]
    BY <1>4, Zenon DEF Fallback
  <2> QED BY <1>4, <2>1 DEF Shaped
<1>5. CASE QueryHierarchy
  <2>1. \/ job' = Failure
        \/ \E calls, todo : job' = [job EXCEPT !.pc = "run", !.calls = calls, !.todo = todo]
    BY <1>5, Zenon DEF QueryHierarchy
  <2>2. job.pc = "calls" /\ Failure.method = "none" /\ Failure.pc = "reply"
    BY <1>5, NewJobs DEF QueryHierarchy, Failure
  <2> QED BY <1>5, <2>1, <2>2 DEF Shaped
<1>6. CASE QueryFunctions
  <2>1. job.pc = "run" /\ \E functions : job' = [job EXCEPT !.todo = Tail(@), !.functions = functions]
    BY <1>6, Zenon DEF QueryFunctions
  <2> QED BY <1>6, <2>1 DEF Shaped
<1>7. CASE StatementFails
  BY <1>7, NewJobs DEF StatementFails, Failure
<1> QED BY <1>0, <1>1, <1>2, <1>3, <1>4, <1>5, <1>6, <1>7 DEF NavigationStep

\* A set of numbers has a least one.
LEMMA LeastNumber ==
    ASSUME NEW S \in SUBSET Nat, S # {}
    PROVE  \E n \in S : \A m \in S : n <= m
<1> DEFINE R == OpToRel(<, Nat)
<1>1. IsWellFoundedOn(R, Nat)
  BY NatLessThanWellFounded
<1>2. PICK x \in S : \A y \in S : ~(<<y, x>> \in R)
  <2> HIDE DEF R
  <2> QED BY <1>1, WFMin
<1>3. \A y \in S : ~(y < x)
  BY <1>2 DEF OpToRel
<1> QED BY <1>3

\* The workspace is a normal path, if there is one.
LEMMA WorkspaceStays ==
    ASSUME SessionInv, [Next]_vars, workspace \in {None} \cup NormalPaths
    PROVE  workspace' \in {None} \cup NormalPaths
<1>1. CASE UNCHANGED vars
  BY <1>1 DEF vars, worldVars
<1>2. ASSUME NEW m \in Messages, Initialize(m) PROVE workspace' \in {None} \cup NormalPaths
  <2> DEFINE valid == {i \in DOMAIN m.params : m.params[i] # None}
             i0 == CHOOSE i \in valid : \A j \in valid : i <= j
             first == m.params[i0]
  <2>1. m.method = "initialize" /\ SetWorkspace(m.params)
    BY <1>2 DEF Initialize
  <2>2. workspace' = CASE valid = {} -> workspace
                       [] valid # {} /\ Repository(first) # None -> Repository(first)
                       [] OTHER -> first
    BY <2>1, Zenon DEF SetWorkspace
  <2>3. /\ \A i \in valid : m.params[i] \in NormalPaths /\ Repository(m.params[i]) \in {None} \cup NormalPaths
        /\ DOMAIN m.params \subseteq Nat
    <3>1. /\ m.params \in Seq({None} \cup NormalPaths)
          /\ \A i \in valid : Repository(m.params[i]) \in {None} \cup NormalPaths
      BY <2>1, PathsAssumption
    <3> DEFINE S == {None} \cup NormalPaths
    <3>2. m.params \in Seq(S) => DOMAIN m.params \subseteq Nat /\ \A i \in DOMAIN m.params : m.params[i] \in S
      <4> HIDE DEF S
      <4> QED OBVIOUS
    <3> QED BY <3>1, <3>2
  <2>4. ASSUME valid # {} PROVE i0 \in valid
    <3>1. \E i \in valid : \A j \in valid : i <= j
      BY <2>3, <2>4, LeastNumber
    <3> HIDE DEF valid
    <3> QED BY <3>1, Zenon
  <2> HIDE DEF i0, valid
  <2>5. CASE valid = {}
    BY <2>2, <2>5
  <2>6. CASE valid # {}
    <3>1. workspace' = IF Repository(first) # None THEN Repository(first) ELSE first
      BY <2>2, <2>6
    <3>2. first \in NormalPaths /\ Repository(first) \in {None} \cup NormalPaths
      BY <2>3, <2>4, <2>6
    <3> QED BY <3>1, <3>2
  <2> QED BY <2>5, <2>6
<1>3. ASSUME NEW m \in Messages,
             Refuse(m) \/ Pass(m) \/ Shutdown(m) \/ Exit(m) \/ DidSave(m) \/ LookUp(m)
      PROVE  workspace' \in {None} \cup NormalPaths
  BY <1>3, Zenon DEF Refuse, Pass, Shutdown, Exit, DidSave, LookUp, worldVars
<1>4. CASE Reply
  BY <1>4, Zenon DEF Reply, worldVars
<1>5. CASE EndOfInput
  BY <1>5, Zenon DEF EndOfInput, worldVars
<1>6. CASE Work
  BY <1>6, Zenon DEF Work, NavigationStep, Locate, RecordsAt, QuerySymbol, Fallback, QueryHierarchy,
                     QueryFunctions, StatementFails, worldVars
<1>7. CASE Environment
  BY <1>7, Zenon DEF Environment, OtherStore, EditFile
<1> QED BY <1>1, <1>2, <1>3, <1>4, <1>5, <1>6, <1>7 DEF Next

\* The records of a lookup stay in the bounds of what was seen.
LEMMA NextLookup == SessionInv /\ LookupInv /\ [Next]_vars => LookupInv'
<1> SUFFICES ASSUME SessionInv, LookupInv, [Next]_vars PROVE LookupInv'
  OBVIOUS
<1>1. workspace' \in {None} \cup NormalPaths
  BY WorkspaceStays DEF LookupInv
<1>2. CASE job'.method = "none" /\ job'.pc \in {"idle", "reply"}
  BY <1>1, <1>2 DEF LookupInv
<1>3. CASE \E m \in Messages : Arrives(m)
  <2>1. PICK m \in Messages : Arrives(m)
    BY <1>3
  <2>2. Records' = Records /\ seen'.always = Records /\ seen'.ever = Records
    BY <2>1 DEF Arrives, worldVars, dbVars, Records, RowsIn
  <2>3. job'.pc = (IF m.method \in {"incoming", "outgoing"} THEN "calls" ELSE "locate")
    BY <2>1 DEF Arrives
  <2>4. Working'
    BY <2>3 DEF Working
  <2>5. m.method \notin {"incoming", "outgoing"} =>
          /\ m.params.path # None /\ m.params.path \in NormalPaths
          /\ m.params.line \in Nat /\ m.params.character \in Nat
    BY <2>1, DocumentsAssumption DEF Arrives, Lookups
  <2>6. job'.method = m.method /\ job'.params = m.params /\ m.method \in Lookups
    BY <2>1 DEF Arrives
  <2>7. "none" \notin Lookups
    BY DEF Lookups
  <2> QED BY <1>1, <2>2, <2>3, <2>4, <2>5, <2>6, <2>7 DEF LookupInv
<1>4. CASE Works /\ job'.method # "none"
  <2>1. Shaped(job) /\ UNCHANGED seen
    BY <1>4 DEF SessionInv, JobInv, Works
  <2>2. Records' = Records
    BY <1>4 DEF Works, worldVars, dbVars, Records, RowsIn
  <2>3. /\ job'.method = job.method /\ job'.params = job.params
        /\ \/ job'.pc \in {"at", "run"} /\ job.pc \in {"locate", "at"}
           \/ job'.pc = "run"
    BY <1>4, <2>1, StatementKeeps
  <2>4. Working' /\ (job'.pc = "calls" => job.pc = "calls")
    BY <2>3 DEF Working
  <2> QED BY <1>1, <1>4, <2>1, <2>2, <2>3, <2>4 DEF LookupInv
<1>6. CASE Works /\ job'.method = "none"
  <2>1. Shaped(job)
    BY DEF SessionInv, JobInv
  <2>2. job'.pc = "reply" \/ (job'.method = job.method /\ job.pc \in {"locate", "at", "run", "calls"})
    <3>1. Works
      BY <1>6
    <3> QED BY <2>1, <3>1, StatementKeeps
  <2>3. job'.pc \in {"idle", "reply"}
    BY <1>6, <2>2 DEF LookupInv
  <2> QED BY <1>2, <1>6, <2>3
<1>5. CASE Passes
  <2>1. job' = job
    BY <1>5 DEF Passes
  <2>2. ASSUME job.method # "none"
        PROVE  seen'.always \subseteq Records' /\ Records' \subseteq seen'.ever
    <3>1. Working /\ seen.always \subseteq Records /\ Records \subseteq seen.ever
      BY <2>2 DEF LookupInv
    <3>2. CASE UNCHANGED <<edition, seen>>
      BY <3>1, <3>2 DEF Records, RowsIn
    <3> QED BY <1>5, <3>1, <3>2 DEF Passes
  <2>3. Working' <=> Working
    BY <2>1 DEF Working
  <2> QED BY <1>1, <2>1, <2>2, <2>3 DEF LookupInv
<1> QED BY <1>2, <1>3, <1>4, <1>5, <1>6, StepsOfSession

-----------------------------------------------------------------------------
(* The records at the cursor.                                               *)

\* The identities of some records are those of some record.
LEMMA CollectedSome ==
    ASSUME NEW R, NEW rows \in Seq(R), rows # <<>>
    PROVE  FoldLeft(Collected, <<>>, rows) # <<>>
<1>1. PICK b : IsCourse(b, "at", <<>>, rows) /\ FoldLeft(Collected, <<>>, rows) = b[Len(rows)]
  BY CollectedCourse
<1>2. Len(rows) \in Nat /\ Len(rows) >= 1 /\ Len(rows) \in 1 .. Len(rows)
  OBVIOUS
<1> DEFINE k == Len(rows) - 1
           r == rows[Len(rows)]
<1>3. k \in Nat /\ k + 1 = Len(rows) /\ Len(rows) - 1 = k
  BY <1>2
<1>4. b[Len(rows)] = Gather("at", b[k], r)
  BY <1>1, <1>2, <1>3 DEF IsCourse
<1>5. b[Len(rows)] = Collected(b[k], r)
  BY <1>4 DEF Gather
<1>6. b[k] \in Seq(R) /\ r \in R
  <2> DEFINE T == {n \in Nat : n <= Len(rows) => b[n] \in Seq(R)}
  <2>1. 0 \in T
    <3>1. b[0] = <<>>
      BY <1>1, Zenon DEF IsCourse
    <3>2. <<>> \in Seq(R)
      OBVIOUS
    <3>3. b[0] \in Seq(R)
      BY <3>1, <3>2, Zenon
    <3> QED BY <3>3
  <2>2. ASSUME NEW n \in Nat, n \in T PROVE n + 1 \in T
    <3> SUFFICES ASSUME n + 1 <= Len(rows) PROVE b[n + 1] \in Seq(R)
      OBVIOUS
    <3>1. b[n] \in Seq(R) /\ n + 1 \in 1 .. Len(rows) /\ (n + 1) - 1 = n /\ rows[n + 1] \in R
      BY <2>2
    <3>2. b[n + 1] = Gather("at", b[n], rows[n + 1])
      BY <1>1, <3>1 DEF IsCourse
    <3>3. b[n + 1] = Collected(b[n], rows[n + 1])
      BY <3>2 DEF Gather
    <3>4. b[n + 1] = b[n] \/ b[n + 1] = Append(b[n], rows[n + 1])
      BY <3>3, Zenon DEF Collected
    <3>5. Append(b[n], rows[n + 1]) \in Seq(R)
      BY <3>1
    <3> QED BY <3>1, <3>4, <3>5, Zenon
  <2>3. Nat \subseteq T
    <3> HIDE DEF T
    <3> QED BY <2>1, <2>2, Induction
  <2> QED BY <1>2, <1>3, <2>3
<1> HIDE DEF k, r
<1>7. CASE b[k] = <<>>
  <2> DEFINE new == b[k]
  <2>1. ~\E i \in DOMAIN b[k] : IdentityKey(b[k][i]) = IdentityKey(r)
    <3>1. DOMAIN b[k] = {}
      BY <1>7
    <3> QED BY <3>1, Zenon
  <2>2. b[Len(rows)] = Append(b[k], r)
    BY <1>5, <2>1, Zenon DEF Collected
  <2>3. Append(b[k], r) # <<>>
    BY <1>6
  <2> QED BY <1>1, <2>2, <2>3, Zenon
<1>8. CASE b[k] # <<>>
  <2>1. b[Len(rows)] = b[k] \/ b[Len(rows)] = Append(b[k], r)
    BY <1>5, Zenon DEF Collected
  <2>2. Append(b[k], r) # <<>>
    BY <1>6
  <2> QED BY <1>1, <1>8, <2>1, <2>2, Zenon
<1> QED BY <1>7, <1>8

\* What a name of a file is asked for: records at the position, of the overlay or of
\* the database, and some if the database has some.
RecordsThere(name, line, column) == {r \in AnyRecord : r.path = name /\ Covers(r, line, column)}

\* The variant that is looked for at a position.
VariantAsked == IF configured = 0 THEN None ELSE configured

\* What is found at a position under one name of a file, or why nothing is.
LEMMA AtNameCovers ==
    ASSUME TypeOK, NEW name, NEW line, NEW column, NEW withOverlay
    PROVE  LET rows == AtName(name, line, column, withOverlay).rows
           IN /\ rows \in Seq(RecordsThere(name, line, column))
              /\ line # 0 /\ column # 0 /\ rows = <<>> =>
                    ~\E r \in Records : r.path = name /\ Equals(VariantAsked, r.variant) /\ Covers(r, line, column)
<1> DEFINE above == IF withOverlay THEN OverlayFindAt(name, line, column) ELSE <<>>
           variant == VariantAsked
           stored == FindAt(edition, name, variant, line, column)
           S == RecordsThere(name, line, column)
           there == {r \in RowsIn(edition, "records") :
                            /\ r.path = name
                            /\ Equals(variant, r.variant)
                            /\ Covers(r, line, column)}
<1>1. AtName(name, line, column, withOverlay) =
         IF above # <<>> THEN Answer(FoldLeft(Collected, <<>>, above))
         ELSE [stored EXCEPT !.rows = FoldLeft(Collected, <<>>, @)]
  BY Zenon DEF AtName, VariantAsked
<1>2. above \in Seq(S)
  <2>1. CASE ~withOverlay
    BY <2>1
  <2>2. CASE withOverlay
    <3> DEFINE rows == {r \in OverlayRecords(name, configured) : Covers(r, line, column)}
               k == [r \in rows |-> EmissionKey(r)]
    <3>1. configured \in Nat
      BY RecordsAssumption DEF TypeOK
    <3>2. IsFiniteSet(rows) /\ rows \subseteq AnyRecord /\ rows \subseteq S
      BY <3>1, OverlaysRecords, FS_Subset DEF RecordsThere
    <3>3. above = OrderedBy(rows, k)
      BY <2>2, Zenon DEF OverlayFindAt, Ordered
    <3> HIDE DEF rows
    <3>4. Ranks(rows, k)
      BY <3>2, RecordsRank
    <3> HIDE DEF k
    <3>5. Lists(above, rows)
      BY <3>2, <3>3, <3>4, Listing
    <3> HIDE DEF above, S
    <3> QED BY <3>2, <3>5 DEF Lists
  <2> QED BY <2>1, <2>2
<1>3. /\ stored = [ret |-> stored.ret, rows |-> stored.rows] /\ stored.rows \in Seq(S)
      /\ line # 0 /\ column # 0 /\ stored.rows = <<>> => there = {}
  <2>1. CASE line = 0 \/ column = 0
    <3>1. stored = Failed
      BY <2>1, Zenon DEF FindAt
    <3> HIDE DEF stored
    <3> QED BY <2>1, <3>1 DEF Failed
  <2>2. CASE ~(line = 0 \/ column = 0)
    <3> DEFINE rows == there
               k == [r \in rows |-> PositionKey(r)]
    <3>1. IsFiniteSet(rows) /\ rows \subseteq AnyRecord /\ rows \subseteq S
      <4>1. rows \subseteq Records
        BY DEF Records
      <4>2. \A r \in rows : r.path = name /\ Covers(r, line, column)
        OBVIOUS
      <4> HIDE DEF rows
      <4>3. IsFiniteSet(rows) /\ rows \subseteq AnyRecord
        BY <4>1, StoredRecords, FS_Subset
      <4> QED BY <4>2, <4>3 DEF RecordsThere
    <3>2. stored = Answer(OrderedBy(rows, k))
      BY <2>2, Zenon DEF FindAt, Ordered
    <3> HIDE DEF rows
    <3>3. Ranks(rows, k)
      BY <3>1, RecordsRank
    <3> HIDE DEF k, stored, S
    <3>4. Lists(OrderedBy(rows, k), rows)
      BY <3>1, <3>3, Listing
    <3>5. stored.rows = OrderedBy(rows, k) /\ stored = [ret |-> stored.ret, rows |-> stored.rows]
      BY <3>2 DEF Answer
    <3>6. stored.rows = <<>> => rows = {}
      BY <3>4, <3>5 DEF Lists
    <3> QED BY <3>1, <3>4, <3>5, <3>6 DEF Lists, rows
  <2> QED BY <2>1, <2>2
<1>9. there = {} => ~\E r \in Records : r.path = name /\ Equals(VariantAsked, r.variant) /\ Covers(r, line, column)
  BY DEF Records
<1> HIDE DEF above, stored, S, there
<1>4. CASE above # <<>>
  <2> DEFINE c == FoldLeft(Collected, <<>>, above)
  <2>1. c \in Seq(S) /\ c # <<>>
    BY <1>2, <1>4, CollectedAre, CollectedSome
  <2>2. AtName(name, line, column, withOverlay) = Answer(c)
    BY <1>1, <1>4
  <2> HIDE DEF c
  <2> QED BY <2>1, <2>2 DEF Answer, S
<1>5. CASE ~(above # <<>>)
  <2> DEFINE c == FoldLeft(Collected, <<>>, stored.rows)
  <2>1. c \in Seq(S) /\ (stored.rows # <<>> => c # <<>>)
    BY <1>3, CollectedAre, CollectedSome
  <2>2. AtName(name, line, column, withOverlay) = [stored EXCEPT !.rows = c]
    BY <1>1, <1>5
  <2> HIDE DEF c
  <2>3. AtName(name, line, column, withOverlay).rows = c
    BY <1>3, <2>2
  <2> QED BY <1>3, <1>9, <2>1, <2>3 DEF S
<1> QED BY <1>4, <1>5

\* A record under the cursor.
UnderCursor(r) ==
    /\ r.path \in ToSet(NamesOf(job.params.path))
    /\ Equals(VariantAsked, r.variant)
    /\ Covers(r, job.params.line + 1, job.column)

\* What the records at the cursor may be.
CursorRecords ==
    {r \in AnyRecord : r.path \in ToSet(NamesOf(job.params.path))
                          /\ Covers(r, job.params.line + 1, job.column)}

\* A record that is there all the time is under one of the names that are still to
\* be tried, or some record was noticed.
CursorInv ==
    job.method # "none" =>
        /\ job.pc \in {"locate", "calls"} => job.column = 0
        /\ job.pc \in {"locate", "calls", "at"} => job.cursors = <<>>
        /\ job.pc = "at" =>
              /\ job.names # <<>> /\ job.names \in Seq(ToSet(NamesOf(job.params.path)))
              /\ job.column # 0 =>
                    \A r \in seen.always : UnderCursor(r) => r.path \in ToSet(job.names)
        /\ job.pc = "run" => job.cursors \in Seq(CursorRecords) /\ CursorFound

\* All of a sequence but its first element.
LEMMA TailElements ==
    ASSUME NEW T, NEW s \in Seq(T), s # <<>>
    PROVE  /\ Tail(s) \in Seq(T) /\ Len(Tail(s)) = Len(s) - 1 /\ (Len(s) > 1 => Tail(s) # <<>>)
           /\ Head(s) = s[1] /\ s[1] \in T
           /\ ToSet(s) = {s[1]} \cup ToSet(Tail(s))
<1>1. Tail(s) \in Seq(T) /\ Len(Tail(s)) = Len(s) - 1 /\ s[1] \in T /\ Head(s) = s[1] /\ Len(s) \in Nat /\ Len(s) >= 1
  OBVIOUS
<1>2. \A i \in 1 .. Len(s) - 1 : Tail(s)[i] = s[i + 1]
  OBVIOUS
<1>3. Len(s) > 1 => Tail(s) # <<>>
  <2> DEFINE tail == Tail(s)
  <2>1. Len(<<>>) = 0
    OBVIOUS
  <2>2. Len(tail) = Len(s) - 1
    BY <1>1
  <2> HIDE DEF tail
  <2>3. Len(s) > 1 => Len(tail) # 0
    BY <1>1, <2>2
  <2>4. Len(s) > 1 => tail # <<>>
    BY <2>1, <2>3, Zenon
  <2> QED BY <2>4 DEF tail
<1>4. DOMAIN s = 1 .. Len(s) /\ DOMAIN Tail(s) = 1 .. Len(s) - 1
  BY <1>1
<1> DEFINE tail == Tail(s)
<1> HIDE DEF tail
<1>5. ASSUME NEW e \in ToSet(s) PROVE e = s[1] \/ e \in ToSet(tail)
  <2>1. PICK i \in 1 .. Len(s) : e = s[i]
    BY <1>4 DEF ToSet
  <2>2. CASE i # 1
    <3>1. i - 1 \in 1 .. Len(s) - 1 /\ tail[i - 1] = s[(i - 1) + 1]
      BY <1>1, <1>2, <2>2 DEF tail
    <3>2. s[(i - 1) + 1] = e
      BY <2>1
    <3>3. DOMAIN tail = 1 .. Len(s) - 1
      BY <1>4 DEF tail
    <3> QED BY <3>1, <3>2, <3>3 DEF ToSet
  <2> QED BY <2>1, <2>2
<1>6. ASSUME NEW e \in ToSet(tail) PROVE e \in ToSet(s)
  <2>1. PICK i \in 1 .. Len(s) - 1 : e = s[i + 1]
    BY <1>2, <1>4 DEF ToSet, tail
  <2>2. i + 1 \in DOMAIN s
    BY <1>1, <1>4
  <2> QED BY <2>1, <2>2 DEF ToSet
<1>7. s[1] \in ToSet(s)
  BY <1>1, <1>4 DEF ToSet
<1> QED BY <1>1, <1>3, <1>5, <1>6, <1>7 DEF tail

\* A name of a file that has no record under the cursor has none that was there.
LEMMA NextName ==
    ASSUME TypeOK, LookupInv, CursorInv, job.pc = "at", job.method # "none", job.column # 0,
           NEW withOverlay, NEW r \in seen.always, UnderCursor(r),
           AtName(job.names[1], job.params.line + 1, job.column, withOverlay).rows = <<>>
    PROVE  r.path \in ToSet(Tail(job.names)) /\ Len(job.names) > 1
<1> DEFINE S == ToSet(NamesOf(job.params.path))
<1>1. job.names # <<>> /\ job.names \in Seq(S) /\ r.path \in ToSet(job.names)
  BY DEF CursorInv
<1>2. r \in Records /\ job.params.line + 1 # 0
  BY DEF LookupInv
<1>3. ~(r.path = job.names[1])
  BY <1>2, AtNameCovers DEF UnderCursor
<1> HIDE DEF S
<1>4. r.path \in ToSet(Tail(job.names))
  BY <1>1, <1>3, TailElements
<1>5. Len(job.names) > 1
  <2>1. Len(Tail(job.names)) = Len(job.names) - 1 /\ Tail(job.names) \in Seq(S)
    BY <1>1, TailElements
  <2>2. Tail(job.names) # <<>>
    <3>1. DOMAIN <<>> = {}
      OBVIOUS
    <3> QED BY <1>4, <3>1 DEF ToSet
  <2>3. Len(Tail(job.names)) \in Nat /\ Len(Tail(job.names)) # 0
    <3> DEFINE tail == Tail(job.names)
    <3>1. tail \in Seq(S) /\ tail # <<>>
      BY <2>1, <2>2
    <3> HIDE DEF tail
    <3>2. Len(tail) \in Nat /\ Len(tail) # 0
      BY <3>1
    <3> QED BY <3>2 DEF tail
  <2>4. Len(job.names) \in Nat
    BY <1>1
  <2> DEFINE n == Len(job.names)
             m == Len(Tail(job.names))
  <2>5. n \in Nat /\ m \in Nat /\ m # 0 /\ m = n - 1
    BY <2>1, <2>3, <2>4
  <2> HIDE DEF n, m
  <2>6. n > 1
    BY <2>5
  <2> QED BY <2>6 DEF n
<1> QED BY <1>4, <1>5

\* A query of the job leaves what the job is about.
LEMMA QueryKeeps ==
    ASSUME Shaped(job), QuerySymbol \/ Fallback \/ QueryFunctions
    PROVE  /\ Shaped(job') /\ job.pc = "run" /\ job'.pc = "run" /\ job'.method = job.method
           /\ job'.params = job.params /\ job'.column = job.column /\ job'.version = job.version
           /\ job'.names = job.names /\ job'.cursors = job.cursors /\ job'.calls = job.calls
<1>1. CASE QuerySymbol
  <2> DEFINE s == Head(job.todo)
             before == IF s.first THEN AfterOverlay(s) ELSE [job EXCEPT !.todo = Tail(@)]
             Same(j) == /\ Shaped(j) /\ j.pc = job.pc /\ j.method = job.method
                        /\ j.params = job.params /\ j.column = job.column /\ j.version = job.version
                        /\ j.names = job.names /\ j.cursors = job.cursors /\ j.calls = job.calls
  <2>1. job.pc = "run"
    BY <1>1 DEF QuerySymbol
  <2>2. PICK rows : job' = Collect(s.op, before, rows)
    BY <1>1, Zenon DEF QuerySymbol
  <2>3. Same(before)
    <3>1. CASE s.first
      BY <3>1, OverlayParams
    <3>2. CASE ~s.first
      BY <3>2 DEF Shaped
    <3> QED BY <3>1, <3>2
  <2> HIDE DEF before
  <2>4. Same(job')
    BY <2>2, <2>3, CollectParams
  <2> QED BY <2>1, <2>4
<1>2. CASE Fallback
  <2>1. job.pc = "run" /\ \E todo : job' = [job EXCEPT !.todo = todo]
    BY <1>2, Zenon DEF Fallback
  <2> QED BY <2>1 DEF Shaped
<1>3. CASE QueryFunctions
  <2>1. job.pc = "run" /\ \E functions : job' = [job EXCEPT !.todo = Tail(@), !.functions = functions]
    BY <1>3, Zenon DEF QueryFunctions
  <2> QED BY <2>1 DEF Shaped
<1> QED BY <1>1, <1>2, <1>3

\* The names of a file stay.
LEMMA NamesStay ==
    ASSUME workspace' = workspace
    PROVE  \A path : NamesOf(path)' = NamesOf(path) /\ Uri(path)' = Uri(path)
BY DEF NamesOf, Uri, root

\* Every step of a session leaves it so.
LEMMA NextCursor == SessionInv /\ LookupInv /\ CursorInv /\ [Next]_vars => CursorInv'
<1> SUFFICES ASSUME SessionInv, LookupInv, CursorInv, [Next]_vars, job'.method # "none" PROVE CursorInv'
  BY DEF CursorInv
<1>1. CASE \E m \in Messages : Arrives(m)
  <2>1. job'.column = 0 /\ job'.cursors = <<>> /\ job'.pc \in {"calls", "locate"}
    BY <1>1 DEF Arrives
  <2> QED BY <2>1 DEF CursorInv
<1>2. CASE Passes
  <2>1. /\ job' = job /\ configured' = configured /\ workspace' = workspace
        /\ seen'.always \subseteq seen.always
    BY <1>2 DEF Passes
  <2>2. \A path : NamesOf(path)' = NamesOf(path)
    BY <2>1, NamesStay
  <2>3. \A r : UnderCursor(r)' <=> UnderCursor(r)
    BY <2>1, <2>2 DEF UnderCursor, VariantAsked
  <2>4. CursorRecords' = CursorRecords
    BY <2>1, <2>2 DEF CursorRecords
  <2>5. CursorFound => CursorFound'
    BY <2>1, <2>2 DEF CursorFound
  <2> QED BY <2>1, <2>2, <2>3, <2>4, <2>5 DEF CursorInv
<1>3. CASE Works
  <2>1. /\ Shaped(job) /\ TypeOK /\ job.method # "none" /\ job'.method = job.method
        /\ job'.params = job.params /\ UNCHANGED <<configured, workspace, seen>>
    <3>1. Working
      BY <1>3 DEF Works
    <3>2. Shaped(job) /\ TypeOK
      BY DEF SessionInv, JobInv
    <3>3. job'.method = job.method /\ job'.params = job.params
      BY <1>3, <3>2, StatementKeeps
    <3> QED BY <1>3, <3>2, <3>3 DEF Works, worldVars
  <2>2. \A path : NamesOf(path)' = NamesOf(path)
    BY <2>1, NamesStay
  <2>3. ASSUME job'.column = job.column
        PROVE  /\ \A r : UnderCursor(r)' <=> UnderCursor(r)
               /\ CursorRecords' = CursorRecords
    BY <2>1, <2>2, <2>3 DEF UnderCursor, VariantAsked, CursorRecords
  <2>4. ASSUME job'.column = job.column, job'.cursors = job.cursors, job.pc = "run", job'.pc = "run"
        PROVE  CursorInv'
    <3>1. CursorFound' <=> CursorFound
      BY <2>1, <2>2, <2>4 DEF CursorFound
    <3> QED BY <2>1, <2>3, <2>4, <3>1 DEF CursorInv
  <2>5. CASE Locate
    <3> DEFINE at == job.params
               column == ByteColumn(at.path, at.line, at.character)
               names == NamesOf(at.path)
               version == OnDisk(at.path)
    <3>1. job' = IF column = NoColumn THEN [job EXCEPT !.pc = "run"]
                 ELSE [job EXCEPT !.pc = "at", !.column = column, !.version = version, !.names = names]
      BY <2>5, Zenon DEF Locate
    <3>2. job.pc = "locate"
      BY <2>5 DEF Locate
    <3>3. job.column = 0 /\ job.cursors = <<>>
      BY <2>1, <3>2 DEF CursorInv
    <3>4. names \in Seq(ToSet(names)) /\ names # <<>>
      BY SomeName
    <3> HIDE DEF column, names, version
    <3>5. CASE job' = [job EXCEPT !.pc = "run"]
      <4>1. job'.column = 0 /\ job'.cursors = <<>> /\ job'.pc = "run"
        BY <2>1, <3>3, <3>5 DEF Shaped
      <4>2. <<>> \in Seq(CursorRecords')
        OBVIOUS
      <4>3. CursorFound'
        BY <4>1 DEF CursorFound
      <4>4. job'.cursors \in Seq(CursorRecords')
        BY <4>1, <4>2, Zenon
      <4> QED BY <4>1, <4>3, <4>4 DEF CursorInv
    <3>6. CASE job' = [job EXCEPT !.pc = "at", !.column = column, !.version = version, !.names = names]
      <4>1. job'.pc = "at" /\ job'.names = names /\ job'.cursors = <<>>
        BY <2>1, <3>3, <3>6 DEF Shaped
      <4>2. NamesOf(job.params.path)' = names
        BY <2>1, <2>2 DEF names
      <4>3. \A r \in seen'.always : UnderCursor(r)' => r.path \in ToSet(job'.names)
        BY <4>1, <4>2 DEF UnderCursor
      <4> QED BY <3>4, <4>1, <4>2, <4>3 DEF CursorInv
    <3> QED BY <3>1, <3>5, <3>6
  <2>6. CASE RecordsAt
    <3> DEFINE answer == AtName(job.names[1], job.params.line + 1, job.column, job.method # "prepare")
               todo == StatementsFor(answer.rows)
               rows == answer.rows
               tail == Tail(job.names)
               S == ToSet(NamesOf(job.params.path))
    <3>1. /\ job.pc = "at"
          /\ job' = IF rows = <<>> /\ Len(job.names) > 1 THEN [job EXCEPT !.names = tail]
                    ELSE [job EXCEPT !.pc = "run", !.names = <<>>, !.cursors = rows, !.todo = todo]
      BY <2>6, Zenon DEF RecordsAt
    <3>2. /\ job.names # <<>> /\ job.names \in Seq(S) /\ job.cursors = <<>>
          /\ job.column # 0 => \A r \in seen.always : UnderCursor(r) => r.path \in ToSet(job.names)
      BY <2>1, <3>1 DEF CursorInv
    <3>3. rows \in Seq(CursorRecords)
      <4> DEFINE T == RecordsThere(job.names[1], job.params.line + 1, job.column)
      <4>1. rows \in Seq(T)
        BY <2>1, AtNameCovers
      <4>2. job.names[1] \in S
        <5> HIDE DEF S
        <5> QED BY <3>2
      <4>3. T \subseteq CursorRecords
        BY <4>2 DEF RecordsThere, CursorRecords
      <4> HIDE DEF T, rows
      <4> QED BY <4>1, <4>3
    <3>4. ASSUME NEW r \in seen.always, UnderCursor(r), rows = <<>>, job.column # 0
          PROVE  r.path \in ToSet(tail) /\ Len(job.names) > 1
      BY <2>1, <3>1, <3>4, NextName
    <3> HIDE DEF rows, todo, answer
    <3>5. CASE rows = <<>> /\ Len(job.names) > 1
      <4>1. job'.pc = "at" /\ job'.names = tail /\ job'.cursors = <<>> /\ job'.column = job.column
        BY <2>1, <3>1, <3>2, <3>5 DEF Shaped
      <4>2. tail # <<>> /\ tail \in Seq(S)
        <5> HIDE DEF S
        <5> QED BY <3>2, <3>5, TailElements
      <4>3. NamesOf(job.params.path)' = NamesOf(job.params.path)
        BY <2>1, <2>2
      <4>4. job'.column # 0 => \A r \in seen'.always : UnderCursor(r)' => r.path \in ToSet(job'.names)
        <5> HIDE DEF tail
        <5> QED BY <2>1, <2>3, <3>4, <3>5, <4>1
      <4> HIDE DEF tail
      <4> QED BY <4>1, <4>2, <4>3, <4>4 DEF CursorInv
    <3>6. CASE ~(rows = <<>> /\ Len(job.names) > 1)
      <4>1. job'.pc = "run" /\ job'.cursors = rows /\ job'.column = job.column
        BY <2>1, <3>1, <3>6 DEF Shaped
      <4>2. CursorRecords' = CursorRecords
        BY <2>3, <4>1
      <4>3. CursorFound'
        <5> SUFFICES ASSUME job.column # 0, NEW r \in seen.always, UnderCursor(r), rows = <<>> PROVE FALSE
          BY <2>1, <2>2, <4>1 DEF CursorFound, UnderCursor, VariantAsked
        <5> QED BY <3>4, <3>6
      <4> QED BY <3>3, <4>1, <4>2, <4>3 DEF CursorInv
    <3> QED BY <3>5, <3>6
  <2>7. CASE QueryHierarchy
    <3>1. job.pc = "calls" /\ \E calls, todo : job' = [job EXCEPT !.pc = "run", !.calls = calls, !.todo = todo]
      <4>1. \/ job' = Failure
            \/ \E calls, todo : job' = [job EXCEPT !.pc = "run", !.calls = calls, !.todo = todo]
        BY <2>7, Zenon DEF QueryHierarchy
      <4>2. job.pc = "calls" /\ job' # Failure
        BY <2>7, NewJobs DEF QueryHierarchy, Failure
      <4> QED BY <4>1, <4>2
    <3>2. job'.cursors = <<>> /\ job'.column = 0 /\ job'.pc = "run"
      BY <2>1, <3>1 DEF Shaped, CursorInv
    <3>3. CursorFound'
      BY <3>2 DEF CursorFound
    <3>4. <<>> \in Seq(CursorRecords')
      OBVIOUS
    <3>5. job'.cursors \in Seq(CursorRecords')
      BY <3>2, <3>4, Zenon
    <3> QED BY <3>2, <3>3, <3>5 DEF CursorInv
  <2>8. CASE QuerySymbol \/ Fallback \/ QueryFunctions
    <3>1. job'.column = job.column /\ job'.cursors = job.cursors /\ job.pc = "run" /\ job'.pc = "run"
      BY <2>1, <2>8, QueryKeeps
    <3> QED BY <2>4, <3>1
  <2> QED BY <1>3, <2>1, <2>5, <2>6, <2>7, <2>8, StatementKeeps
<1> QED BY <1>1, <1>2, <1>3, StepsOfSession

-----------------------------------------------------------------------------
(* Functions, and the batches they are asked for in.                        *)

\* A sequence is one of its own elements.
LEMMA OwnElements ==
    ASSUME NEW T, NEW s \in Seq(T)
    PROVE  s \in Seq(ToSet(s)) /\ ToSet(s) \subseteq T
BY DEF ToSet

\* Each place of a list is in a batch.
LEMMA BatchOfPlace ==
    ASSUME NEW n \in Nat, NEW i \in 1 .. n
    PROVE  /\ (n + BatchSize - 1) \div BatchSize \in Nat
           /\ \E b \in 1 .. (n + BatchSize - 1) \div BatchSize :
                 (b - 1) * BatchSize + 1 <= i /\ i <= b * BatchSize /\ (b - 1) * BatchSize \in Nat
                    /\ b * BatchSize \in Nat
<1> DEFINE B == BatchSize
           c == (n + B - 1) \div B
           q == (i - 1) \div B
           m == (i - 1) % B
           l == (n + B - 1) % B
<1>1. B \in Nat \ {0}
  BY BatchAssumption
<1> HIDE DEF B
<1>2. c \in Nat /\ l \in Nat /\ n + B - 1 = B * c + l /\ l < B
  BY <1>1
<1>3. q \in Nat /\ m \in Nat /\ i - 1 = B * q + m /\ m < B
  BY <1>1
<1> HIDE DEF c, q, m, l
<1>4. B * c \in Nat /\ B * q \in Nat /\ (q + 1) * B = B * q + B /\ ((q + 1) - 1) * B = B * q
  BY <1>1, <1>2, <1>3
<1>5. q + 1 <= c
  <2> SUFFICES ASSUME c <= q PROVE FALSE
    BY <1>2, <1>3
  <2>1. B * c <= B * q
    <3>1. PICK d \in Nat : q = c + d
      <4>1. q - c \in Nat /\ q = c + (q - c)
        BY <1>2, <1>3
      <4> QED BY <4>1
    <3>2. B * q = B * c + B * d /\ B * d \in Nat
      BY <1>1, <1>2, <3>1
    <3> QED BY <1>4, <3>2
  <2> QED BY <1>1, <1>2, <1>3, <1>4, <2>1
<1>6. (q + 1) \in 1 .. c
  BY <1>2, <1>3, <1>5
<1>7. ((q + 1) - 1) * B + 1 <= i /\ i <= (q + 1) * B /\ ((q + 1) - 1) * B \in Nat /\ (q + 1) * B \in Nat
  BY <1>1, <1>3, <1>4
<1>8. c \in Nat /\ \E b \in 1 .. c : (b - 1) * B + 1 <= i /\ i <= b * B /\ (b - 1) * B \in Nat /\ b * B \in Nat
  BY <1>2, <1>6, <1>7
<1> QED BY <1>8 DEF c, B

\* The smaller of two numbers.
LEMMA MinOfTwo ==
    ASSUME NEW a \in Nat, NEW b \in Nat
    PROVE  Min({a, b}) = IF a <= b THEN a ELSE b
<1> DEFINE S == {a, b}
           m == IF a <= b THEN a ELSE b
<1>1. m \in S /\ \A y \in S : m <= y
  OBVIOUS
<1>2. \A x \in S : (\A y \in S : x <= y) => x = m
  OBVIOUS
<1>3. Min(S) = CHOOSE x \in S : \A y \in S : x <= y
  BY DEF Min
<1> HIDE DEF S, m
<1> QED BY <1>1, <1>2, <1>3 DEF S, m

\* Each element of a list is in a batch.
LEMMA InSomeBatch ==
    ASSUME NEW T, NEW seq \in Seq(T)
    PROVE  /\ Batches(seq) \in Seq(ToSet(Batches(seq)))
           /\ \A e \in ToSet(seq) : \E batch \in ToSet(Batches(seq)) : e \in batch
<1> DEFINE n == Len(seq)
           B == BatchSize
           c == (n + B - 1) \div B
           From(b) == (b - 1) * B + 1
           To(b) == Min({b * B, n})
           batch(b) == ToSet(SubSeq(seq, From(b), To(b)))
<1>1. Batches(seq) = [b \in 1 .. c |-> batch(b)]
  BY Zenon DEF Batches
<1>2. n \in Nat /\ DOMAIN seq = 1 .. n
  OBVIOUS
<1>3. c \in Nat
  <2>1. B \in Nat \ {0}
    BY BatchAssumption
  <2> HIDE DEF B, n
  <2> QED BY <1>2, <2>1
<1> HIDE DEF c
<1>4. Batches(seq) \in Seq(ToSet(Batches(seq)))
  <2> HIDE DEF batch
  <2> DEFINE bs == [b \in 1 .. c |-> batch(b)]
             U == {batch(b) : b \in 1 .. c}
  <2>1. bs \in [1 .. c -> U]
    OBVIOUS
  <2> HIDE DEF bs, U
  <2>2. bs \in Seq(U)
    BY <1>3, <2>1
  <2> QED BY <1>1, <2>2, OwnElements DEF bs
<1>5. ASSUME NEW e \in ToSet(seq) PROVE \E s \in ToSet(Batches(seq)) : e \in s
  <2>1. PICK i \in 1 .. n : e = seq[i]
    BY <1>2 DEF ToSet
  <2>2. PICK b \in 1 .. c : (b - 1) * B + 1 <= i /\ i <= b * B /\ (b - 1) * B \in Nat /\ b * B \in Nat
    BY <1>2, BatchOfPlace DEF c
  <2> DEFINE x == (b - 1) * B
             y == b * B
  <2>3. x \in Nat /\ y \in Nat /\ x + 1 <= i /\ i <= y
    BY <2>2
  <2>4. To(b) = IF y <= n THEN y ELSE n
    BY <1>2, <2>3, MinOfTwo
  <2> HIDE DEF x, y
  <2> DEFINE hi == To(b)
             sub == SubSeq(seq, x + 1, hi)
             k == i - x
  <2>5. hi \in Nat /\ i <= hi /\ hi <= n
    BY <1>2, <2>1, <2>3, <2>4
  <2> HIDE DEF hi, n
  <2>6. k \in 1 .. hi - x /\ (x + 1) + k - 1 = i /\ hi - x = hi - (x + 1) + 1
    BY <1>2, <2>1, <2>3, <2>5
  <2>7. Len(sub) = hi - x /\ sub[k] = seq[i] /\ DOMAIN sub = 1 .. hi - x
    <3> DEFINE lo == x + 1
    <3>1. lo \in Int /\ hi \in Int /\ lo <= hi /\ \A j \in lo .. hi : seq[j] \in T
      BY <1>2, <2>1, <2>3, <2>5 DEF n
    <3> HIDE DEF lo
    <3>2. /\ SubSeq(seq, lo, hi) \in Seq(T) /\ Len(SubSeq(seq, lo, hi)) = hi - lo + 1
          /\ \A j \in 1 .. hi - lo + 1 : SubSeq(seq, lo, hi)[j] = seq[lo + j - 1]
      BY <3>1, SubSeqProperties
    <3>3. /\ sub \in Seq(T) /\ Len(sub) = hi - (x + 1) + 1
          /\ \A j \in 1 .. hi - (x + 1) + 1 : sub[j] = seq[(x + 1) + j - 1]
      BY <3>2, Zenon DEF lo
    <3> HIDE DEF k, sub
    <3> QED BY <2>6, <3>3
  <2>8. e \in ToSet(sub)
    <3> HIDE DEF sub, k
    <3> QED BY <2>1, <2>6, <2>7 DEF ToSet
  <2>9. Batches(seq)[b] = ToSet(sub) /\ b \in DOMAIN Batches(seq)
    <3>1. batch(b) = ToSet(sub)
      BY DEF hi, x
    <3> HIDE DEF batch
    <3> QED BY <1>1, <3>1
  <2> HIDE DEF sub
  <2> QED BY <2>8, <2>9 DEF ToSet
<1> QED BY <1>4, <1>5

\* g stands for the function of record f, with a definition if f is one.
StandsFor(g, f) == Identity(g) = Identity(f) /\ (f.action # 0 => g.action # 0)

\* A record of a function.
LEMMA CollectedFunction ==
    ASSUME NEW functions, NEW r
    PROVE  \A f \in functions \cup {r} : \E g \in CollectFunction(functions, r) : StandsFor(g, f)
<1> DEFINE old == {f \in functions : Identity(f) = Identity(r)}
           new == CollectFunction(functions, r)
<1>1. new = IF old = {} \/ (r.action # 0 /\ \A f \in old : f.action = 0) THEN (functions \ old) \cup {r}
            ELSE functions
  BY Zenon DEF CollectFunction
<1> HIDE DEF new
<1>2. CASE old = {} \/ (r.action # 0 /\ \A f \in old : f.action = 0)
  <2>1. new = (functions \ old) \cup {r}
    BY <1>1, <1>2
  <2> SUFFICES ASSUME NEW f \in functions \cup {r} PROVE \E g \in new : StandsFor(g, f)
    BY DEF new
  <2>2. CASE f \in new
    BY <2>2 DEF StandsFor
  <2>3. CASE f \notin new
    <3>1. f \in old
      BY <2>1, <2>3
    <3>2. StandsFor(r, f) /\ r \in new
      BY <1>2, <2>1, <3>1 DEF StandsFor
    <3> QED BY <3>2
  <2> QED BY <2>2, <2>3
<1>3. CASE ~(old = {} \/ (r.action # 0 /\ \A f \in old : f.action = 0))
  <2>1. new = functions
    BY <1>1, <1>3
  <2>2. \E g \in functions : StandsFor(g, r)
    BY <1>3 DEF StandsFor
  <2>3. \A f \in functions : StandsFor(f, f)
    BY DEF StandsFor
  <2> QED BY <2>1, <2>2, <2>3 DEF new
<1> QED BY <1>2, <1>3

\* The records of functions, one after the other.
LEMMA FunctionsCourse ==
    ASSUME NEW j, NEW R, NEW rows \in Seq(R)
    PROVE  \E b : IsCourse(b, "functions", j, rows) /\ CollectFunctions(j, rows) = b[Len(rows)]
<1> DEFINE n == Len(rows)
           Body(h) == [s \in SUBSET DOMAIN rows |->
                          IF s = {} THEN j ELSE CollectFunction(h[s \ {Max(s)}], rows[Max(s)])]
           h == CHOOSE h : h = Body(h)
<1>1. n \in Nat /\ DOMAIN rows = 1 .. n
  OBVIOUS
<1>2. \A x, r : Gather("functions", x, r) = CollectFunction(x, r)
  BY DEF Gather
<1>3. ASSUME NEW f PROVE IsFold(f, "functions", j, rows, n) <=> f = Body(f)
  BY <1>1, <1>2, Zenon DEF IsFold
<1>4. \E f : f = Body(f)
  BY <1>1, <1>3, FoldExists
<1>5. h = Body(h)
  <2> HIDE DEF Body
  <2> QED BY <1>4, Zenon
<1>6. CollectFunctions(j, rows) = h[DOMAIN rows]
  BY Zenon DEF CollectFunctions, FoldLeft, MapThenFoldSet
<1> HIDE DEF h
<1>7. IsFold(h, "functions", j, rows, Len(rows))
  BY <1>3, <1>5
<1> QED BY <1>6, <1>7, FoldCourse

\* Each function of the records is kept, and each that was there.
LEMMA FunctionsStay ==
    ASSUME NEW functions, NEW R, NEW rows \in Seq(R)
    PROVE  \A f \in functions \cup ToSet(rows) : \E g \in CollectFunctions(functions, rows) : StandsFor(g, f)
<1>1. PICK b : IsCourse(b, "functions", functions, rows) /\ CollectFunctions(functions, rows) = b[Len(rows)]
  BY FunctionsCourse
<1> DEFINE Before(k) == functions \cup {rows[i] : i \in 1 .. k}
           T == {k \in Nat : k <= Len(rows) => \A f \in Before(k) : \E g \in b[k] : StandsFor(g, f)}
<1>2. 0 \in T
  <2>1. b[0] = functions /\ Before(0) = functions
    BY <1>1 DEF IsCourse
  <2> QED BY <2>1 DEF StandsFor
<1>3. ASSUME NEW k \in Nat, k \in T PROVE k + 1 \in T
  <2> SUFFICES ASSUME k + 1 <= Len(rows), NEW f \in Before(k + 1) PROVE \E g \in b[k + 1] : StandsFor(g, f)
    OBVIOUS
  <2> DEFINE r == rows[k + 1]
  <2>1. k + 1 \in 1 .. Len(rows) /\ (k + 1) - 1 = k
    OBVIOUS
  <2>2. b[k + 1] = CollectFunction(b[k], r)
    <3>1. b[k + 1] = Gather("functions", b[k], r)
      BY <1>1, <2>1 DEF IsCourse
    <3> QED BY <3>1 DEF Gather
  <2>3. PICK g \in b[k] \cup {r} : StandsFor(g, f)
    <3>1. CASE f \in Before(k)
      BY <1>3, <3>1
    <3>2. CASE f = r
      BY <3>2 DEF StandsFor
    <3> QED BY <3>1, <3>2
  <2>4. PICK e \in b[k + 1] : StandsFor(e, g)
    BY <2>2, <2>3, CollectedFunction
  <2> QED BY <2>3, <2>4 DEF StandsFor
<1>4. Len(rows) \in T
  <2> HIDE DEF T
  <2>1. Nat \subseteq T
    BY <1>2, <1>3, Induction
  <2>2. Len(rows) \in Nat
    OBVIOUS
  <2> QED BY <2>1, <2>2
<1>5. ToSet(rows) \subseteq {rows[i] : i \in 1 .. Len(rows)}
  <2>1. DOMAIN rows = 1 .. Len(rows)
    OBVIOUS
  <2> QED BY <2>1 DEF ToSet
<1> DEFINE n == Len(rows)
<1>6. n \in Nat /\ n <= n
  OBVIOUS
<1> HIDE DEF n
<1>7. \A f \in Before(n) : \E g \in b[n] : StandsFor(g, f)
  BY <1>4, <1>6 DEF n
<1>8. functions \cup ToSet(rows) \subseteq Before(n)
  BY <1>5 DEF n
<1> QED BY <1>1, <1>7, <1>8 DEF n

\* The statements for some functions.
LEMMA FunctionPlan ==
    ASSUME NEW functions, IsFiniteSet(functions),
           \A f \in functions : f.variant \in Nat /\ f.symbol \in Nat /\ f.usr \in Nat
    PROVE  LET todo == FunctionStatements(functions)
           IN /\ todo \in Seq(ToSet(todo))
              /\ \A e \in ToSet(todo) : e.op = "functions"
              /\ \A f \in functions : \E e \in ToSet(todo) : f \in e.functions
<1> DEFINE k == [f \in functions |-> <<f.variant, f.symbol, f.usr>>]
           list == OrderedBy(functions, k)
           batches == Batches(list)
           todo == [i \in DOMAIN batches |-> [op |-> "functions", functions |-> batches[i]]]
<1>1. FunctionStatements(functions) = todo
  BY Zenon DEF FunctionStatements, Ordered
<1>2. Lists(list, functions)
  <2>1. \A f \in functions : Numbers(k[f], 3)
    BY DEF Numbers
  <2> HIDE DEF k
  <2> QED BY <2>1, NumbersRank, Listing
<1> HIDE DEF list
<1>3. /\ list \in Seq(functions) /\ \A f \in functions : f \in ToSet(list)
  <2>1. list \in Seq(functions) /\ \A f \in functions : \E i \in 1 .. Len(list) : list[i] = f
    BY <1>2 DEF Lists
  <2>2. DOMAIN list = 1 .. Len(list)
    BY <2>1
  <2> QED BY <2>1, <2>2 DEF ToSet
<1>4. /\ batches \in Seq(ToSet(batches))
      /\ \A f \in functions : \E batch \in ToSet(batches) : f \in batch
  BY <1>3, InSomeBatch
<1> HIDE DEF batches
<1> DEFINE U == {[op |-> "functions", functions |-> batch] : batch \in ToSet(batches)}
<1>5. todo \in Seq(U) /\ DOMAIN todo = DOMAIN batches
  <2> DEFINE B == ToSet(batches)
  <2>0. batches \in Seq(B)
    BY <1>4
  <2>1. Len(batches) \in Nat /\ DOMAIN batches = 1 .. Len(batches) /\ \A i \in DOMAIN batches : batches[i] \in B
    <3> HIDE DEF B
    <3> QED BY <2>0
  <2> HIDE DEF B
  <2>2. todo \in [1 .. Len(batches) -> U]
    BY <2>1 DEF B
  <2> HIDE DEF todo, U
  <2> QED BY <2>1, <2>2
<1>6. ASSUME NEW f \in functions PROVE \E e \in ToSet(todo) : f \in e.functions
  <2>1. PICK i \in DOMAIN batches : f \in batches[i]
    BY <1>4 DEF ToSet
  <2>2. f \in todo[i].functions /\ i \in DOMAIN todo
    BY <2>1
  <2> HIDE DEF todo
  <2> QED BY <2>2 DEF ToSet
<1>7. \A e \in U : e.op = "functions"
  OBVIOUS
<1> HIDE DEF todo, U
<1>8. todo \in Seq(ToSet(todo)) /\ ToSet(todo) \subseteq U
  BY <1>5, OwnElements
<1> QED BY <1>1, <1>6, <1>7, <1>8

\* The place of a path is a number.
LEMMA RankIsNumber == ASSUME NEW path \in ToSet(Paths) PROVE Rank(path) \in Int
<1>1. PICK i \in DOMAIN Paths : Paths[i] = path
  BY DEF ToSet
<1>2. Rank(path) \in DOMAIN Paths
  BY <1>1 DEF Rank
<1>3. Paths \in Seq(ToSet(Paths))
  BY RecordsAssumption
<1> DEFINE T == ToSet(Paths)
<1> HIDE DEF T
<1>4. Paths \in Seq(T) => DOMAIN Paths \subseteq Int
  OBVIOUS
<1> QED BY <1>2, <1>3, <1>4 DEF T

\* What a list lists.
LEMMA ListedSet ==
    ASSUME NEW rows, NEW seq, Lists(seq, rows)
    PROVE  ToSet(seq) = rows
<1>1. seq \in Seq(rows) /\ \A r \in rows : \E i \in 1 .. Len(seq) : seq[i] = r
  BY DEF Lists
<1>2. DOMAIN seq = 1 .. Len(seq)
  BY <1>1
<1> QED BY <1>1, <1>2 DEF ToSet

\* The numbers of a record.
LEMMA AnyNumbers ==
    ASSUME NEW r \in AnyRecord
    PROVE  /\ r.variant \in Nat /\ r.line \in Nat /\ r.column \in Nat
           /\ r.record \in Nat /\ r.action \in Nat /\ r.kind \in Nat /\ r.symbol \in Nat
           /\ r.context \in Nat /\ r.mode \in Nat /\ r.usr \in Nat /\ r.cusr \in Nat
           /\ r.local \in BOOLEAN
<1>1. PICK path : r \in RecordsOf(path)
  BY DEF AnyRecord
<1> QED BY <1>1, RecordNumbers

\* The calls of a function.
LEMMA CallsAnswered ==
    ASSUME TypeOK, NEW function, NEW direction
    PROVE  LET answer == QueryCalls(edition, function, direction)
           IN answer.ret # "error" =>
                 ToSet(answer.rows) = CallsOf(Records, function, direction) /\ IsFiniteSet(ToSet(answer.rows))
<1> DEFINE rows == CallsOf(Records, function, direction)
           k == [r \in rows |-> CallKey(direction, r)]
           answer == QueryCalls(edition, function, direction)
<1>1. answer = IF function.symbol = 0 THEN Failed ELSE Answer(OrderedBy(rows, k))
  BY Zenon DEF QueryCalls, Ordered, Records
<1>2. IsFiniteSet(rows) /\ rows \subseteq AnyRecord /\ \A r \in rows : r.path \in ToSet(Paths)
  <2>1. rows \subseteq Records
    BY DEF CallsOf
  <2> HIDE DEF rows
  <2> QED BY <2>1, StoredRecords, FS_Subset
<1> HIDE DEF answer, rows
<1>3. \A r \in rows : Numbers(k[r], 5)
  <2> SUFFICES ASSUME NEW r \in rows PROVE Numbers(k[r], 5)
    OBVIOUS
  <2>1. Rank(r.path) \in Int /\ r \in AnyRecord
    BY <1>2, RankIsNumber
  <2>2. Peer(direction, r).symbol \in Nat /\ r.line \in Nat /\ r.column \in Nat /\ r.mode \in Nat
    BY <2>1, AnyNumbers DEF Peer
  <2>3. k[r] = CallKey(direction, r)
    OBVIOUS
  <2> HIDE DEF k
  <2> QED BY <2>1, <2>2, <2>3 DEF CallKey, Numbers
<1> HIDE DEF k
<1>4. Lists(OrderedBy(rows, k), rows)
  BY <1>2, <1>3, NumbersRank, Listing
<1>5. ToSet(OrderedBy(rows, k)) = rows
  BY <1>4, ListedSet
<1> QED BY <1>1, <1>2, <1>5 DEF answer, rows, Answer, Failed

\* The records of a batch of functions.
LEMMA FunctionsAnswered ==
    ASSUME TypeOK, NEW functions
    PROVE  LET rows == FunctionBatch(Records, functions)
           IN /\ rows \in Seq(ToSet(rows))
              /\ \A r \in Records : r.record = Symbol /\ r.usr # 0 /\ Identity(r) \in functions => r \in ToSet(rows)
<1> DEFINE rows == {r \in Records : /\ r.record = Symbol /\ r.usr # 0
                                    /\ [variant |-> r.variant, kind |-> r.kind,
                                        symbol |-> r.symbol, usr |-> r.usr] \in functions}
           k == [r \in rows |-> FunctionKey(r)]
<1>1. FunctionBatch(Records, functions) = OrderedBy(rows, k)
  BY Zenon DEF FunctionBatch, Ordered
<1>2. IsFiniteSet(rows) /\ rows \subseteq AnyRecord /\ \A r \in rows : r.path \in ToSet(Paths)
  BY StoredRecords, FS_Subset
<1>3. \A r \in Records : r.record = Symbol /\ r.usr # 0 /\ Identity(r) \in functions => r \in rows
  <2> SUFFICES ASSUME NEW r \in Records, r.record = Symbol, r.usr # 0, Identity(r) \in functions
               PROVE  r \in rows
    OBVIOUS
  <2>1. Identity(r) = [variant |-> r.variant, kind |-> r.kind, symbol |-> r.symbol, usr |-> r.usr]
    BY DEF Identity
  <2> QED BY <2>1
<1> HIDE DEF rows
<1>4. \A r \in rows : Numbers(k[r], 6)
  <2> SUFFICES ASSUME NEW r \in rows PROVE Numbers(k[r], 6)
    OBVIOUS
  <2>1. Rank(r.path) \in Int /\ r \in AnyRecord
    BY <1>2, RankIsNumber
  <2>2. /\ r.variant \in Nat /\ r.symbol \in Nat /\ r.action \in Nat /\ r.line \in Nat /\ r.column \in Nat
    BY <2>1, AnyNumbers
  <2>3. k[r] = FunctionKey(r)
    OBVIOUS
  <2> HIDE DEF k
  <2>4. -r.action \in Int
    BY <2>2
  <2> QED BY <2>1, <2>2, <2>3, <2>4 DEF FunctionKey, Numbers
<1> HIDE DEF k
<1>5. Lists(OrderedBy(rows, k), rows)
  BY <1>2, <1>4, NumbersRank, Listing
<1>6. ToSet(OrderedBy(rows, k)) = rows /\ OrderedBy(rows, k) \in Seq(rows)
  BY <1>5, ListedSet DEF Lists
<1> QED BY <1>1, <1>3, <1>6

\* The functions that are asked for.
Wanted == FunctionsAt(job.cursors) \cup {Peer(Direction, c) : c \in job.calls}

\* What the functions of a hierarchy are taken from.
IsFunction(r) == r.record = Symbol /\ r.usr # 0 /\ r.kind = FunctionKind

\* The calls are those that are there, and each function is asked for or found.
HierarchyInv ==
    job.method \in {"prepare", "incoming", "outgoing"} =>
        /\ job.pc # "run" => job.todo = <<>> /\ job.calls = {} /\ job.functions = {}
        /\ job.method = "prepare" => job.calls = {}
        /\ job.method # "prepare" => job.cursors = <<>>
        /\ job.pc = "run" =>
              /\ job.method # "prepare" =>
                    /\ {r \in CallsOf(seen.always, job.params, Direction) : Grouped(Direction, r)} \subseteq job.calls
                    /\ job.calls \subseteq CallsOf(seen.ever, job.params, Direction)
              /\ job.todo \in Seq(ToSet(job.todo)) /\ \A e \in ToSet(job.todo) : e.op = "functions"
              /\ \A r \in seen.always : IsFunction(r) /\ Identity(r) \in Wanted =>
                    \/ \E e \in ToSet(job.todo) : Identity(r) \in e.functions
                    \/ \E f \in job.functions : StandsFor(f, r)

\* Calls of more records.
LEMMA CallsGrow ==
    ASSUME NEW rows, NEW more, rows \subseteq more, NEW function, NEW direction
    PROVE  CallsOf(rows, function, direction) \subseteq CallsOf(more, function, direction)
BY DEF CallsOf

\* The function at the other end of a call is named by numbers.
LEMMA PeerNumbers ==
    ASSUME NEW r \in AnyRecord, NEW direction
    PROVE  LET f == Peer(direction, r) IN f.variant \in Nat /\ f.symbol \in Nat /\ f.usr \in Nat
BY AnyNumbers DEF Peer

\* The functions at the cursors are named by numbers, and finite in number.
LEMMA FunctionsAtNumbers ==
    ASSUME NEW cursors \in Seq(AnyRecord)
    PROVE  /\ IsFiniteSet(FunctionsAt(cursors))
           /\ \A f \in FunctionsAt(cursors) : f.variant \in Nat /\ f.symbol \in Nat /\ f.usr \in Nat
<1> DEFINE some == {c \in ToSet(cursors) : c.kind = FunctionKind /\ c.usr # 0}
           id == [c \in some |-> Identity(c)]
<1>1. ToSet(cursors) = {cursors[i] : i \in 1 .. Len(cursors)} /\ Len(cursors) \in Nat
  BY DEF ToSet
<1>2. IsFiniteSet(ToSet(cursors))
  <2>1. IsFiniteSet(1 .. Len(cursors))
    BY <1>1, FS_Interval
  <2> QED BY <1>1, <2>1, FiniteImage
<1>3. ToSet(cursors) \subseteq AnyRecord
  BY DEF ToSet
<1>4. IsFiniteSet(some) /\ some \subseteq AnyRecord
  BY <1>2, <1>3, FS_Subset
<1>5. FunctionsAt(cursors) = {id[c] : c \in some}
  BY DEF FunctionsAt
<1>6. \A c \in some : id[c].variant \in Nat /\ id[c].symbol \in Nat /\ id[c].usr \in Nat
  BY <1>3, AnyNumbers DEF Identity
<1> HIDE DEF id, some
<1> QED BY <1>4, <1>5, <1>6, FiniteImage

\* What is asked for first.
LEMMA AskedForFunctions ==
    ASSUME NEW functions, IsFiniteSet(functions),
           \A f \in functions : f.variant \in Nat /\ f.symbol \in Nat /\ f.usr \in Nat,
           NEW todo, todo = FunctionStatements(functions)
    PROVE  /\ todo \in Seq(ToSet(todo)) /\ \A e \in ToSet(todo) : e.op = "functions"
           /\ \A f \in functions : \E e \in ToSet(todo) : f \in e.functions
BY FunctionPlan

\* The view stays for a step that leaves the job.
LEMMA HierarchyPasses == HierarchyInv /\ Passes => HierarchyInv'
<1> SUFFICES ASSUME HierarchyInv, Passes PROVE HierarchyInv'
  OBVIOUS
<1>1. job' = job /\ seen'.always \subseteq seen.always /\ seen.ever \subseteq seen'.ever
  BY DEF Passes
<1>2. Wanted' = Wanted /\ Direction' = Direction
  BY <1>1 DEF Wanted, Direction
<1>3. /\ CallsOf(seen'.always, job.params, Direction) \subseteq CallsOf(seen.always, job.params, Direction)
      /\ CallsOf(seen.ever, job.params, Direction) \subseteq CallsOf(seen'.ever, job.params, Direction)
  BY <1>1, CallsGrow
<1> QED BY <1>1, <1>2, <1>3 DEF HierarchyInv

\* The records at the cursor are known, or another name is tried.
LEMMA HierarchyAt ==
    ASSUME SessionInv, LookupInv, CursorInv, HierarchyInv, RecordsAt,
           UNCHANGED <<worldVars, seen>>, job.method = "prepare", Shaped(job)
    PROVE  HierarchyInv'
<1> DEFINE answer == AtName(job.names[1], job.params.line + 1, job.column, job.method # "prepare")
           rows == answer.rows
           todo == StatementsFor(rows)
           tail == Tail(job.names)
<1>1. /\ job.pc = "at"
      /\ job' = IF rows = <<>> /\ Len(job.names) > 1 THEN [job EXCEPT !.names = tail]
                ELSE [job EXCEPT !.pc = "run", !.names = <<>>, !.cursors = rows, !.todo = todo]
  BY Zenon DEF RecordsAt
<1>2. job.todo = <<>> /\ job.calls = {} /\ job.functions = {}
  BY <1>1 DEF HierarchyInv
<1>3. rows \in Seq(AnyRecord)
  <2>1. TypeOK
    BY DEF SessionInv
  <2>2. rows \in Seq(RecordsThere(job.names[1], job.params.line + 1, job.column))
    BY <2>1, AtNameCovers
  <2> DEFINE R == RecordsThere(job.names[1], job.params.line + 1, job.column)
  <2>3. R \subseteq AnyRecord
    BY DEF RecordsThere
  <2> HIDE DEF R, rows
  <2> QED BY <2>2, <2>3 DEF R
<1>4. todo = FunctionStatements(FunctionsAt(rows))
  BY Zenon DEF StatementsFor
<1> HIDE DEF answer, rows, todo, tail
<1>5. CASE job' = [job EXCEPT !.names = tail]
  <2>1. /\ job'.pc = "at" /\ job'.todo = <<>> /\ job'.calls = {} /\ job'.functions = {} /\ job'.method = "prepare"
    BY <1>1, <1>2, <1>5 DEF Shaped
  <2> QED BY <2>1 DEF HierarchyInv
<1>6. CASE job' = [job EXCEPT !.pc = "run", !.names = <<>>, !.cursors = rows, !.todo = todo]
  <2>1. /\ job'.pc = "run" /\ job'.todo = todo /\ job'.calls = {} /\ job'.functions = {} /\ job'.method = "prepare"
        /\ job'.cursors = rows
    BY <1>2, <1>6 DEF Shaped
  <2>2. /\ IsFiniteSet(FunctionsAt(rows))
        /\ \A f \in FunctionsAt(rows) : f.variant \in Nat /\ f.symbol \in Nat /\ f.usr \in Nat
    BY <1>3, FunctionsAtNumbers
  <2>3. /\ todo \in Seq(ToSet(todo)) /\ \A e \in ToSet(todo) : e.op = "functions"
        /\ \A f \in FunctionsAt(rows) : \E e \in ToSet(todo) : f \in e.functions
    BY <1>4, <2>2, AskedForFunctions
  <2>4. Wanted' = FunctionsAt(rows)
    <3>1. FunctionsAt(job.cursors)' = FunctionsAt(rows)
      BY <2>1 DEF FunctionsAt
    <3>2. {Peer(Direction, c) : c \in job.calls}' = {}
      BY <2>1
    <3> QED BY <3>1, <3>2 DEF Wanted
  <2> QED BY <2>1, <2>3, <2>4 DEF HierarchyInv
<1> QED BY <1>1, <1>5, <1>6

\* The calls are known.
LEMMA HierarchyCalls ==
    ASSUME SessionInv, LookupInv, HierarchyInv, QueryHierarchy, job'.method # "none",
           UNCHANGED <<worldVars, seen>>, job.method \in {"incoming", "outgoing"}, Shaped(job)
    PROVE  HierarchyInv'
<1> DEFINE answer == QueryCalls(edition, job.params, Direction)
           calls == {r \in ToSet(answer.rows) : Grouped(Direction, r)}
           peers == {Peer(Direction, r) : r \in calls}
           todo == FunctionStatements(peers)
           all == CallsOf(Records, job.params, Direction)
<1>1. /\ job.pc = "calls"
      /\ job' = IF answer.ret = "error" THEN Failure
                ELSE [job EXCEPT !.pc = "run", !.calls = calls, !.todo = todo]
  BY Zenon DEF QueryHierarchy
<1>2. job.todo = <<>> /\ job.calls = {} /\ job.functions = {} /\ job.cursors = <<>>
  BY <1>1 DEF HierarchyInv
<1>3. answer.ret # "error"
  BY <1>1, NewJobs DEF Failure
<1>4. ToSet(answer.rows) = all /\ IsFiniteSet(all) /\ TypeOK
  <2>1. TypeOK
    BY DEF SessionInv
  <2> QED BY <1>3, <2>1, CallsAnswered
<1>5. IsFiniteSet(calls) /\ calls \subseteq AnyRecord
  <2>1. all \subseteq Records
    BY DEF CallsOf
  <2>2. calls \subseteq all
    BY <1>4
  <2>3. Records \subseteq AnyRecord
    BY <1>4, StoredRecords
  <2> HIDE DEF calls, all
  <2> QED BY <1>4, <2>1, <2>2, <2>3, FS_Subset
<1>6. IsFiniteSet(peers)
  <2> DEFINE peer == [r \in calls |-> Peer(Direction, r)]
  <2>1. peers = {peer[r] : r \in calls}
    OBVIOUS
  <2> HIDE DEF peer, peers, calls
  <2> QED BY <1>5, <2>1, FiniteImage
<1>7. \A f \in peers : f.variant \in Nat /\ f.symbol \in Nat /\ f.usr \in Nat
  BY <1>5, PeerNumbers
<1>8. /\ {r \in CallsOf(seen.always, job.params, Direction) : Grouped(Direction, r)} \subseteq calls
      /\ calls \subseteq CallsOf(seen.ever, job.params, Direction)
  <2>1. seen.always \subseteq Records /\ Records \subseteq seen.ever
    BY DEF LookupInv
  <2>2. CallsOf(seen.always, job.params, Direction) \subseteq all /\ all \subseteq CallsOf(seen.ever, job.params, Direction)
    BY <2>1, CallsGrow
  <2> HIDE DEF all
  <2> QED BY <1>4, <2>2
<1> HIDE DEF answer, calls
<1>9. /\ todo \in Seq(ToSet(todo)) /\ \A e \in ToSet(todo) : e.op = "functions"
      /\ \A f \in peers : \E e \in ToSet(todo) : f \in e.functions
  <2> HIDE DEF peers
  <2> QED BY <1>6, <1>7, AskedForFunctions
<1>10. job' = [job EXCEPT !.pc = "run", !.calls = calls, !.todo = todo]
  BY <1>1, <1>3
<1> HIDE DEF todo, peers
<1>11. /\ job'.pc = "run" /\ job'.todo = todo /\ job'.calls = calls /\ job'.functions = {}
       /\ job'.method = job.method /\ job'.params = job.params /\ job'.cursors = <<>>
  BY <1>2, <1>10 DEF Shaped
<1>12. Direction' = Direction
  BY <1>11 DEF Direction
<1>13. Wanted' = peers
  <2>1. FunctionsAt(job.cursors)' = {}
    BY <1>11 DEF FunctionsAt, ToSet
  <2> QED BY <1>11, <1>12, <2>1 DEF Wanted, peers
<1>14. job'.method # "prepare"
  BY <1>11
<1> QED BY <1>8, <1>9, <1>11, <1>12, <1>13, <1>14 DEF HierarchyInv

\* A batch of functions is known.
LEMMA HierarchyBatch ==
    ASSUME SessionInv, LookupInv, HierarchyInv, QueryFunctions,
           UNCHANGED <<worldVars, seen>>, job.method \in {"prepare", "incoming", "outgoing"}, Shaped(job)
    PROVE  HierarchyInv'
<1> DEFINE s == Head(job.todo)
           rows == FunctionBatch(RowsIn(edition, "records"), s.functions)
           functions == CollectFunctions(job.functions, rows)
           tail == Tail(job.todo)
<1>1. job.pc = "run" /\ job.todo # <<>> /\ job' = [job EXCEPT !.todo = tail, !.functions = functions]
  BY Zenon DEF QueryFunctions
<1>2. /\ rows \in Seq(ToSet(rows))
      /\ \A r \in Records : r.record = Symbol /\ r.usr # 0 /\ Identity(r) \in s.functions => r \in ToSet(rows)
  <2>1. TypeOK /\ Records = RowsIn(edition, "records")
    BY DEF SessionInv, Records
  <2> QED BY <2>1, FunctionsAnswered
<1>3. \A f \in job.functions \cup ToSet(rows) : \E g \in functions : StandsFor(g, f)
  <2> HIDE DEF rows
  <2> QED BY <1>2, FunctionsStay
<1>4. /\ job.todo \in Seq(ToSet(job.todo)) /\ \A e \in ToSet(job.todo) : e.op = "functions"
      /\ \A r \in seen.always : IsFunction(r) /\ Identity(r) \in Wanted =>
            \/ \E e \in ToSet(job.todo) : Identity(r) \in e.functions
            \/ \E f \in job.functions : StandsFor(f, r)
  BY <1>1 DEF HierarchyInv
<1>5. /\ tail \in Seq(ToSet(tail)) /\ ToSet(job.todo) = {s} \cup ToSet(tail)
  <2>1. tail \in Seq(ToSet(job.todo)) /\ ToSet(job.todo) = {s} \cup ToSet(tail)
    BY <1>1, <1>4, TailElements
  <2> HIDE DEF tail
  <2> QED BY <2>1, OwnElements
<1> HIDE DEF rows, functions, tail
<1>6. /\ job'.pc = "run" /\ job'.todo = tail /\ job'.calls = job.calls /\ job'.functions = functions
      /\ job'.method = job.method /\ job'.params = job.params /\ job'.cursors = job.cursors
  BY <1>1 DEF Shaped
<1>7. Wanted' = Wanted /\ Direction' = Direction
  BY <1>6 DEF Wanted, Direction
<1>8. ASSUME NEW r \in seen.always, IsFunction(r), Identity(r) \in Wanted
      PROVE  \/ \E e \in ToSet(tail) : Identity(r) \in e.functions
             \/ \E f \in functions : StandsFor(f, r)
  <2>1. CASE \E e \in ToSet(tail) : Identity(r) \in e.functions
    BY <2>1
  <2>2. CASE Identity(r) \in s.functions
    <3>1. r \in Records
      BY DEF LookupInv
    <3>2. r \in ToSet(rows)
      BY <1>2, <1>8, <2>2, <3>1 DEF IsFunction
    <3> QED BY <1>3, <3>2
  <2>3. CASE \E f \in job.functions : StandsFor(f, r)
    <3>1. PICK f \in job.functions : StandsFor(f, r)
      BY <2>3
    <3>2. PICK g \in functions : StandsFor(g, f)
      BY <1>3
    <3> QED BY <3>1, <3>2 DEF StandsFor
  <2> QED BY <1>4, <1>5, <1>8, <2>1, <2>2, <2>3
<1>9. \A e \in ToSet(tail) : e.op = "functions"
  BY <1>4, <1>5
<1> QED BY <1>1, <1>5, <1>6, <1>7, <1>8, <1>9 DEF HierarchyInv

\* Every step of a session leaves it so.
LEMMA NextHierarchy ==
    SessionInv /\ LookupInv /\ CursorInv /\ HierarchyInv /\ [Next]_vars => HierarchyInv'
<1> SUFFICES ASSUME SessionInv, LookupInv, CursorInv, HierarchyInv, [Next]_vars,
                    job'.method \in {"prepare", "incoming", "outgoing"}
             PROVE  HierarchyInv'
  BY DEF HierarchyInv
<1>1. CASE \E m \in Messages : Arrives(m)
  <2>1. /\ job'.todo = <<>> /\ job'.calls = {} /\ job'.functions = {} /\ job'.cursors = <<>>
        /\ job'.pc \in {"calls", "locate"}
    BY <1>1 DEF Arrives
  <2> QED BY <2>1 DEF HierarchyInv
<1>2. CASE Passes
  BY <1>2, HierarchyPasses
<1>3. CASE Works
  <2>1. Shaped(job) /\ UNCHANGED <<worldVars, seen>>
    BY <1>3 DEF SessionInv, JobInv, Works
  <2>2. job'.method = job.method
    BY <1>3, <2>1, StatementKeeps
  <2>3. job.method \in {"prepare", "incoming", "outgoing"}
    BY <2>2
  <2>4. CASE Locate
    <3>1. PICK column, version, names :
             job' \in {[job EXCEPT !.pc = "run"],
                       [job EXCEPT !.pc = "at", !.column = column, !.version = version, !.names = names]}
      BY <2>4, Zenon DEF Locate
    <3>2. /\ job.pc = "locate" /\ job.method = "prepare" /\ job.cursors = <<>>
          /\ job.todo = <<>> /\ job.calls = {} /\ job.functions = {}
      <4>1. job.pc = "locate"
        BY <2>4 DEF Locate
      <4> QED BY <2>3, <4>1 DEF LookupInv, CursorInv, HierarchyInv
    <3>3. /\ job'.todo = <<>> /\ job'.calls = {} /\ job'.functions = {} /\ job'.cursors = <<>>
          /\ job'.method = "prepare"
      BY <2>1, <3>1, <3>2 DEF Shaped
    <3>4. Wanted' = {}
      BY <3>3 DEF Wanted, FunctionsAt, ToSet
    <3>5. <<>> \in Seq(ToSet(<<>>)) /\ ToSet(<<>>) = {}
      BY DEF ToSet
    <3> QED BY <3>3, <3>4, <3>5 DEF HierarchyInv
  <2>5. CASE RecordsAt
    <3>1. job.method = "prepare"
      BY <2>3, <2>5 DEF RecordsAt, LookupInv
    <3> QED BY <2>1, <2>5, <3>1, HierarchyAt
  <2>6. CASE QuerySymbol \/ Fallback
    <3>1. job.pc = "run" /\ job.todo # <<>> /\ Head(job.todo).op # "functions"
      BY <2>6 DEF QuerySymbol, Fallback
    <3>2. job.todo \in Seq(ToSet(job.todo)) /\ \A e \in ToSet(job.todo) : e.op = "functions"
      BY <2>3, <3>1 DEF HierarchyInv
    <3>3. Head(job.todo) \in ToSet(job.todo)
      BY <3>1, <3>2, TailElements
    <3> QED BY <3>1, <3>2, <3>3
  <2>7. CASE QueryHierarchy
    <3>1. job.method \in {"incoming", "outgoing"}
      BY <2>3, <2>7 DEF QueryHierarchy, LookupInv
    <3>2. job'.method # "none"
      OBVIOUS
    <3> QED BY <2>1, <2>7, <3>1, <3>2, HierarchyCalls
  <2>8. CASE QueryFunctions
    BY <2>1, <2>3, <2>8, HierarchyBatch
  <2> QED BY <1>3, <2>1, <2>4, <2>5, <2>6, <2>7, <2>8, StatementKeeps
<1>4. CASE job'.method = "none"
  BY <1>4
<1> QED BY <1>1, <1>2, <1>3, <1>4, StepsOfSession

\* What HierarchyFaithful asks follows.
LEMMA HierarchyIsFaithful == HierarchyInv /\ Answered => HierarchyFaithful
<1> SUFFICES ASSUME HierarchyInv, Answered PROVE HierarchyFaithful
  OBVIOUS
<1>1. job.pc = "run" /\ ToSet(job.todo) = {}
  BY DEF Answered, ToSet
<1>2. \A f, r : StandsFor(f, r) => Identity(f) = Identity(r) /\ (r.action # 0 => f.action # 0)
  BY DEF StandsFor
<1>3. \A r \in seen.always : IsFunction(r) /\ Identity(r) \in Wanted /\ job.method \in {"prepare", "incoming", "outgoing"}
         => \E f \in job.functions : StandsFor(f, r)
  BY <1>1 DEF HierarchyInv
<1>4. ASSUME job.method \in {"prepare", "incoming", "outgoing"},
             NEW r \in seen.always, r.record = Symbol, r.usr # 0, r.kind = FunctionKind,
             Identity(r) \in FunctionsAt(job.cursors) \cup {Peer(Direction, c) : c \in job.calls}
      PROVE  \E f \in job.functions : Identity(f) = Identity(r) /\ (r.action # 0 => f.action # 0)
  BY <1>2, <1>3, <1>4 DEF IsFunction, Wanted
<1>5. job.method \in {"incoming", "outgoing"} =>
          /\ {r \in CallsOf(seen.always, job.params, Direction) : Grouped(Direction, r)} \subseteq job.calls
          /\ job.calls \subseteq CallsOf(seen.ever, job.params, Direction)
  BY <1>1 DEF HierarchyInv
<1> QED BY <1>4, <1>5 DEF HierarchyFaithful

-----------------------------------------------------------------------------
(* Locations.                                                               *)

\* A record's location is collected unless its file is excluded.
LEMMA LocateOne ==
    ASSUME NEW j, Shaped(j), Kept(j.found), NEW r
    PROVE  /\ IsCollected(CollectLocation(j, r), j, r)
           /\ CollectLocation(j, r).hit <=> j.hit \/ ~Excluded(j, r)
<1> DEFINE g == CollectLocation(j, r)
           cached == Cached(j.cached, Uri(r.path))
           new == Location(r, cached, 0)
<1>1. CASE Excluded(j, r)
  <2>1. g = j
    BY <1>1, Zenon DEF CollectLocation
  <2>2. {Place(x) : x \in {y \in {r} : ~Excluded(j, y)}} = {}
    BY <1>1
  <2> HIDE DEF g
  <2>3. IsCollected(j, j, r)
    BY <2>2, Zenon DEF IsCollected
  <2>4. g.hit <=> j.hit
    BY <2>1, Zenon
  <2> QED BY <1>1, <2>1, <2>3, <2>4, Zenon DEF g
<1>2. CASE ~Excluded(j, r)
  <2>1. {Place(x) : x \in {y \in {r} : ~Excluded(j, y)}} = {Place(r)}
    BY <1>2
  <2>2. CASE Place(r) \in Placed(j.found)
    <3>1. g = [j EXCEPT !.hit = TRUE]
      BY <1>2, <2>2, Zenon DEF CollectLocation
    <3> HIDE DEF g
    <3>2. Shaped(g) /\ g.excluded = j.excluded /\ g.found = j.found /\ g.hit = TRUE
      BY <3>1 DEF Shaped
    <3>3. Placed(j.found) = Placed(j.found) \cup {Place(r)}
      BY <2>2
    <3>4. IsCollected(g, j, r)
      BY <2>1, <3>2, <3>3 DEF IsCollected
    <3>5. g.hit
      BY <3>2, Zenon
    <3> QED BY <1>2, <3>4, <3>5, Zenon DEF g
  <2>3. CASE Place(r) \notin Placed(j.found)
    <3> DEFINE found == j.found \cup {new}
    <3>1. g = [j EXCEPT !.hit = TRUE, !.cached = cached, !.found = found]
      BY <1>2, <2>3, Zenon DEF CollectLocation
    <3>2. LocationShaped(new) /\ Place(new) = Place(r)
      BY DEF LocationShaped, Location, Place
    <3> HIDE DEF new, cached, g
    <3>3. \A l \in j.found : Place(l) # Place(r)
      BY <2>3, PlacedIs
    <3>4. IsFiniteSet(found)
      BY FS_AddElement DEF Kept
    <3>5. Kept(found)
      BY <3>2, <3>3, <3>4 DEF Kept
    <3>6. Placed(found) = Placed(j.found) \cup {Place(r)}
      BY <3>2, PlacedIs
    <3> HIDE DEF found
    <3>7. Shaped(g) /\ g.excluded = j.excluded /\ g.found = found /\ g.hit = TRUE
      BY <3>1 DEF Shaped
    <3>8. IsCollected(g, j, r)
      BY <2>1, <3>5, <3>6, <3>7 DEF IsCollected
    <3>9. g.hit
      BY <3>7, Zenon
    <3> QED BY <1>2, <3>8, <3>9, Zenon DEF g
  <2> QED BY <2>2, <2>3
<1> QED BY <1>1, <1>2

\* The locations of an answer.
LEMMA LocationCourse ==
    ASSUME NEW j, NEW R, NEW rows \in Seq(R)
    PROVE  \E b : IsCourse(b, "symbol", j, rows) /\ FoldLeft(CollectLocation, j, rows) = b[Len(rows)]
<1> DEFINE n == Len(rows)
           Body(h) == [s \in SUBSET DOMAIN rows |->
                          IF s = {} THEN j ELSE CollectLocation(h[s \ {Max(s)}], rows[Max(s)])]
           h == CHOOSE h : h = Body(h)
<1>1. n \in Nat /\ DOMAIN rows = 1 .. n
  OBVIOUS
<1>2. \A x, r : Gather("symbol", x, r) = CollectLocation(x, r)
  BY DEF Gather
<1>3. ASSUME NEW f PROVE IsFold(f, "symbol", j, rows, n) <=> f = Body(f)
  BY <1>1, <1>2, Zenon DEF IsFold
<1>4. \E f : f = Body(f)
  BY <1>1, <1>3, FoldExists
<1>5. h = Body(h)
  <2> HIDE DEF Body
  <2> QED BY <1>4, Zenon
<1>6. FoldLeft(CollectLocation, j, rows) = h[DOMAIN rows]
  BY Zenon DEF FoldLeft, MapThenFoldSet
<1> HIDE DEF h
<1>7. IsFold(h, "symbol", j, rows, Len(rows))
  BY <1>3, <1>5
<1> QED BY <1>6, <1>7, FoldCourse

\* What is collected from an answer: the places of all records but those of the file
\* that is excluded, and whether there are such.
LEMMA LocateAll ==
    ASSUME NEW j, Shaped(j), Kept(j.found), NEW R, NEW rows \in Seq(R)
    PROVE  LET g == FoldLeft(CollectLocation, j, rows)
           IN /\ Shaped(g) /\ Kept(g.found)
              /\ Placed(g.found) =
                    Placed(j.found) \cup {Place(r) : r \in {x \in ToSet(rows) : ~Excluded(j, x)}}
              /\ g.hit <=> j.hit \/ \E x \in ToSet(rows) : ~Excluded(j, x)
<1>1. PICK b : IsCourse(b, "symbol", j, rows) /\ FoldLeft(CollectLocation, j, rows) = b[Len(rows)]
  BY LocationCourse
<1> DEFINE Before(k) == {x \in {rows[i] : i \in 1 .. k} : ~Excluded(j, x)}
           Good(k) == /\ Shaped(b[k]) /\ b[k].excluded = j.excluded /\ Kept(b[k].found)
                      /\ Placed(b[k].found) = Placed(j.found) \cup {Place(r) : r \in Before(k)}
                      /\ b[k].hit <=> j.hit \/ \E x \in Before(k) : TRUE
           T == {k \in Nat : k <= Len(rows) => Good(k)}
<1>2. 0 \in T
  <2>1. b[0] = j
    BY <1>1, Zenon DEF IsCourse
  <2>2. Before(0) = {}
    OBVIOUS
  <2>3. Placed(j.found) = Placed(j.found) \cup {Place(r) : r \in Before(0)}
    BY <2>2
  <2>4. ~\E x \in Before(0) : TRUE
    BY <2>2
  <2> HIDE DEF Before
  <2>5. Good(0)
    BY <2>1, <2>3, <2>4, Zenon
  <2> QED BY <2>5
<1>3. ASSUME NEW k \in Nat, k \in T PROVE k + 1 \in T
  <2> SUFFICES ASSUME k + 1 <= Len(rows) PROVE Good(k + 1)
    OBVIOUS
  <2>1. Good(k) /\ k + 1 \in 1 .. Len(rows) /\ (k + 1) - 1 = k
    BY <1>3
  <2> DEFINE x == b[k]
             y == b[k + 1]
             r == rows[k + 1]
  <2>2. y = Gather("symbol", x, r)
    BY <1>1, <2>1 DEF IsCourse
  <2>3. y = CollectLocation(x, r)
    BY <2>2 DEF Gather
  <2>4. IsCollected(y, x, r) /\ (y.hit <=> x.hit \/ ~Excluded(x, r))
    <3>1. Shaped(x) /\ Kept(x.found)
      BY <2>1
    <3> HIDE DEF x, y, r
    <3>2. /\ IsCollected(CollectLocation(x, r), x, r)
          /\ CollectLocation(x, r).hit <=> x.hit \/ ~Excluded(x, r)
      BY <3>1, LocateOne
    <3> QED BY <2>3, <3>2, Zenon
  <2>5. \A z : Excluded(x, z) <=> Excluded(j, z)
    <3>1. x.excluded = j.excluded
      BY <2>1
    <3> HIDE DEF x
    <3> QED BY <3>1 DEF Excluded
  <2>6. Before(k + 1) = Before(k) \cup {z \in {r} : ~Excluded(j, z)}
    <3>1. 1 .. (k + 1) = (1 .. k) \cup {k + 1}
      OBVIOUS
    <3> QED BY <3>1
  <2>7. /\ Shaped(y) /\ y.excluded = x.excluded /\ Kept(y.found)
        /\ Placed(y.found) = Placed(x.found) \cup {Place(z) : z \in {v \in {r} : ~Excluded(x, v)}}
    <3> HIDE DEF x, y, r
    <3> QED BY <2>4 DEF IsCollected
  <2>8. (\E z \in Before(k + 1) : TRUE) <=> (\E z \in Before(k) : TRUE) \/ ~Excluded(j, r)
    BY <2>6
  <2> HIDE DEF Before
  <2>9. y.hit <=> j.hit \/ \E z \in Before(k + 1) : TRUE
    BY <2>1, <2>4, <2>5, <2>8, Zenon
  <2>10. Shaped(y) /\ y.excluded = j.excluded /\ Kept(y.found)
         /\ Placed(y.found) = Placed(j.found) \cup {Place(z) : z \in Before(k + 1)}
    BY <2>1, <2>5, <2>6, <2>7
  <2> QED BY <2>9, <2>10, Zenon
<1>4. Nat \subseteq T
  <2> HIDE DEF T
  <2> QED BY <1>2, <1>3, Induction
<1>5. Good(Len(rows))
  BY <1>4
<1>6. Before(Len(rows)) = {x \in ToSet(rows) : ~Excluded(j, x)}
  BY DEF ToSet
<1>7. (\E z \in Before(Len(rows)) : TRUE) <=> \E x \in ToSet(rows) : ~Excluded(j, x)
  BY <1>6
<1> HIDE DEF Before
<1>8. b[Len(rows)].hit <=> j.hit \/ \E x \in ToSet(rows) : ~Excluded(j, x)
  BY <1>5, <1>7, Zenon
<1>9. /\ Shaped(b[Len(rows)]) /\ Kept(b[Len(rows)].found)
      /\ Placed(b[Len(rows)].found) =
            Placed(j.found) \cup {Place(r) : r \in {x \in ToSet(rows) : ~Excluded(j, x)}}
  BY <1>5, <1>6
<1> QED BY <1>1, <1>8, <1>9, Zenon

\* What an answer without records adds: nothing.
LEMMA CollectNone ==
    ASSUME NEW j, Shaped(j), NEW op \in {"symbol", "highlight"}
    PROVE  Collect(op, j, <<>>).found = j.found
<1> DEFINE g == Gathered(op, j, <<>>)
<1>0. <<>> \in Seq({}) /\ Len(<<>>) = 0
  OBVIOUS
<1>1. g = j
  <2>1. PICK b : IsCourse(b, "symbol", j, <<>>) /\ FoldLeft(CollectLocation, j, <<>>) = b[Len(<<>>)]
    BY <1>0, LocationCourse
  <2>2. PICK a : IsCourse(a, "highlight", j, <<>>) /\ FoldLeft(CollectHighlight, j, <<>>) = a[Len(<<>>)]
    BY <1>0, HighlightCourse
  <2>3. b[0] = j /\ a[0] = j
    BY <2>1, <2>2, Zenon DEF IsCourse
  <2>4. FoldLeft(CollectLocation, j, <<>>) = j /\ FoldLeft(CollectHighlight, j, <<>>) = j
    BY <1>0, <2>1, <2>2, <2>3, Zenon
  <2> QED BY <2>4, Zenon DEF Gathered
<1>2. Collect(op, j, <<>>) = [j EXCEPT !.hit = g.hit, !.cached = g.cached, !.found = g.found]
  BY Zenon DEF Collect
<1> DEFINE c == Collect(op, j, <<>>)
<1> HIDE DEF g, c
<1>3. c.found = g.found
  BY <1>2 DEF Shaped, c
<1> QED BY <1>1, <1>3 DEF c

\* What the records of an answer leave as it is, and what they add.
LEMMA CollectPlaces ==
    ASSUME NEW j, Shaped(j), Kept(j.found), NEW R, NEW rows \in Seq(R), NEW op \in {"symbol", "highlight"}
    PROVE  LET c == Collect(op, j, rows)
           IN /\ Alike(c, j) /\ c.todo = j.todo /\ c.excluded = j.excluded /\ Kept(c.found)
              /\ Placed(c.found) =
                    Placed(j.found) \cup {Place(r) : r \in {x \in ToSet(rows) : ~Excluded(j, x)}}
              /\ op = "symbol" => (c.hit <=> j.hit \/ \E x \in ToSet(rows) : ~Excluded(j, x))
<1>1. CASE op = "highlight"
  BY <1>1, CollectHighlights
<1>2. CASE op = "symbol"
  <2> DEFINE g == FoldLeft(CollectLocation, j, rows)
             P == Placed(j.found) \cup {Place(r) : r \in {x \in ToSet(rows) : ~Excluded(j, x)}}
             Q == j.hit \/ \E x \in ToSet(rows) : ~Excluded(j, x)
             c == Collect("symbol", j, rows)
             hit == g.hit
  <2>1. c = [j EXCEPT !.hit = hit, !.cached = g.cached, !.found = g.found]
    BY Zenon DEF Collect, Gathered
  <2>2. Kept(g.found) /\ Placed(g.found) = P /\ (hit <=> Q)
    BY LocateAll
  <2> HIDE DEF g, P, c, Q, hit
  <2>3. Alike(c, j) /\ c.todo = j.todo /\ c.excluded = j.excluded /\ c.found = g.found /\ c.hit = hit
    BY <2>1 DEF Shaped, Alike
  <2>4. Kept(c.found) /\ Placed(c.found) = P
    BY <2>2, <2>3
  <2>5. c.hit <=> Q
    BY <2>2, <2>3, Zenon
  <2> QED BY <1>2, <2>3, <2>4, <2>5, Zenon DEF P, c, Q
<1> QED BY <1>1, <1>2

-----------------------------------------------------------------------------
(* The names of a file.                                                     *)

\* Below its root a path is what follows the root.
LEMMA RelativeBelow ==
    ASSUME NEW path, NEW base, path.abs = base.abs, NEW b \in Seq(STRING), NEW rest \in Seq(STRING),
           base.names = b, path.names = b \o rest
    PROVE  LexicallyRelative(path, base) = Relative(IF rest = <<>> THEN <<".">> ELSE rest)
<1> DEFINE p == b \o rest
           n == Len(b)
           lengths == 0 .. (IF Len(p) < Len(b) THEN Len(p) ELSE Len(b))
<1>1. p \in Seq(STRING)
  BY ConcatProperties
<1>2. /\ n \in Nat /\ Len(p) \in Nat /\ n <= Len(p) /\ SubSeq(b, 1, n) = SubSeq(p, 1, n)
      /\ SubSeq(p, n + 1, Len(p)) = rest
  OBVIOUS
<1>3. path.names = p
  OBVIOUS
<1> HIDE DEF p
<1>4. lengths = 0 .. n
  BY <1>2
<1>5. SharedPrefix(p, b) = n
  <2> DEFINE Longest(k) == /\ SubSeq(p, 1, k) = SubSeq(b, 1, k)
                           /\ \A m \in 0 .. n : m > k => SubSeq(p, 1, m) # SubSeq(b, 1, m)
  <2>1. SharedPrefix(p, b) = CHOOSE k \in 0 .. n : Longest(k)
    BY <1>4, Zenon DEF SharedPrefix
  <2>2. n \in 0 .. n /\ Longest(n)
    BY <1>2
  <2>3. \A k \in 0 .. n : Longest(k) => k = n
    BY <1>2
  <2> HIDE DEF Longest
  <2> QED BY <2>1, <2>2, <2>3
<1> DEFINE names == [i \in 1 .. Len(b) - n |-> ".."] \o rest
<1>6. names = rest
  BY <1>2
<1>7. LexicallyRelative(path, base) = IF rest = <<>> THEN Relative(<<".">>) ELSE Relative(rest)
  <2>1. SharedPrefix(path.names, base.names) = n
    BY <1>3, <1>5
  <2>2. [i \in 1 .. Len(base.names) - n |-> ".."] \o SubSeq(path.names, n + 1, Len(path.names)) = rest
    BY <1>2, <1>3, <1>6
  <2> HIDE DEF n
  <2> QED BY <2>1, <2>2, Zenon DEF LexicallyRelative
<1> QED BY <1>7

\* The elements of two sequences one after the other.
LEMMA InConcat ==
    ASSUME NEW T, NEW a \in Seq(T), NEW b \in Seq(T)
    PROVE  ToSet(a \o b) = ToSet(a) \cup ToSet(b)
<1>1. /\ a \o b \in Seq(T) /\ Len(a \o b) = Len(a) + Len(b)
      /\ \A i \in 1 .. Len(a) + Len(b) : (a \o b)[i] = IF i <= Len(a) THEN a[i] ELSE b[i - Len(a)]
  BY ConcatProperties
<1> DEFINE c == a \o b
           m == Len(a)
           n == Len(b)
<1>2. /\ m \in Nat /\ n \in Nat /\ DOMAIN a = 1 .. m /\ DOMAIN b = 1 .. n /\ DOMAIN c = 1 .. m + n
      /\ \A i \in 1 .. m + n : c[i] = IF i <= m THEN a[i] ELSE b[i - m]
  BY <1>1, LenProperties
<1> HIDE DEF c, m, n
<1>3. \A i \in DOMAIN a : i \in DOMAIN c /\ c[i] = a[i]
  BY <1>2
<1>4. \A i \in DOMAIN b : i + m \in DOMAIN c /\ c[i + m] = b[i]
  BY <1>2
<1>5. \A i \in DOMAIN c : i \in DOMAIN a \/ (i - m \in DOMAIN b /\ c[i] = b[i - m])
  BY <1>2
<1>6. \A x : x \in ToSet(c) <=> x \in ToSet(a) \/ x \in ToSet(b)
  BY <1>3, <1>4, <1>5 DEF ToSet
<1> QED BY <1>6 DEF c

\* The first name of a file is its absolute path; the others are relative.
LEMMA NamesAre ==
    ASSUME NEW path
    PROVE  /\ path \in ToSet(NamesOf(path))
           /\ Below(LexicallyRelative(path, root)) => LexicallyRelative(path, root) \in ToSet(NamesOf(path))
           /\ \A name \in ToSet(NamesOf(path)) : name = path \/ (~name.abs /\ name \in
                  {LexicallyRelative(path, root), LexicallyRelative(path, Cwd)})
           /\ \E T : NamesOf(path) \in Seq(T)
<1> DEFINE relative == LexicallyRelative(path, root)
           cwdRelative == LexicallyRelative(path, Cwd)
           a == IF Below(relative) THEN <<relative>> ELSE <<>>
           b == IF Below(cwdRelative) /\ (cwdRelative # relative \/ ~Below(relative)) THEN <<cwdRelative>> ELSE <<>>
           names == NamesOf(path)
           T == {path, relative, cwdRelative}
<1>1. names = <<path>> \o a \o b
  BY Zenon DEF NamesOf, DatabasePaths
<1>2. a \in {<<>>, <<relative>>} /\ (Below(relative) => a = <<relative>>) /\ (~Below(relative) => a = <<>>)
  OBVIOUS
<1>3. b \in {<<>>, <<cwdRelative>>} /\ (~Below(cwdRelative) => b = <<>>)
  OBVIOUS
<1>4. \A x : Below(x) => ~x.abs
  BY DEF Below
<1> HIDE DEF a, b, relative, cwdRelative, names
<1>5. <<>> \in Seq(T) /\ <<path>> \in Seq(T) /\ <<relative>> \in Seq(T) /\ <<cwdRelative>> \in Seq(T)
  OBVIOUS
<1>6. \A x : ToSet(<<x>>) = {x}
  BY DEF ToSet
<1>7. ToSet(<<>>) = {}
  BY DEF ToSet
<1>8. a \in Seq(T) /\ b \in Seq(T) /\ <<path>> \in Seq(T)
  BY <1>2, <1>3, <1>5
<1> HIDE DEF T
<1>9. <<path>> \o a \in Seq(T) /\ ToSet(<<path>> \o a) = ToSet(<<path>>) \cup ToSet(a)
  BY <1>8, InConcat, ConcatProperties
<1>10. names \in Seq(T) /\ ToSet(names) = ToSet(<<path>> \o a) \cup ToSet(b)
  <2> DEFINE front == <<path>> \o a
  <2>1. front \in Seq(T) /\ b \in Seq(T) /\ names = front \o b
    BY <1>1, <1>8, <1>9
  <2> HIDE DEF front
  <2>2. front \o b \in Seq(T) /\ ToSet(front \o b) = ToSet(front) \cup ToSet(b)
    BY <2>1, InConcat, ConcatProperties
  <2> QED BY <2>1, <2>2 DEF front
<1>11. ToSet(names) = {path} \cup ToSet(a) \cup ToSet(b)
  BY <1>6, <1>9, <1>10
<1>12. (Below(relative) => ToSet(a) = {relative}) /\ (~Below(relative) => ToSet(a) = {})
  BY <1>2, <1>6, <1>7
<1>13. ToSet(b) \subseteq {cwdRelative} /\ (~Below(cwdRelative) => ToSet(b) = {})
  BY <1>3, <1>6, <1>7
<1>14. path \in ToSet(names) /\ (Below(relative) => relative \in ToSet(names))
  BY <1>11, <1>12
<1>15. ASSUME NEW name \in ToSet(names)
       PROVE  name = path \/ (~name.abs /\ name \in {relative, cwdRelative})
  BY <1>4, <1>11, <1>12, <1>13
<1> QED BY <1>10, <1>14, <1>15 DEF names, relative, cwdRelative

\* The paths of records, stored or of an overlay.
RecordPaths == ToSet(Paths) \cup SourceFiles

\* They are absolute and normal, or relative.
LEMMA RecordPathsAre ==
    ASSUME NEW path \in RecordPaths
    PROVE  \/ path \in NormalPaths /\ path.abs = TRUE
           \/ /\ path = Relative(path.names) /\ path.names # <<>> /\ path.names \in Seq(STRING)
              /\ path.abs = FALSE /\ path.names[1] # ".."
<1>1. \A p \in NormalPaths : p.abs = TRUE
  BY DEF NormalPaths
<1>2. CASE path \in NormalPaths
  BY <1>1, <1>2
<1>3. CASE path \notin NormalPaths
  <2>1. path = Relative(path.names) /\ path.names # <<>> /\ path.names \in Seq(STRING \ {".."})
    BY <1>3, PathsAssumption DEF RecordPaths
  <2> DEFINE names == path.names
  <2>2. names # <<>> /\ names \in Seq(STRING \ {".."})
    BY <2>1
  <2> HIDE DEF names
  <2>3. names[1] # ".." /\ names \in Seq(STRING)
    BY <2>2
  <2>4. Relative(names).abs = FALSE
    BY DEF Relative
  <2>5. path.abs = FALSE
    BY <2>1, <2>4, Zenon DEF names
  <2> QED BY <2>1, <2>3, <2>5 DEF names
<1> QED BY <1>2, <1>3

\* A file is found under one of its names.
LEMMA InNames ==
    ASSUME NEW path \in RecordPaths, workspace \in {None} \cup NormalPaths
    PROVE  path \in ToSet(NamesOf(Uri(path)))
<1>1. root \in NormalPaths
  BY PathsAssumption DEF root
<1>2. root.abs = TRUE /\ root.names \in Seq(STRING)
  <2> DEFINE S == STRING \ {".", ".."}
  <2>1. \A p \in NormalPaths : p.abs = TRUE /\ p.names \in Seq(S)
    BY DEF NormalPaths
  <2>2. S \subseteq STRING
    OBVIOUS
  <2> HIDE DEF S
  <2>3. \A s \in Seq(S) : s \in Seq(STRING)
    BY <2>2, SeqMonotonic
  <2> QED BY <1>1, <2>1, <2>3
<1>3. CASE path.abs = TRUE
  <2>1. Uri(path) = path
    BY <1>3 DEF Uri, Resolve
  <2> QED BY <2>1, NamesAre
<1>4. CASE path.abs # TRUE
  <2> DEFINE b == root.names
             names == path.names
             rest == IF names = <<".">> THEN <<>> ELSE names
             uri == Uri(path)
  <2>1. path = Relative(names) /\ names # <<>> /\ names \in Seq(STRING) /\ path.abs = FALSE /\ names[1] # ".."
    BY <1>4, RecordPathsAre
  <2>2. uri = Absolute(b \o rest)
    BY <2>1, Zenon DEF Uri, Resolve
  <2>3. rest \in Seq(STRING) /\ (IF rest = <<>> THEN <<".">> ELSE rest) = names
    <3>1. CASE names = <<".">>
      BY <3>1
    <3>2. CASE names # <<".">>
      <4>1. rest = names
        BY <3>2
      <4>2. (IF rest = <<>> THEN <<".">> ELSE rest) = rest
        BY <2>1, <4>1, Zenon
      <4> QED BY <2>1, <4>1, <4>2, Zenon
    <3> QED BY <3>1, <3>2
  <2>4. b \in Seq(STRING)
    BY <1>2
  <2> HIDE DEF rest, names, uri
  <2>5. uri.abs = TRUE /\ uri.names = b \o rest
    BY <2>2 DEF Absolute
  <2>6. LexicallyRelative(uri, root) = Relative(names)
    BY <1>2, <2>3, <2>4, <2>5, RelativeBelow
  <2>7. Below(Relative(names))
    BY <2>1 DEF Below, Relative, NoPath
  <2> QED BY <2>1, <2>6, <2>7, NamesAre DEF uri
<1> QED BY <1>3, <1>4

-----------------------------------------------------------------------------
(* One statement for a cursor.                                              *)

\* What it asks the overlay and the database for.
LEMMA StatementOptions ==
    ASSUME NEW s, NEW c, c = s.cursor
    PROVE  LET o == Options(s)
               q == [o EXCEPT !.path = s.path]
           IN /\ o.symbol = c.symbol /\ o.record = s.filter /\ o.path = None
              /\ o.context = (IF c.local THEN c.context ELSE None)
              /\ o.kind = (IF s.op = "symbol" THEN c.kind ELSE None) /\ o.usr = None /\ o.local = c.local
              /\ q.after = None /\ q.limit = 0 /\ q.path = s.path
              /\ q.symbol = c.symbol /\ q.variant = c.variant /\ q.record = s.filter
              /\ q.context = (IF c.local THEN c.context ELSE None)
              /\ q.kind = (IF s.op = "symbol" THEN c.kind ELSE None) /\ q.usr = None /\ q.local = c.local
<1> DEFINE context == IF c.local THEN c.context ELSE None
           kind == IF s.op = "symbol" THEN c.kind ELSE None
           local == c.local
           symbol == c.symbol
           variant == c.variant
           filter == s.filter
           path == s.path
           o == Options(s)
<1>1. o = [NoFilters EXCEPT !.symbol = symbol, !.variant = variant, !.record = filter,
                            !.context = context, !.kind = kind, !.local = local]
  BY DEF Options
<1> HIDE DEF context, kind, local, symbol, variant, filter, path
<1>2. o = [symbol |-> symbol, path |-> None, variant |-> variant, context |-> context,
           record |-> filter, kind |-> kind, usr |-> None, local |-> local, after |-> None, limit |-> 0]
  BY <1>1 DEF NoFilters
<1> HIDE DEF o
<1>3. /\ o.symbol = symbol /\ o.record = filter /\ o.path = None
      /\ o.context = context /\ o.kind = kind /\ o.usr = None /\ o.local = local
  BY <1>2
<1> DEFINE q == [o EXCEPT !.path = path]
<1>4. q = [symbol |-> symbol, path |-> path, variant |-> variant, context |-> context,
           record |-> filter, kind |-> kind, usr |-> None, local |-> local, after |-> None, limit |-> 0]
  BY <1>2
<1> HIDE DEF q
<1>5. /\ q.after = None /\ q.limit = 0 /\ q.path = path
      /\ q.symbol = symbol /\ q.variant = variant /\ q.record = filter
      /\ q.context = context /\ q.kind = kind /\ q.usr = None /\ q.local = local
  BY <1>4
<1> QED BY <1>3, <1>5 DEF o, q, context, kind, local, symbol, variant, filter, path

\* What is asked for under the name of its file is in the file of the cursor.
LEMMA CursorsFile ==
    ASSUME TypeOK, LookupInv, job.method \in {"definition", "references", "highlight"},
           NEW c \in CursorRecords
    PROVE  /\ c \in AnyRecord /\ c.path \in RecordPaths
           /\ HasOverlay(c.path) => c.path = job.params.path
           /\ Plain(c) /\ Named(c) /\ OwnNames(FileOf(c)) /\ FileOf(c) = job.params.path =>
                 Uri(c.path) = Uri(job.params.path)
<1>1. c \in AnyRecord /\ c.path \in ToSet(NamesOf(job.params.path))
  BY DEF CursorRecords
<1>2. c.path \in RecordPaths
  <2>1. PICK path \in RecordPaths : c \in RecordsOf(path)
    BY <1>1 DEF AnyRecord, RecordPaths
  <2> QED BY <2>1, RecordNumbers
<1>3. c.path \in SourceFiles => c.path = job.params.path
  <2>1. \A p \in NormalPaths : p.abs = TRUE
    BY DEF NormalPaths
  <2>2. c.path \in SourceFiles => c.path.abs = TRUE
    BY <2>1, PathsAssumption
  <2> QED BY <1>1, <2>2, NamesAre
<1>4. HasOverlay(c.path) => c.path \in SourceFiles
  BY DEF HasOverlay, TypeOK
<1>5. ASSUME Plain(c), Named(c), OwnNames(FileOf(c)), FileOf(c) = job.params.path
      PROVE  Uri(c.path) = Uri(job.params.path)
  <2>1. CASE c.path \in SourceFiles
    BY <1>3, <2>1
  <2>2. CASE c.path \in ToSet(Paths)
    <3>1. <<"path", c.path>> \notin Globs
      BY <1>1, <1>5 DEF Plain
    <3>2. TextMatches("path", c.path, c.path)
      BY <3>1 DEF TextMatches
    <3> QED BY <1>1, <1>5, <2>2, <3>2 DEF OwnNames
  <2> QED BY <1>2, <2>1, <2>2 DEF RecordPaths
<1> QED BY <1>1, <1>2, <1>3, <1>4, <1>5

\* A statement of a lookup for one of some cursors.
Asks(s, cursors) ==
    /\ s.op = (IF job.method = "highlight" THEN "highlight" ELSE "symbol")
    /\ s.cursor \in cursors /\ s.first \in BOOLEAN
    /\ s.filter \in Filters \/ (s.filter = "declaration" /\ job.method = "definition")
    /\ IF Named(s.cursor) THEN s.path \in ToSet(NamesOf(FileOf(s.cursor))) ELSE s.path = None

\* The overlay's records of it are the ones asked for.
LEMMA OverlayMatches ==
    ASSUME TypeOK, LookupInv, job.method \in {"definition", "references", "highlight"},
           NEW s, Asks(s, CursorRecords), NEW r \in OverlayRecords(s.cursor.path, s.cursor.variant)
    PROVE  MatchesOptions(Options(s), r) <=> Matches(s.cursor, r, s.filter)
<1> DEFINE c == s.cursor
           o == Options(s)
           filter == s.filter
<1>0. c \in CursorRecords /\ (s.op = "symbol" <=> job.method # "highlight")
  BY DEF Asks
<1>1. /\ c \in AnyRecord /\ c.variant \in Nat /\ c.context \in Nat /\ c.symbol \in Nat /\ c.kind \in Nat
      /\ c.local \in BOOLEAN
  BY <1>0, CursorsFile, AnyNumbers
<1>2. /\ r.path = c.path /\ r.variant = c.variant /\ HasOverlay(c.path) /\ r \in AnyRecord
  BY <1>1, OverlaysRecords
<1>3. r.local \in BOOLEAN
  BY <1>2, AnyNumbers
<1>4. Uri(r.path) = Uri(c.path) /\ Uri(r.path) = Uri(job.params.path)
  BY <1>0, <1>2, CursorsFile
<1>5. /\ o.symbol = c.symbol /\ o.record = filter /\ o.path = None
      /\ o.context = (IF c.local THEN c.context ELSE None)
      /\ o.kind = (IF s.op = "symbol" THEN c.kind ELSE None) /\ o.usr = None /\ o.local = c.local
  BY StatementOptions
<1>6. None \notin Nat /\ None \notin BOOLEAN
  BY NoneAssumption
<1> HIDE DEF o, c, filter
<1>7. Equals(o.symbol, r.symbol) <=> r.symbol = c.symbol
  BY <1>1, <1>5, <1>6 DEF Equals
<1>8. Equals(o.context, r.context) <=> (c.local => r.context = c.context)
  <2>1. CASE c.local
    <3>1. o.context = c.context
      BY <1>5, <2>1
    <3> QED BY <1>1, <1>6, <2>1, <3>1 DEF Equals
  <2>2. CASE ~c.local
    <3>1. o.context = None
      BY <1>5, <2>2
    <3> QED BY <2>2, <3>1 DEF Equals
  <2> QED BY <2>1, <2>2
<1>9. Equals(o.local, r.local) <=> r.local = c.local
  <2>1. o.local = c.local /\ o.local # None
    BY <1>1, <1>5, <1>6
  <2> QED BY <2>1, Zenon DEF Equals
<1>10. Equals(o.kind, r.kind) <=> (job.method # "highlight" => r.kind = c.kind)
  <2>1. CASE s.op = "symbol"
    <3>1. o.kind = c.kind
      BY <1>5, <2>1
    <3> QED BY <1>0, <1>1, <1>6, <2>1, <3>1 DEF Equals
  <2>2. CASE s.op # "symbol"
    <3>1. o.kind = None
      BY <1>5, <2>2
    <3> QED BY <1>0, <2>2, <3>1 DEF Equals
  <2> QED BY <2>1, <2>2
<1>11. Equals(o.path, r.path) /\ Equals(o.usr, r.usr)
  BY <1>5 DEF Equals
<1>12. Filtered(o.record, r) <=> Filtered(filter, r)
  BY <1>5
<1> DEFINE Same == /\ r.symbol = c.symbol /\ r.local = c.local /\ (c.local => r.context = c.context)
                   /\ (job.method # "highlight" => r.kind = c.kind) /\ Filtered(filter, r)
<1>13. MatchesOptions(o, r) <=> Same
  BY <1>7, <1>8, <1>9, <1>10, <1>11, <1>12, Zenon DEF MatchesOptions
<1>14. Matches(c, r, filter) <=> Same
  BY <1>2, <1>4, Zenon DEF Matches
<1> QED BY <1>13, <1>14 DEF o, c, filter

\* What the overlay shows first.
LEMMA OverlayRows ==
    ASSUME TypeOK, LookupInv, job.method \in {"definition", "references", "highlight"},
           NEW s, Asks(s, CursorRecords)
    PROVE  LET c == s.cursor
               above == IF HasOverlay(c.path) THEN OverlayQuery(c.path, c.variant, Options(s)) ELSE <<>>
           IN above \in Seq(AnyRecord) /\ ToSet(above) = Above(c, s.filter)
<1> DEFINE c == s.cursor
           o == Options(s)
           query == OverlayQuery(c.path, c.variant, o)
           above == IF HasOverlay(c.path) THEN query ELSE <<>>
           all == OverlayRecords(c.path, c.variant)
           rows == {r \in all : MatchesOptions(o, r)}
<1>1. c \in CursorRecords
  BY DEF Asks
<1>2. c.variant \in Nat
  BY <1>1, CursorsFile, AnyNumbers
<1>3. all \subseteq AnyRecord /\ (~HasOverlay(c.path) => all = {})
  <2>1. all \subseteq AnyRecord
    BY <1>2, OverlaysRecords
  <2>2. ~HasOverlay(c.path) => all = {}
    BY Zenon DEF OverlayRecords
  <2> QED BY <2>1, <2>2
<1>4. rows = Above(c, s.filter)
  BY OverlayMatches DEF Above
<1>5. Lists(query, rows)
  BY <1>2, OverlayAnswers
<1>6. rows \subseteq AnyRecord /\ (~HasOverlay(c.path) => rows = {})
  BY <1>3
<1> HIDE DEF rows, query
<1>7. query \in Seq(rows) /\ ToSet(query) = rows
  BY <1>5, ListedSet DEF Lists
<1>8. query \in Seq(AnyRecord)
  BY <1>6, <1>7
<1>9. <<>> \in Seq(AnyRecord) /\ ToSet(<<>>) = {}
  BY DEF ToSet
<1>10. above \in Seq(AnyRecord) /\ ToSet(above) = rows
  BY <1>6, <1>7, <1>8, <1>9
<1> QED BY <1>4, <1>10 DEF query

\* Whether one field of a record fits.
LEMMA TextFits ==
    ASSUME NEW column, NEW pattern, NEW name
    PROVE  /\ <<column, pattern>> \notin Globs /\ pattern = name => TextMatches(column, pattern, name)
           /\ <<column, pattern>> \notin Globs /\ pattern # None /\ TextMatches(column, pattern, name) => pattern = name
           /\ TextMatches(column, None, name)
BY DEF TextMatches

\* What the database has of it.
LEMMA StoredRows ==
    ASSUME TypeOK, NEW s
    PROVE  LET q == [Options(s) EXCEPT !.path = s.path]
               rows == Query(edition, q).rows
           IN rows \in Seq(AnyRecord) /\ ToSet(rows) = {r \in Records : MatchesQuery(q, r)}
<1> DEFINE q == [Options(s) EXCEPT !.path = s.path]
           rows == Query(edition, q).rows
           found == {r \in Records : MatchesQuery(q, r)}
<1>1. q.after = None /\ q.limit = 0
  BY StatementOptions
<1> HIDE DEF q
<1>2. Lists(rows, found)
  BY <1>1, DatabaseAnswers
<1>3. found \subseteq AnyRecord
  BY StoredRecords
<1> HIDE DEF found, rows
<1>4. rows \in Seq(found) /\ ToSet(rows) = found
  BY <1>2, ListedSet DEF Lists
<1>5. rows \in Seq(AnyRecord)
  BY <1>3, <1>4
<1> QED BY <1>4, <1>5 DEF rows, found, q

\* What is stored and asked for under a plain name is found.
LEMMA PlainFinds ==
    ASSUME TypeOK, LookupInv, job.method \in {"definition", "references", "highlight"},
           NEW s, Asks(s, CursorRecords), Plain(s.cursor), s.cursor.variant # 0,
           NEW r \in Records, Matches(s.cursor, r, s.filter), s.path \in {None, r.path}
    PROVE  MatchesQuery([Options(s) EXCEPT !.path = s.path], r)
<1> DEFINE c == s.cursor
           q == [Options(s) EXCEPT !.path = s.path]
           filter == s.filter
           path == s.path
<1>1. /\ q.path = path
      /\ q.symbol = c.symbol /\ q.variant = c.variant /\ q.record = filter
      /\ q.context = (IF c.local THEN c.context ELSE None)
      /\ q.kind = (IF s.op = "symbol" THEN c.kind ELSE None) /\ q.usr = None /\ q.local = c.local
  BY StatementOptions
<1>2. /\ <<"symbol", c.symbol>> \notin Globs /\ <<"variant", c.variant>> \notin Globs
      /\ path = None \/ <<"path", path>> \notin Globs
  BY DEF Plain, Asks
<1>3. s.op = "symbol" <=> job.method # "highlight"
  BY DEF Asks
<1>4. /\ r.symbol = c.symbol /\ r.variant = c.variant /\ r.local = c.local
      /\ c.local => r.context = c.context
      /\ job.method # "highlight" => r.kind = c.kind
      /\ Filtered(filter, r)
  BY DEF Matches
<1>5. path \in {None, r.path}
  OBVIOUS
<1> HIDE DEF c, q, filter, path
<1>6. TextMatches("symbol", q.symbol, r.symbol) /\ TextMatches("variant", q.variant, r.variant)
  BY <1>1, <1>2, <1>4, TextFits
<1>7. TextMatches("path", q.path, r.path)
  BY <1>1, <1>2, <1>5, TextFits
<1>8. Equals(q.context, r.context)
  BY <1>1, <1>4 DEF Equals
<1>9. Equals(q.kind, r.kind)
  BY <1>1, <1>3, <1>4 DEF Equals
<1>10. Equals(q.local, r.local) /\ Equals(q.usr, r.usr)
  BY <1>1, <1>4 DEF Equals
<1>11. Filtered(q.record, r)
  BY <1>1, <1>4
<1> QED BY <1>6, <1>7, <1>8, <1>9, <1>10, <1>11 DEF MatchesQuery, q

\* What is found under an exact name is what is asked for.
LEMMA ExactFinds ==
    ASSUME TypeOK, LookupInv, job.method \in {"definition", "references", "highlight"},
           NEW s, Asks(s, CursorRecords), Exact(s.cursor),
           NEW r \in Records, MatchesQuery([Options(s) EXCEPT !.path = s.path], r)
    PROVE  Matches(s.cursor, r, s.filter)
<1> DEFINE c == s.cursor
           q == [Options(s) EXCEPT !.path = s.path]
           filter == s.filter
<1>0. c \in CursorRecords /\ (s.op = "symbol" <=> job.method # "highlight")
  BY DEF Asks
<1>1. /\ c \in AnyRecord /\ c.variant \in Nat /\ c.context \in Nat /\ c.symbol \in Nat /\ c.kind \in Nat
      /\ c.local \in BOOLEAN
  BY <1>0, CursorsFile, AnyNumbers
<1>2. /\ q.path = s.path
      /\ q.symbol = c.symbol /\ q.variant = c.variant /\ q.record = filter
      /\ q.context = (IF c.local THEN c.context ELSE None)
      /\ q.kind = (IF s.op = "symbol" THEN c.kind ELSE None) /\ q.usr = None /\ q.local = c.local
  BY StatementOptions
<1>3. <<"symbol", c.symbol>> \notin Globs /\ <<"variant", c.variant>> \notin Globs
  BY DEF Exact, Plain
<1>4. r.path \in ToSet(Paths)
  BY StoredRecords
<1> HIDE DEF q
<1>5. /\ TextMatches("symbol", q.symbol, r.symbol) /\ TextMatches("path", q.path, r.path)
      /\ TextMatches("variant", q.variant, r.variant)
      /\ Equals(q.context, r.context) /\ Filtered(q.record, r)
      /\ Equals(q.kind, r.kind) /\ Equals(q.local, r.local)
  BY DEF MatchesQuery, q
<1>6. None \notin Nat /\ None \notin BOOLEAN
  BY NoneAssumption
<1>7. Named(c) => Uri(r.path) = Uri(FileOf(c))
  BY <1>2, <1>4, <1>5 DEF Exact, OwnNames, Asks
<1>8. job.method = "highlight" => Uri(r.path) = Uri(job.params.path)
  BY <1>7 DEF Named, FileOf
<1>9. c.local => Uri(r.path) = Uri(c.path)
  <2>1. CASE job.method = "highlight"
    <3>1. Named(c) /\ FileOf(c) = job.params.path
      BY <2>1 DEF Named, FileOf
    <3>2. Uri(c.path) = Uri(job.params.path)
      BY <1>0, <3>1, CursorsFile DEF Exact
    <3> QED BY <1>8, <2>1, <3>2
  <2>2. CASE job.method # "highlight"
    <3>1. Uri(Uri(c.path)) = Uri(c.path)
      BY DEF Uri, Resolve, Absolute
    <3>2. FileOf(c) = Uri(c.path) /\ (c.local => Named(c))
      BY <2>2 DEF FileOf, Named
    <3> QED BY <1>7, <3>1, <3>2
  <2> QED BY <2>1, <2>2
<1> HIDE DEF c, filter
<1>10. r.symbol = c.symbol /\ r.variant = c.variant
  BY <1>1, <1>2, <1>3, <1>5, <1>6, TextFits
<1>11. c.local => r.context = c.context
  BY <1>1, <1>2, <1>5, <1>6 DEF Equals
<1>12. job.method # "highlight" => r.kind = c.kind
  BY <1>0, <1>1, <1>2, <1>5, <1>6 DEF Equals
<1>13. r.local = c.local
  <2>1. q.local = c.local /\ q.local # None
    BY <1>1, <1>2, <1>6
  <2> QED BY <1>5, <2>1, Zenon DEF Equals
<1>14. Filtered(filter, r)
  BY <1>2, <1>5
<1> QED BY <1>8, <1>9, <1>10, <1>11, <1>12, <1>13, <1>14 DEF Matches, c, filter

\* After the overlay has been asked, its records are in the answer, and its file is
\* passed over in the database only if there are any.
LEMMA AskedAbove ==
    ASSUME TypeOK, LookupInv, job.method \in {"definition", "references", "highlight"},
           Shaped(job), Kept(job.found), NEW s, Asks(s, CursorRecords)
    PROVE  LET above == Above(s.cursor, s.filter)
               c == AfterOverlay(s)
           IN /\ Alike(c, job) /\ c.todo = Tail(job.todo) /\ Kept(c.found)
              /\ Placed(c.found) = Placed(job.found) \cup {Place(r) : r \in above}
              /\ c.excluded \in {None, Uri(s.cursor.path)} /\ (c.excluded # None => above # {})
              /\ s.op = "symbol" => (c.hit <=> above # {} \/ (s.filter # "definition" /\ job.hit))
<1> DEFINE hit == IF s.filter = "definition" THEN FALSE ELSE job.hit
           todo == Tail(job.todo)
           reset == [job EXCEPT !.todo = todo, !.excluded = None, !.hit = hit]
           above == IF HasOverlay(s.cursor.path) THEN OverlayQuery(s.cursor.path, s.cursor.variant, Options(s))
                    ELSE <<>>
           op == s.op
           collected == Collect(op, reset, above)
           fresh == IF s.op = "symbol" THEN above # <<>>
                    ELSE Cardinality(collected.found) # Cardinality(job.found)
           excluded == IF fresh THEN Uri(s.cursor.path) ELSE None
           c == AfterOverlay(s)
           shown == Above(s.cursor, s.filter)
<1>0. op \in {"symbol", "highlight"}
  BY DEF Asks
<1>1. c = [collected EXCEPT !.excluded = excluded]
  BY Zenon DEF AfterOverlay
<1>2. above \in Seq(AnyRecord) /\ ToSet(above) = shown
  BY OverlayRows
<1>3. hit <=> s.filter # "definition" /\ job.hit
  OBVIOUS
<1> HIDE DEF above, hit
<1>4. /\ Alike(reset, job) /\ reset.todo = todo /\ reset.found = job.found /\ reset.excluded = None
      /\ reset.hit = hit
  <2> HIDE DEF todo
  <2> DEFINE first == [job EXCEPT !.todo = todo]
             second == [first EXCEPT !.excluded = None]
  <2>1. Alike(first, job) /\ first.todo = todo /\ first.found = job.found
    BY DEF Shaped, Alike
  <2>2. reset = [second EXCEPT !.hit = hit]
    OBVIOUS
  <2> HIDE DEF first
  <2>3. Alike(second, job) /\ second.todo = todo /\ second.found = job.found /\ second.excluded = None
    BY <2>1 DEF Shaped, Alike
  <2> HIDE DEF second, reset
  <2> QED BY <2>2, <2>3 DEF Shaped, Alike
<1> HIDE DEF reset, todo, op, shown
<1>5. \A x : ~Excluded(reset, x)
  BY <1>4 DEF Excluded
<1>6. /\ Alike(collected, reset) /\ collected.todo = reset.todo /\ Kept(collected.found)
      /\ Placed(collected.found) =
            Placed(reset.found) \cup {Place(r) : r \in {x \in ToSet(above) : ~Excluded(reset, x)}}
      /\ op = "symbol" => (collected.hit <=> reset.hit \/ \E x \in ToSet(above) : ~Excluded(reset, x))
  <2>1. Shaped(reset) /\ Kept(reset.found)
    BY <1>4 DEF Alike
  <2> HIDE DEF collected
  <2> QED BY <1>0, <1>2, <2>1, CollectPlaces DEF collected
<1>7. Placed(collected.found) = Placed(job.found) \cup {Place(r) : r \in shown}
  BY <1>2, <1>4, <1>5, <1>6
<1>8. op = "symbol" => (collected.hit <=> hit \/ shown # {})
  <2>1. (\E x \in ToSet(above) : ~Excluded(reset, x)) <=> shown # {}
    BY <1>2, <1>5
  <2> HIDE DEF collected
  <2>2. op = "symbol" => (collected.hit <=> reset.hit \/ shown # {})
    BY <1>6, <2>1, Zenon
  <2> QED BY <1>4, <2>2, Zenon
<1>9. fresh => shown # {}
  <2>1. CASE shown = {}
    <3>1. above = <<>>
      <4>1. above # <<>> => above[1] \in ToSet(above)
        <5>1. above # <<>> => Len(above) \in Nat \ {0} /\ DOMAIN above = 1 .. Len(above)
          BY <1>2, EmptySeq, LenProperties
        <5> QED BY <5>1 DEF ToSet
      <4> QED BY <1>2, <2>1, <4>1
    <3>2. collected.found = job.found
      <4>1. Shaped(reset)
        BY <1>4 DEF Alike
      <4>2. Collect(op, reset, <<>>).found = reset.found
        BY <1>0, <4>1, CollectNone
      <4> HIDE DEF collected
      <4> QED BY <1>4, <3>1, <4>2 DEF collected
    <3> QED BY <3>1, <3>2
  <2> QED BY <2>1
<1> HIDE DEF collected, fresh, excluded
<1>10. /\ Alike(c, job) /\ c.todo = todo /\ c.found = collected.found /\ c.excluded = excluded
       /\ c.hit = collected.hit
  BY <1>1, <1>4, <1>6 DEF Alike, Shaped
<1>11. excluded \in {None, Uri(s.cursor.path)} /\ (excluded # None => shown # {})
  BY <1>9 DEF excluded
<1> HIDE DEF c
<1>12. op = "symbol" => (c.hit <=> shown # {} \/ (s.filter # "definition" /\ job.hit))
  BY <1>3, <1>8, <1>10, Zenon
<1>13. Kept(c.found) /\ Placed(c.found) = Placed(job.found) \cup {Place(r) : r \in shown}
  BY <1>6, <1>7, <1>10
<1> QED BY <1>10, <1>11, <1>12, <1>13 DEF c, shown, op, todo

\* The records a statement adds to the answer.
Fetched(s, excluded) ==
    {r \in Records : /\ MatchesQuery([Options(s) EXCEPT !.path = s.path], r)
                     /\ excluded = None \/ Uri(r.path) # excluded}

\* A statement done.
LEMMA StatementDone ==
    ASSUME TypeOK, LookupInv, job.method \in {"definition", "references", "highlight"},
           Shaped(job), Kept(job.found), QuerySymbol, NEW s, s = Head(job.todo), Asks(s, CursorRecords)
    PROVE  LET above == Above(s.cursor, s.filter)
           IN /\ Alike(job', job) /\ job'.todo = Tail(job.todo) /\ Kept(job'.found)
              /\ Placed(job'.found) = Placed(job.found) \cup {Place(r) : r \in IF s.first THEN above ELSE {}}
                                         \cup {Place(r) : r \in Fetched(s, job'.excluded)}
              /\ s.first => job'.excluded \in {None, Uri(s.cursor.path)} /\ (job'.excluded # None => above # {})
              /\ ~s.first => job'.excluded = job.excluded
              /\ s.op = "symbol" /\ s.filter = "definition" =>
                    (job'.hit => IF s.first THEN above # {} \/ Fetched(s, job'.excluded) # {}
                                 ELSE job.hit \/ Fetched(s, job'.excluded) # {})
<1> DEFINE todo == Tail(job.todo)
           next == [job EXCEPT !.todo = todo]
           before == IF s.first THEN AfterOverlay(s) ELSE next
           rows == Query(edition, [Options(s) EXCEPT !.path = s.path]).rows
           op == s.op
           c == Collect(op, before, rows)
           above == Above(s.cursor, s.filter)
           fetched == Fetched(s, before.excluded)
           new == IF s.first THEN above ELSE {}
<1>0. op \in {"symbol", "highlight"}
  BY DEF Asks
<1>1. job' = c
  BY Zenon DEF QuerySymbol
<1>2. rows \in Seq(AnyRecord) /\ ToSet(rows) = {r \in Records : MatchesQuery([Options(s) EXCEPT !.path = s.path], r)}
  BY StoredRows
<1>3. Alike(next, job) /\ next.todo = todo /\ next.found = job.found /\ next.excluded = job.excluded
      /\ next.hit = job.hit
  <2> HIDE DEF todo
  <2> QED BY DEF Shaped, Alike
<1> HIDE DEF next
<1>4. /\ Alike(before, job) /\ before.todo = todo /\ Kept(before.found)
      /\ Placed(before.found) = Placed(job.found) \cup {Place(r) : r \in new}
      /\ s.first => before.excluded \in {None, Uri(s.cursor.path)} /\ (before.excluded # None => above # {})
      /\ ~s.first => before.excluded = job.excluded
  <2>1. CASE s.first
    <3>1. before = AfterOverlay(s) /\ new = above
      BY <2>1
    <3> HIDE DEF before, above, new
    <3> QED BY <2>1, <3>1, AskedAbove DEF above
  <2>2. CASE ~s.first
    <3>1. before = next /\ new = {}
      BY <2>2
    <3> HIDE DEF before, new
    <3> QED BY <1>3, <2>2, <3>1
  <2> QED BY <2>1, <2>2
<1>5. op = "symbol" /\ s.filter = "definition" => (before.hit => IF s.first THEN above # {} ELSE job.hit)
  <2>1. CASE s.first
    <3>1. before = AfterOverlay(s)
      BY <2>1
    <3> HIDE DEF before, above
    <3>2. s.op = "symbol" => (AfterOverlay(s).hit <=> above # {} \/ (s.filter # "definition" /\ job.hit))
      BY AskedAbove DEF above
    <3> QED BY <2>1, <3>1, <3>2, Zenon
  <2>2. CASE ~s.first
    <3>1. before = next
      BY <2>2
    <3> HIDE DEF before, above
    <3> QED BY <1>3, <2>2, <3>1
  <2> QED BY <2>1, <2>2
<1> HIDE DEF before, rows, op, above, todo, new
<1>6. /\ Alike(c, before) /\ c.todo = before.todo /\ c.excluded = before.excluded /\ Kept(c.found)
      /\ Placed(c.found) = Placed(before.found) \cup {Place(r) : r \in {x \in ToSet(rows) : ~Excluded(before, x)}}
      /\ op = "symbol" => (c.hit <=> before.hit \/ \E x \in ToSet(rows) : ~Excluded(before, x))
  <2>1. Shaped(before)
    BY <1>4 DEF Alike
  <2> HIDE DEF c
  <2> QED BY <1>0, <1>2, <1>4, <2>1, CollectPlaces DEF c
<1>7. {x \in ToSet(rows) : ~Excluded(before, x)} = fetched
  BY <1>2 DEF Fetched, Excluded
<1> HIDE DEF fetched, c
<1>8. Placed(c.found) = Placed(job.found) \cup {Place(r) : r \in new} \cup {Place(r) : r \in fetched}
  BY <1>4, <1>6, <1>7
<1>9. op = "symbol" => (c.hit <=> before.hit \/ fetched # {})
  BY <1>6, <1>7, Zenon
<1>10. Alike(c, job) /\ c.todo = todo /\ c.excluded = before.excluded /\ Kept(c.found)
  BY <1>4, <1>6 DEF Alike
<1>11. op = "symbol" /\ s.filter = "definition" =>
          (c.hit => IF s.first THEN above # {} \/ fetched # {} ELSE job.hit \/ fetched # {})
  <2>1. CASE s.first
    BY <1>5, <1>9, <2>1, Zenon
  <2>2. CASE ~s.first
    BY <1>5, <1>9, <2>2, Zenon
  <2> QED BY <2>1, <2>2
<1>12. fetched = Fetched(s, c.excluded)
  BY <1>10 DEF fetched
<1>13. s.first => c.excluded \in {None, Uri(s.cursor.path)} /\ (c.excluded # None => above # {})
  BY <1>4, <1>10
<1>14. ~s.first => c.excluded = job.excluded
  BY <1>4, <1>10
<1> QED BY <1>1, <1>8, <1>10, <1>11, <1>12, <1>13, <1>14, Zenon DEF above, todo, op, new

-----------------------------------------------------------------------------
(* The order of what there is to do.                                        *)

\* The first statement for a cursor, and what may come after a statement.
Starts(e) == e.op # "fallback" /\ e.first

\* A statement goes on with its cursor, or begins anew; a fallback ends a definition.
Follows(a, b) ==
    IF b.op = "fallback" THEN a.op = "symbol" /\ a.filter = "definition" /\ a.cursor = b.cursor
    ELSE b.first \/ (a.op = b.op /\ a.cursor = b.cursor /\ a.filter = b.filter)

\* Each statement follows the one before it.
Runs(q) == \A i \in 1 .. Len(q) : i + 1 <= Len(q) => Follows(q[i], q[i + 1])

\* A statement is for one of the cursors.
Fits(e, cursors) ==
    IF e.op = "fallback" THEN e.cursor \in cursors /\ job.method = "definition" ELSE Asks(e, cursors)

\* What is left of a plan, ...
Orderly(q, cursors) == q \in Seq(ToSet(q)) /\ (\A e \in ToSet(q) : Fits(e, cursors)) /\ Runs(q)

\* ... and a plan of which nothing is done.
Plan(q, cursors) == Orderly(q, cursors) /\ (q # <<>> => Starts(q[1]))

\* Two parts of a plan make one.
LEMMA Joined ==
    ASSUME NEW cursors, NEW a, Orderly(a, cursors), NEW b, Orderly(b, cursors),
           a # <<>> /\ b # <<>> => Follows(a[Len(a)], b[1])
    PROVE  /\ Orderly(a \o b, cursors) /\ ToSet(a \o b) = ToSet(a) \cup ToSet(b)
           /\ a # <<>> => a \o b # <<>> /\ (a \o b)[1] = a[1]
           /\ a = <<>> => a \o b = b
<1> DEFINE T == ToSet(a) \cup ToSet(b)
           c == a \o b
           m == Len(a)
           n == Len(b)
<1>1. a \in Seq(T) /\ b \in Seq(T)
  <2>1. a \in Seq(ToSet(a)) /\ b \in Seq(ToSet(b))
    BY DEF Orderly
  <2> DEFINE A == ToSet(a)
             B == ToSet(b)
  <2> HIDE DEF A, B
  <2>2. a \in Seq(A \cup B) /\ b \in Seq(A \cup B)
    BY <2>1, SeqMonotonic DEF A, B
  <2> QED BY <2>2 DEF A, B
<1> HIDE DEF T
<1>2. c \in Seq(T) /\ ToSet(c) = ToSet(a) \cup ToSet(b)
  BY <1>1, InConcat, ConcatProperties
<1>3. /\ m \in Nat /\ n \in Nat /\ Len(c) = m + n
      /\ \A i \in 1 .. m + n : c[i] = IF i <= m THEN a[i] ELSE b[i - m]
      /\ (a # <<>> <=> m # 0) /\ (b # <<>> <=> n # 0)
  BY <1>1, ConcatProperties
<1>4. a = <<>> => c = b
  BY <1>1, ConcatEmptySeq
<1> HIDE DEF c
<1>5. Runs(c)
  <2> SUFFICES ASSUME NEW i \in 1 .. m + n, i + 1 <= m + n PROVE Follows(c[i], c[i + 1])
    BY <1>3 DEF Runs
  <2> HIDE DEF m, n
  <2>1. CASE i + 1 <= m
    <3>1. c[i] = a[i] /\ c[i + 1] = a[i + 1] /\ i \in 1 .. m
      BY <1>3, <2>1
    <3>2. Follows(a[i], a[i + 1])
      BY <2>1, <3>1 DEF Orderly, Runs, m
    <3> QED BY <3>1, <3>2
  <2>2. CASE i = m
    <3>1. c[i] = a[m] /\ c[i + 1] = b[1] /\ m # 0 /\ n # 0
      BY <1>3, <2>2
    <3>2. Follows(a[m], b[1])
      BY <1>3, <3>1 DEF m
    <3> QED BY <3>1, <3>2
  <2>3. CASE i > m
    <3> DEFINE k == i - m
    <3>1. c[i] = b[k] /\ c[i + 1] = b[k + 1] /\ k \in 1 .. n /\ k + 1 <= n
      <4>1. (i + 1) - m = k + 1 /\ i + 1 \in 1 .. m + n /\ ~(i + 1 <= m) /\ ~(i <= m)
        BY <1>3, <2>3
      <4>2. c[i] = b[k] /\ c[i + 1] = b[(i + 1) - m]
        BY <1>3, <4>1
      <4>3. k \in 1 .. n /\ k + 1 <= n
        BY <1>3, <2>3
      <4> QED BY <4>1, <4>2, <4>3
    <3> HIDE DEF k
    <3>2. Follows(b[k], b[k + 1])
      BY <3>1 DEF Orderly, Runs, n
    <3> QED BY <3>1, <3>2
  <2> QED BY <1>3, <2>1, <2>2, <2>3
<1>6. \A e \in ToSet(c) : Fits(e, cursors)
  BY <1>2 DEF Orderly
<1>7. c \in Seq(ToSet(c))
  BY <1>2, OwnElements
<1>8. a # <<>> => c # <<>> /\ c[1] = a[1]
  <2> HIDE DEF m, n
  <2>1. a # <<>> => Len(c) # 0 /\ c[1] = a[1]
    BY <1>3
  <2>2. Len(<<>>) = 0
    OBVIOUS
  <2> QED BY <2>1, <2>2
<1>9. Orderly(c, cursors)
  BY <1>5, <1>6, <1>7 DEF Orderly
<1> QED BY <1>2, <1>4, <1>8, <1>9 DEF c

\* One plan after the other is a plan.
LEMMA PlansJoined ==
    ASSUME NEW cursors, NEW a, Plan(a, cursors), NEW b, Plan(b, cursors)
    PROVE  Plan(a \o b, cursors) /\ ToSet(a \o b) = ToSet(a) \cup ToSet(b)
<1>1. Orderly(a, cursors) /\ Orderly(b, cursors)
  BY DEF Plan
<1>2. b # <<>> => Follows(a[Len(a)], b[1])
  BY DEF Plan, Starts, Follows
<1>3. /\ Orderly(a \o b, cursors) /\ ToSet(a \o b) = ToSet(a) \cup ToSet(b)
      /\ a # <<>> => a \o b # <<>> /\ (a \o b)[1] = a[1]
      /\ a = <<>> => a \o b = b
  BY <1>1, <1>2, Joined
<1> DEFINE c == a \o b
<1> HIDE DEF c
<1>4. c # <<>> => Starts(c[1])
  BY <1>3 DEF Plan, c
<1> QED BY <1>3, <1>4 DEF Plan, c

\* So is one plan for each cursor.
LEMMA PlansFlattened ==
    ASSUME NEW cursors, NEW n \in Nat, NEW plans, DOMAIN plans = 1 .. n, plans = [i \in 1 .. n |-> plans[i]],
           \A i \in 1 .. n : Plan(plans[i], cursors)
    PROVE  LET todo == FlattenSeq(plans)
           IN Plan(todo, cursors) /\ \A i \in 1 .. n : ToSet(plans[i]) \subseteq ToSet(todo)
<1> DEFINE todo == FlattenSeq(plans)
           R == {plans[i] : i \in 1 .. n}
<1>1. plans \in Seq(R) /\ Len(plans) = n
  <2>1. plans \in [1 .. n -> R]
    OBVIOUS
  <2> HIDE DEF R
  <2> QED BY <2>1
<1> HIDE DEF R
<1>2. CASE n = 0
  <2>1. plans = <<>> /\ Len(plans) = 0
    BY <1>1, <1>2
  <2>2. todo = <<>>
    BY <2>1, Zenon DEF FlattenSeq
  <2>3. Plan(<<>>, cursors)
    <3>1. ToSet(<<>>) = {} /\ Len(<<>>) = 0 /\ <<>> \in Seq(ToSet(<<>>))
      BY DEF ToSet
    <3> QED BY <3>1 DEF Plan, Orderly, Runs
  <2> HIDE DEF todo
  <2> QED BY <1>2, <2>2, <2>3 DEF todo
<1>3. CASE n # 0
  <2>1. plans # <<>>
    BY <1>1, <1>3
  <2>2. PICK f : /\ f[1] = plans[1]
                 /\ \A i \in 1 .. n : i > 1 => f[i] = f[i - 1] \o plans[i]
                 /\ todo = f[n]
    <3> HIDE DEF todo
    <3> QED BY <1>1, <2>1, Flattened DEF todo
  <2> HIDE DEF todo
  <2> DEFINE Ready(m) == Plan(f[m], cursors) /\ \A i \in 1 .. m : ToSet(plans[i]) \subseteq ToSet(f[m])
             G == {m \in Nat : m + 1 <= n => Ready(m + 1)}
  <2>3. 0 \in G
    <3>1. 1 \in 1 .. n
      BY <1>3
    <3>2. Ready(1)
      BY <2>2, <3>1
    <3> HIDE DEF Ready
    <3> QED BY <3>2
  <2>4. ASSUME NEW m \in Nat, m \in G PROVE m + 1 \in G
    <3> SUFFICES ASSUME (m + 1) + 1 <= n PROVE Ready((m + 1) + 1)
      OBVIOUS
    <3> DEFINE k == m + 1
    <3>1. k \in Nat /\ k + 1 \in 1 .. n /\ k + 1 > 1 /\ (k + 1) - 1 = k /\ k <= n
      OBVIOUS
    <3>2. Ready(k)
      BY <2>4, <3>1
    <3> HIDE DEF k
    <3>3. f[k + 1] = f[k] \o plans[k + 1] /\ Plan(plans[k + 1], cursors)
      BY <2>2, <3>1
    <3>4. Plan(f[k] \o plans[k + 1], cursors)
          /\ ToSet(f[k] \o plans[k + 1]) = ToSet(f[k]) \cup ToSet(plans[k + 1])
      <4> DEFINE a == f[k]
                 b == plans[k + 1]
      <4>1. Plan(a, cursors) /\ Plan(b, cursors)
        BY <3>2, <3>3
      <4> HIDE DEF a, b
      <4>2. Plan(a \o b, cursors) /\ ToSet(a \o b) = ToSet(a) \cup ToSet(b)
        BY <4>1, PlansJoined
      <4> QED BY <4>2 DEF a, b
    <3>5. ASSUME NEW i \in 1 .. k + 1 PROVE ToSet(plans[i]) \subseteq ToSet(f[k + 1])
      <4>1. i \in 1 .. k \/ i = k + 1
        BY <3>1
      <4> QED BY <3>2, <3>3, <3>4, <4>1
    <3>6. Ready(k + 1)
      BY <3>3, <3>4, <3>5
    <3> QED BY <3>6 DEF k
  <2>5. Ready(n)
    <3>1. Nat \subseteq G
      <4> HIDE DEF G
      <4> QED BY <2>3, <2>4, Induction
    <3>2. n - 1 \in Nat /\ (n - 1) + 1 = n
      BY <1>3
    <3>3. n - 1 \in G
      BY <3>1, <3>2
    <3> HIDE DEF Ready
    <3> QED BY <3>2, <3>3
  <2> QED BY <2>2, <2>5 DEF todo
<1> QED BY <1>2, <1>3

\* What is left after the first statement.
LEMMA RestOfPlan ==
    ASSUME NEW cursors, NEW q, Orderly(q, cursors), q # <<>>
    PROVE  /\ Orderly(Tail(q), cursors) /\ ToSet(q) = {Head(q)} \cup ToSet(Tail(q))
           /\ Fits(Head(q), cursors)
           /\ Tail(q) # <<>> => Follows(Head(q), Tail(q)[1])
<1> DEFINE T == ToSet(q)
           t == Tail(q)
           n == Len(q)
<1>1. q \in Seq(T) /\ (\A e \in T : Fits(e, cursors)) /\ Runs(q)
  BY DEF Orderly
<1> HIDE DEF T
<1>2. t \in Seq(T) /\ Head(q) = q[1] /\ q[1] \in T /\ T = {q[1]} \cup ToSet(t)
  BY <1>1, TailElements DEF T
<1>3. n \in Nat /\ n >= 1 /\ Len(t) = n - 1 /\ \A i \in 1 .. n - 1 : t[i] = q[i + 1]
  BY <1>1
<1>4. t # <<>> => Len(t) \in Nat \ {0}
  BY <1>2, EmptySeq
<1> HIDE DEF t
<1>5. Runs(t)
  <2> SUFFICES ASSUME NEW i \in 1 .. n - 1, i + 1 <= n - 1 PROVE Follows(t[i], t[i + 1])
    BY <1>3 DEF Runs
  <2> HIDE DEF n
  <2>1. t[i] = q[i + 1] /\ t[i + 1] = q[(i + 1) + 1] /\ i + 1 \in 1 .. n /\ (i + 1) + 1 <= n
    BY <1>3
  <2>2. Follows(q[i + 1], q[(i + 1) + 1])
    BY <1>1, <2>1 DEF Runs, n
  <2> QED BY <2>1, <2>2
<1>6. t # <<>> => Follows(q[1], t[1])
  <2> SUFFICES ASSUME t # <<>> PROVE Follows(q[1], t[1])
    OBVIOUS
  <2> HIDE DEF n
  <2>1. n - 1 # 0 /\ n - 1 \in Nat
    BY <1>3, <1>4
  <2>2. t[1] = q[1 + 1] /\ 1 \in 1 .. n /\ 1 + 1 <= n
    BY <1>3, <2>1
  <2>3. Follows(q[1], q[1 + 1])
    BY <1>1, <2>2 DEF Runs, n
  <2> QED BY <2>2, <2>3
<1>7. t \in Seq(ToSet(t)) /\ \A e \in ToSet(t) : Fits(e, cursors)
  BY <1>1, <1>2, OwnElements
<1>8. Orderly(t, cursors)
  BY <1>5, <1>7 DEF Orderly
<1> QED BY <1>1, <1>2, <1>6, <1>8 DEF t, T

\* All that is asked for with one cursor and one filter.
Asked(q, c, filter) ==
    /\ \E e \in ToSet(q) : Starts(e) /\ e.cursor = c /\ e.filter = filter
    /\ \A path \in IF Named(c) THEN ToSet(NamesOf(FileOf(c))) ELSE {None} :
          \E e \in ToSet(q) : e.op # "fallback" /\ e.cursor = c /\ e.filter = filter /\ e.path = path

\* A plan that asks for one thing only.
OneAsked(q, c, filter) ==
    /\ Plan(q, {c}) /\ Asked(q, c, filter) /\ q # <<>>
    /\ \A e \in ToSet(q) : e.op # "fallback" /\ e.cursor = c /\ e.filter = filter

\* A statement by its fields.
FieldsOf(e, op, c, filter, path, first) ==
    /\ e.op = op /\ e.cursor = c /\ e.filter = filter /\ e.path = path /\ (e.first <=> first)
    /\ e.first \in BOOLEAN

\* Statement has them.
LEMMA FieldsOfStatement ==
    ASSUME NEW op, NEW c, NEW filter, NEW path, NEW first \in BOOLEAN
    PROVE  FieldsOf(Statement(op, c, filter, path, first), op, c, filter, path, first)
BY DEF Statement, FieldsOf

\* The statements for the names of a file.
LEMMA NamesAsked ==
    ASSUME NEW c, Named(c), NEW op, op = (IF job.method = "highlight" THEN "highlight" ELSE "symbol"),
           NEW filter, filter \in Filters \/ (filter = "declaration" /\ job.method = "definition")
    PROVE  LET names == NamesOf(FileOf(c))
           IN OneAsked([i \in DOMAIN names |-> Statement(op, c, filter, names[i], i = 1)], c, filter)
<1> DEFINE names == NamesOf(FileOf(c))
           N == ToSet(names)
           n == Len(names)
           q == [i \in DOMAIN names |-> Statement(op, c, filter, names[i], i = 1)]
<1>1. names \in Seq(N) /\ names # <<>>
  BY SomeName
<1>2. n \in Nat \ {0} /\ DOMAIN names = 1 .. n
  <2> HIDE DEF N, names
  <2> QED BY <1>1, EmptySeq, LenProperties
<1>3. ASSUME NEW i \in 1 .. n PROVE FieldsOf(q[i], op, c, filter, names[i], i = 1) /\ names[i] \in N
  <2> DEFINE name == names[i]
             first == i = 1
             s == Statement(op, c, filter, name, first)
  <2>0. name \in N
    BY <1>2 DEF ToSet
  <2>1. q[i] = s
    BY <1>2
  <2>2. first \in BOOLEAN
    OBVIOUS
  <2> HIDE DEF first, name, q
  <2>3. FieldsOf(s, op, c, filter, name, first)
    BY <2>2, FieldsOfStatement
  <2> HIDE DEF s
  <2>4. FieldsOf(q[i], op, c, filter, name, first)
    BY <2>1, <2>3
  <2> QED BY <2>0, <2>4, Zenon DEF name, first
<1>4. DOMAIN q = 1 .. n /\ q = [i \in 1 .. n |-> q[i]]
  BY <1>2
<1> HIDE DEF q
<1>5. q \in Seq(ToSet(q)) /\ Len(q) = n /\ q # <<>>
  <2> DEFINE T == ToSet(q)
  <2>1. \A i \in 1 .. n : q[i] \in T
    BY <1>4 DEF ToSet
  <2> HIDE DEF T
  <2>2. q \in [1 .. n -> T]
    BY <1>4, <2>1
  <2>3. q \in Seq(T) /\ Len(q) = n
    <3> HIDE DEF n
    <3> QED BY <1>2, <2>2
  <2>4. q # <<>>
    <3> HIDE DEF n
    <3>1. Len(q) # 0 /\ Len(<<>>) = 0
      BY <1>2, <2>3
    <3> QED BY <3>1
  <2> QED BY <2>3, <2>4 DEF T
<1>6. ASSUME NEW e \in ToSet(q)
      PROVE  e.op = op /\ e.cursor = c /\ e.filter = filter /\ e.path \in N /\ e.first \in BOOLEAN
  <2>1. PICK i \in 1 .. n : e = q[i]
    BY <1>4 DEF ToSet
  <2> HIDE DEF N
  <2> QED BY <1>3, <2>1 DEF FieldsOf
<1>7. op # "fallback"
  OBVIOUS
<1>8. \A e \in ToSet(q) : Fits(e, {c})
  <2> SUFFICES ASSUME NEW e \in ToSet(q) PROVE Fits(e, {c})
    OBVIOUS
  <2>1. e.op = op /\ e.cursor = c /\ e.filter = filter /\ e.path \in N /\ e.first \in BOOLEAN
    BY <1>6
  <2> HIDE DEF N
  <2>2. Named(e.cursor) /\ e.path \in ToSet(NamesOf(FileOf(e.cursor)))
    BY <2>1 DEF N
  <2>3. Asks(e, {c})
    BY <2>1, <2>2 DEF Asks
  <2> QED BY <1>7, <2>1, <2>3 DEF Fits
<1>9. Runs(q)
  <2> SUFFICES ASSUME NEW i \in 1 .. Len(q), i + 1 <= Len(q) PROVE Follows(q[i], q[i + 1])
    BY DEF Runs
  <2>1. q[i] \in ToSet(q) /\ q[i + 1] \in ToSet(q)
    <3> HIDE DEF n
    <3>1. i \in 1 .. n /\ i + 1 \in 1 .. n
      BY <1>2, <1>5
    <3> QED BY <1>4, <3>1 DEF ToSet
  <2> QED BY <1>6, <1>7, <2>1 DEF Follows
<1>10. Starts(q[1]) /\ q[1] \in ToSet(q)
  <2>1. 1 \in 1 .. n
    BY <1>2
  <2>2. FieldsOf(q[1], op, c, filter, names[1], 1 = 1)
    BY <1>3, <2>1
  <2>3. q[1].op = op /\ q[1].first
    BY <2>2 DEF FieldsOf
  <2>4. q[1] \in ToSet(q)
    BY <1>4, <2>1 DEF ToSet
  <2> QED BY <1>7, <2>3, <2>4 DEF Starts
<1>11. ASSUME NEW path \in N
       PROVE  \E e \in ToSet(q) : e.op # "fallback" /\ e.cursor = c /\ e.filter = filter /\ e.path = path
  <2>1. PICK i \in 1 .. n : path = names[i]
    BY <1>2 DEF ToSet
  <2>2. q[i] \in ToSet(q)
    BY <1>4 DEF ToSet
  <2>3. q[i].path = path
    BY <1>3, <2>1 DEF FieldsOf
  <2> QED BY <1>6, <1>7, <2>2, <2>3
<1>12. Plan(q, {c})
  BY <1>5, <1>8, <1>9, <1>10 DEF Plan, Orderly
<1>13. Asked(q, c, filter)
  BY <1>6, <1>10, <1>11 DEF Asked
<1>14. OneAsked(q, c, filter)
  BY <1>5, <1>6, <1>7, <1>12, <1>13 DEF OneAsked
<1> QED BY <1>14 DEF q

\* A symbol is asked for, a local one under the names of its file.
LEMMA SymbolAsked ==
    ASSUME job.method \in {"definition", "references"}, NEW c,
           NEW filter, filter \in Filters \/ (filter = "declaration" /\ job.method = "definition")
    PROVE  OneAsked(SymbolStatements(c, filter), c, filter)
<1>1. Named(c) <=> c.local
  BY DEF Named
<1>2. FileOf(c) = Uri(c.path)
  BY DEF FileOf
<1>3. CASE c.local
  <2> DEFINE names == NamesOf(FileOf(c))
             q == [i \in DOMAIN names |-> Statement("symbol", c, filter, names[i], i = 1)]
  <2>1. SymbolStatements(c, filter) = q
    BY <1>2, <1>3, Zenon DEF SymbolStatements
  <2>2. OneAsked(q, c, filter)
    <3>1. Named(c) /\ "symbol" = (IF job.method = "highlight" THEN "highlight" ELSE "symbol")
      BY <1>1, <1>3
    <3> HIDE DEF q, names
    <3> QED BY <3>1, NamesAsked DEF q, names
  <2> HIDE DEF q
  <2> QED BY <2>1, <2>2
<1>4. CASE ~c.local
  <2> DEFINE e == Statement("symbol", c, filter, None, TRUE)
             q == <<e>>
  <2>1. SymbolStatements(c, filter) = q
    BY <1>4, Zenon DEF SymbolStatements
  <2>2. FieldsOf(e, "symbol", c, filter, None, TRUE)
    BY FieldsOfStatement
  <2>3. ~Named(c)
    BY <1>1, <1>4
  <2> HIDE DEF e
  <2>4. /\ e.op = "symbol" /\ e.cursor = c /\ e.filter = filter /\ e.path = None
        /\ e.first /\ e.first \in BOOLEAN
    BY <2>2 DEF FieldsOf
  <2>5. ToSet(q) = {e} /\ q \in Seq({e}) /\ Len(q) = 1 /\ q # <<>> /\ q[1] = e
    BY DEF ToSet
  <2> HIDE DEF q
  <2>6. Fits(e, {c})
    <3>1. Asks(e, {c})
      BY <2>3, <2>4 DEF Asks
    <3> QED BY <2>4, <3>1 DEF Fits
  <2>7. Runs(q)
    BY <2>5 DEF Runs
  <2>8. Plan(q, {c})
    BY <2>4, <2>5, <2>6, <2>7 DEF Plan, Orderly, Starts
  <2>9. Asked(q, c, filter)
    BY <2>3, <2>4, <2>5 DEF Asked, Starts
  <2>10. OneAsked(q, c, filter)
    BY <2>4, <2>5, <2>8, <2>9 DEF OneAsked
  <2> QED BY <2>1, <2>10
<1> QED BY <1>3, <1>4

\* The plan for one cursor is one for several.
LEMMA MoreCursors ==
    ASSUME NEW few, NEW many, few \subseteq many, NEW q, Plan(q, few)
    PROVE  Plan(q, many)
<1>1. \A e \in ToSet(q) : Fits(e, many)
  BY DEF Plan, Orderly, Fits, Asks
<1> QED BY <1>1 DEF Plan, Orderly

\* What is asked for stays so in a longer plan.
LEMMA StillAsked ==
    ASSUME NEW q, NEW longer, ToSet(q) \subseteq ToSet(longer), NEW c, NEW filter, Asked(q, c, filter)
    PROVE  Asked(longer, c, filter)
<1>1. \A path \in IF Named(c) THEN ToSet(NamesOf(FileOf(c))) ELSE {None} :
         \E e \in ToSet(longer) : e.op # "fallback" /\ e.cursor = c /\ e.filter = filter /\ e.path = path
  BY DEF Asked
<1>2. \E e \in ToSet(longer) : Starts(e) /\ e.cursor = c /\ e.filter = filter
  BY DEF Asked
<1> QED BY <1>1, <1>2 DEF Asked

\* A definition is asked for first, then the fallback is tried.
LEMMA DefinitionAsked ==
    ASSUME job.method = "definition", NEW c
    PROVE  LET q == Definitions(c)
           IN /\ Plan(q, {c}) /\ Asked(q, c, "definition")
              /\ \E e \in ToSet(q) : e.op = "fallback" /\ e.cursor = c
<1> DEFINE a == SymbolStatements(c, "definition")
           e == [op |-> "fallback", cursor |-> c]
           b == <<e>>
           q == Definitions(c)
<1>1. q = a \o b
  BY Zenon DEF Definitions
<1>2. OneAsked(a, c, "definition")
  BY SymbolAsked DEF Filters
<1>3. e.op = "fallback" /\ e.cursor = c
  OBVIOUS
<1> HIDE DEF a, e
<1>4. ToSet(b) = {e} /\ b \in Seq({e}) /\ Len(b) = 1 /\ b[1] = e
  BY DEF ToSet
<1> HIDE DEF b
<1>5. Orderly(b, {c})
  <2>1. Fits(e, {c})
    BY <1>3 DEF Fits
  <2>2. Runs(b)
    BY <1>4 DEF Runs
  <2> QED BY <1>4, <2>1, <2>2 DEF Orderly
<1>6. Orderly(a, {c}) /\ a # <<>> /\ Starts(a[1])
  BY <1>2 DEF OneAsked, Plan
<1>7. a[Len(a)] \in ToSet(a)
  <2> DEFINE T == ToSet(a)
  <2>1. a \in Seq(T)
    BY <1>6 DEF Orderly
  <2> HIDE DEF T
  <2>2. Len(a) \in Nat \ {0} /\ DOMAIN a = 1 .. Len(a)
    BY <1>6, <2>1, EmptySeq, LenProperties
  <2>3. Len(a) \in DOMAIN a
    BY <2>2
  <2> QED BY <2>3 DEF ToSet
<1>8. Follows(a[Len(a)], b[1])
  <2>1. Asks(a[Len(a)], {c}) /\ a[Len(a)].filter = "definition"
    BY <1>2, <1>6, <1>7 DEF OneAsked, Orderly, Fits
  <2>2. a[Len(a)].op = "symbol" /\ a[Len(a)].cursor = c
    BY <2>1 DEF Asks
  <2> QED BY <1>3, <1>4, <2>1, <2>2 DEF Follows
<1> HIDE DEF q
<1>9. Orderly(q, {c}) /\ ToSet(q) = ToSet(a) \cup {e} /\ q[1] = a[1]
  BY <1>1, <1>4, <1>5, <1>6, <1>8, Joined
<1>10. Plan(q, {c})
  BY <1>6, <1>9 DEF Plan
<1>11. Asked(q, c, "definition")
  <2>1. Asked(a, c, "definition") /\ ToSet(a) \subseteq ToSet(q)
    BY <1>2, <1>9 DEF OneAsked
  <2> QED BY <2>1, StillAsked
<1>12. \E x \in ToSet(q) : x.op = "fallback" /\ x.cursor = c
  BY <1>3, <1>9
<1> QED BY <1>10, <1>11, <1>12 DEF q

\* One plan for each cursor.
LEMMA EachCursor ==
    ASSUME NEW C, NEW cursors \in Seq(C), NEW plans, DOMAIN plans = DOMAIN cursors,
           plans = [i \in DOMAIN cursors |-> plans[i]],
           \A i \in DOMAIN cursors : Plan(plans[i], {cursors[i]})
    PROVE  LET todo == FlattenSeq(plans)
           IN /\ Plan(todo, ToSet(cursors))
              /\ \A i \in DOMAIN cursors : ToSet(plans[i]) \subseteq ToSet(todo)
<1> DEFINE n == Len(cursors)
<1>1. n \in Nat /\ DOMAIN cursors = 1 .. n
  OBVIOUS
<1>2. \A i \in 1 .. n : Plan(plans[i], ToSet(cursors))
  <2> SUFFICES ASSUME NEW i \in 1 .. n PROVE Plan(plans[i], ToSet(cursors))
    OBVIOUS
  <2>1. {cursors[i]} \subseteq ToSet(cursors) /\ Plan(plans[i], {cursors[i]})
    BY <1>1 DEF ToSet
  <2> QED BY <2>1, MoreCursors
<1> HIDE DEF n
<1> QED BY <1>1, <1>2, PlansFlattened

\* One filter asked for with each cursor.
LEMMA EachAsked ==
    ASSUME NEW C, NEW cursors \in Seq(C), NEW plans, DOMAIN plans = DOMAIN cursors,
           plans = [i \in DOMAIN cursors |-> plans[i]], NEW filter,
           \A i \in DOMAIN cursors : Plan(plans[i], {cursors[i]}) /\ Asked(plans[i], cursors[i], filter)
    PROVE  LET todo == FlattenSeq(plans)
           IN /\ Plan(todo, ToSet(cursors))
              /\ \A c \in ToSet(cursors) : Asked(todo, c, filter)
              /\ \A i \in DOMAIN cursors : ToSet(plans[i]) \subseteq ToSet(todo)
<1> DEFINE todo == FlattenSeq(plans)
<1>1. Plan(todo, ToSet(cursors)) /\ \A i \in DOMAIN cursors : ToSet(plans[i]) \subseteq ToSet(todo)
  BY EachCursor
<1> HIDE DEF todo
<1>2. ASSUME NEW c \in ToSet(cursors) PROVE Asked(todo, c, filter)
  <2>1. PICK i \in DOMAIN cursors : c = cursors[i]
    BY DEF ToSet
  <2>2. Asked(plans[i], c, filter) /\ ToSet(plans[i]) \subseteq ToSet(todo)
    BY <1>1, <2>1
  <2> QED BY <2>2, StillAsked
<1> QED BY <1>1, <1>2 DEF todo

\* The plan of a request asks for all there is to ask for.
LEMMA AllAsked ==
    ASSUME job.method \in {"definition", "references", "highlight"}, NEW C, NEW cursors \in Seq(C)
    PROVE  LET todo == StatementsFor(cursors)
           IN /\ Plan(todo, ToSet(cursors))
              /\ \A c \in ToSet(cursors), filter \in Filters : Asked(todo, c, filter)
              /\ job.method = "definition" =>
                    \A c \in ToSet(cursors) : \E e \in ToSet(todo) : e.op = "fallback" /\ e.cursor = c
<1> DEFINE todo == StatementsFor(cursors)
           D == DOMAIN cursors
<1>1. CASE job.method = "definition"
  <2> DEFINE plans == [i \in DOMAIN cursors |-> Definitions(cursors[i])]
             whole == FlattenSeq(plans)
  <2>1. todo = whole
    BY <1>1, Zenon DEF StatementsFor, ForEach
  <2>2. \A i \in D : plans[i] = Definitions(cursors[i])
    OBVIOUS
  <2>3. DOMAIN plans = D /\ plans = [i \in D |-> plans[i]]
    OBVIOUS
  <2> HIDE DEF plans, D
  <2>4. ASSUME NEW i \in D
        PROVE  /\ Plan(plans[i], {cursors[i]}) /\ Asked(plans[i], cursors[i], "definition")
               /\ \E e \in ToSet(plans[i]) : e.op = "fallback" /\ e.cursor = cursors[i]
    BY <1>1, <2>2, DefinitionAsked
  <2>5. /\ Plan(whole, ToSet(cursors)) /\ \A c \in ToSet(cursors) : Asked(whole, c, "definition")
        /\ \A i \in D : ToSet(plans[i]) \subseteq ToSet(whole)
    BY <2>3, <2>4, EachAsked DEF D
  <2> HIDE DEF whole
  <2>6. ASSUME NEW c \in ToSet(cursors)
        PROVE  \E e \in ToSet(whole) : e.op = "fallback" /\ e.cursor = c
    <3>1. PICK i \in D : c = cursors[i]
      BY DEF ToSet, D
    <3> QED BY <2>4, <2>5, <3>1
  <2>7. Filters = {"definition"}
    BY <1>1, Zenon DEF Filters
  <2> HIDE DEF todo
  <2> QED BY <2>1, <2>5, <2>6, <2>7 DEF todo
<1>2. CASE job.method = "highlight"
  <2> DEFINE plans == [i \in DOMAIN cursors |-> Highlights(cursors[i])]
             whole == FlattenSeq(plans)
  <2>1. todo = whole
    BY <1>2, Zenon DEF StatementsFor, ForEach
  <2>2. \A i \in D : plans[i] = Highlights(cursors[i])
    OBVIOUS
  <2>3. DOMAIN plans = D /\ plans = [i \in D |-> plans[i]]
    OBVIOUS
  <2> HIDE DEF plans, D
  <2>4. ASSUME NEW i \in D
        PROVE  Plan(plans[i], {cursors[i]}) /\ Asked(plans[i], cursors[i], "all")
    <3> DEFINE c == cursors[i]
               names == NamesOf(FileOf(c))
               q == [m \in DOMAIN names |-> Statement("highlight", c, "all", names[m], m = 1)]
    <3>1. Named(c) /\ FileOf(c) = job.params.path
      BY <1>2 DEF Named, FileOf
    <3>2. Highlights(c) = q
      BY <3>1, Zenon DEF Highlights
    <3>3. Filters = {"all"} /\ "highlight" = (IF job.method = "highlight" THEN "highlight" ELSE "symbol")
      BY <1>2, Zenon DEF Filters
    <3> HIDE DEF c
    <3>4. OneAsked(q, c, "all")
      <4>1. "all" \in Filters
        BY <3>3
      <4> HIDE DEF names, q
      <4>2. LET NS == NamesOf(FileOf(c))
            IN OneAsked([m \in DOMAIN NS |-> Statement("highlight", c, "all", NS[m], m = 1)], c, "all")
        <5>1. Named(c) /\ "highlight" = (IF job.method = "highlight" THEN "highlight" ELSE "symbol")
          BY <3>1, <3>3
        <5> QED BY <4>1, <5>1, NamesAsked, Zenon
      <4> QED BY <4>2, Zenon DEF q, names
    <3> HIDE DEF q
    <3> QED BY <2>2, <3>2, <3>4 DEF OneAsked, c
  <2>5. Plan(whole, ToSet(cursors)) /\ \A c \in ToSet(cursors) : Asked(whole, c, "all")
    BY <2>3, <2>4, EachAsked DEF D
  <2>6. Filters = {"all"}
    BY <1>2, Zenon DEF Filters
  <2> HIDE DEF whole, todo
  <2> QED BY <1>2, <2>1, <2>5, <2>6 DEF todo
<1>3. CASE job.method = "references"
  <2> DEFINE plans == [i \in DOMAIN cursors |-> References(cursors[i])]
             whole == FlattenSeq(plans)
             others == [i \in DOMAIN cursors |-> Symbols(cursors[i])]
             rest == IF job.params.declaration THEN FlattenSeq(others) ELSE <<>>
  <2>1. todo = whole \o rest
    BY <1>3, Zenon DEF StatementsFor, ForEach
  <2>2. \A i \in D : plans[i] = References(cursors[i]) /\ others[i] = Symbols(cursors[i])
    OBVIOUS
  <2>3. DOMAIN plans = D /\ plans = [i \in D |-> plans[i]] /\ DOMAIN others = D /\ others = [i \in D |-> others[i]]
    OBVIOUS
  <2>4. "reference" \in Filters /\ (job.params.declaration => "symbol" \in Filters)
        /\ Filters \subseteq {"reference", "symbol"} /\ (~job.params.declaration => Filters = {"reference"})
    <3>1. Filters = {"reference"} \cup (IF job.params.declaration THEN {"symbol"} ELSE {})
      BY <1>3, Zenon DEF Filters
    <3> QED BY <3>1
  <2> HIDE DEF plans, others, D
  <2>5. ASSUME NEW i \in D
        PROVE  /\ Plan(plans[i], {cursors[i]}) /\ Asked(plans[i], cursors[i], "reference")
               /\ job.params.declaration =>
                     Plan(others[i], {cursors[i]}) /\ Asked(others[i], cursors[i], "symbol")
    <3> DEFINE c == cursors[i]
    <3> HIDE DEF c
    <3>0. job.method \in {"definition", "references"} /\ References(c) = SymbolStatements(c, "reference")
          /\ Symbols(c) = SymbolStatements(c, "symbol")
      BY <1>3, Zenon DEF References, Symbols
    <3>1. OneAsked(References(c), c, "reference")
      <4>0. job.method \in {"definition", "references"} /\ ("reference" \in Filters)
        BY <2>4, <3>0
      <4>1. OneAsked(SymbolStatements(c, "reference"), c, "reference")
        BY <4>0, SymbolAsked, Zenon
      <4> QED BY <3>0, <4>1
    <3>2. job.params.declaration => OneAsked(Symbols(c), c, "symbol")
      <4>0. job.method \in {"definition", "references"} /\ (job.params.declaration => "symbol" \in Filters)
        BY <2>4, <3>0
      <4>1. job.params.declaration => OneAsked(SymbolStatements(c, "symbol"), c, "symbol")
        BY <4>0, SymbolAsked, Zenon
      <4> QED BY <3>0, <4>1
    <3> QED BY <2>2, <3>1, <3>2 DEF OneAsked, c
  <2>6. Plan(whole, ToSet(cursors)) /\ \A c \in ToSet(cursors) : Asked(whole, c, "reference")
    BY <2>3, <2>5, EachAsked DEF D
  <2>7. Plan(rest, ToSet(cursors)) /\ (job.params.declaration => \A c \in ToSet(cursors) : Asked(rest, c, "symbol"))
    <3>1. CASE job.params.declaration
      <4>1. rest = FlattenSeq(others)
        BY <3>1
      <4>2. \A i \in D : Plan(others[i], {cursors[i]}) /\ Asked(others[i], cursors[i], "symbol")
        BY <2>5, <3>1
      <4>3. Plan(FlattenSeq(others), ToSet(cursors)) /\ \A c \in ToSet(cursors) : Asked(FlattenSeq(others), c, "symbol")
        BY <2>3, <4>2, EachAsked DEF D
      <4> HIDE DEF rest
      <4> QED BY <4>1, <4>3
    <3>2. CASE ~job.params.declaration
      <4>1. rest = <<>>
        BY <3>2
      <4>2. ToSet(<<>>) = {} /\ Len(<<>>) = 0 /\ <<>> \in Seq(ToSet(<<>>))
        BY DEF ToSet
      <4> HIDE DEF rest
      <4>3. Plan(rest, ToSet(cursors))
        BY <4>1, <4>2 DEF Plan, Orderly, Runs
      <4> QED BY <3>2, <4>3
    <3> QED BY <3>1, <3>2
  <2> HIDE DEF whole, rest, todo
  <2>8. Plan(todo, ToSet(cursors)) /\ ToSet(todo) = ToSet(whole) \cup ToSet(rest)
    BY <2>1, <2>6, <2>7, PlansJoined
  <2>9. ASSUME NEW c \in ToSet(cursors), NEW filter \in Filters PROVE Asked(todo, c, filter)
    <3>1. CASE filter = "reference"
      BY <2>6, <2>8, <3>1, StillAsked
    <3>2. CASE filter # "reference"
      <4>1. filter = "symbol" /\ job.params.declaration
        BY <2>4, <3>2
      <4> QED BY <2>7, <2>8, <4>1, StillAsked
    <3> QED BY <3>1, <3>2
  <2> QED BY <1>3, <2>8, <2>9 DEF todo
<1> QED BY <1>1, <1>2, <1>3

-----------------------------------------------------------------------------
(* The answer as it grows.                                                  *)

\* There is a definition of what the cursor is on.
Evidence(c, ever) == \E r \in ever \cup Above(c, "definition") : Matches(c, r, "definition")

\* A record is still asked for.
Waiting(todo, c, filter, path) ==
    \E e \in ToSet(todo) : /\ e.op # "fallback" /\ e.cursor = c /\ e.filter = filter
                           /\ e.path \in {None, path}

\* What the next statement relies on.
HeadReady(j, ever) ==
    j.todo # <<>> =>
        LET e == j.todo[1]
        IN /\ e.op # "fallback" /\ ~e.first =>
                 /\ j.excluded \in {None, Uri(e.cursor.path)}
                 /\ j.excluded # None => Above(e.cursor, e.filter) # {}
           /\ e.op = "fallback" \/ (e.op = "symbol" /\ ~e.first /\ e.filter = "definition") =>
                 (j.hit /\ Exact(e.cursor) => Evidence(e.cursor, ever))

\* What the overlay has is in the answer, or still to be asked for.
AboveShown(j) ==
    \A c \in ToSet(j.cursors), filter \in Filters :
        \/ \A r \in Above(c, filter) : Place(r) \in Placed(j.found)
        \/ \E e \in ToSet(j.todo) : Starts(e) /\ e.cursor = c /\ e.filter = filter

\* What is stored all the time is in the answer, or still to be asked for.
KeptShown(j, always) ==
    \A c \in ToSet(j.cursors) : Plain(c) /\ c.variant # 0 =>
        \A filter \in Filters, r \in always :
            Matches(c, r, filter) /\ (Above(c, filter) = {} \/ Uri(r.path) # Uri(c.path)) =>
                Place(r) \in Placed(j.found) \/ Waiting(j.todo, c, filter, r.path)

\* So are the declarations of what has no definition.
DeclarationsShown(j, always, ever) ==
    job.method = "definition" =>
        \A c \in ToSet(j.cursors) : Exact(c) /\ c.variant # 0 /\ ~Evidence(c, ever) =>
            \A r \in always : Matches(c, r, "declaration") /\ Above(c, "declaration") = {} =>
                \/ Place(r) \in Placed(j.found)
                \/ Waiting(j.todo, c, "declaration", r.path)
                \/ \E e \in ToSet(j.todo) : e.op = "fallback" /\ e.cursor = c

\* A place is in the answer for a cursor and a filter.
Grounds(c, filter, ever, p) ==
    /\ filter = "declaration" => job.method = "definition"
    /\ Exact(c) => \E r \in ever \cup Above(c, filter) : Matches(c, r, filter) /\ Place(r) = p

\* Each place is in the answer for a reason.
Founded(j, ever) ==
    \A p \in Placed(j.found) :
        \E c \in ToSet(j.cursors), filter \in Filters \cup {"declaration"} : Grounds(c, filter, ever, p)

\* The answer so far, and what is left to do for it.
Answering(j, always, ever) ==
    /\ Orderly(j.todo, ToSet(j.cursors)) /\ Kept(j.found)
    /\ HeadReady(j, ever) /\ AboveShown(j) /\ KeptShown(j, always)
    /\ DeclarationsShown(j, always, ever) /\ Founded(j, ever)

\* The requests that are answered with places.
Answerable == {"definition", "references", "highlight"}

\* The answer of a lookup in hand has what it can have.
AnswerInv ==
    job.method \in Answerable =>
        /\ job.pc # "run" => job.todo = <<>> /\ job.found = {}
        /\ job.pc = "run" => Answering(job, seen.always, seen.ever)

\* At the end it is as it must be.
LEMMA AnswerIsFaithful ==
    AnswerInv /\ Answered => (job.method \in Answerable => AnswerComplete /\ AnswerSound)
<1> SUFFICES ASSUME AnswerInv, Answered, job.method \in Answerable PROVE AnswerComplete /\ AnswerSound
  OBVIOUS
<1>1. Answering(job, seen.always, seen.ever) /\ job.todo = <<>>
  BY DEF AnswerInv, Answered
<1>2. ToSet(job.todo) = {}
  <2>1. ToSet(<<>>) = {}
    BY DEF ToSet
  <2> QED BY <1>1, <2>1
<1>3. ASSUME NEW c \in ToSet(job.cursors), NEW filter \in Filters, NEW r \in Above(c, filter)
      PROVE  Place(r) \in Placed(job.found)
  BY <1>1, <1>2 DEF Answering, AboveShown
<1>4. ASSUME NEW c \in ToSet(job.cursors), Plain(c), c.variant # 0,
             NEW filter \in Filters, NEW r \in seen.always, Matches(c, r, filter), Above(c, filter) = {} \/ Uri(r.path) # Uri(c.path)
      PROVE  Place(r) \in Placed(job.found)
  BY <1>1, <1>2, <1>4 DEF Answering, KeptShown, Waiting
<1>5. ASSUME NEW c \in ToSet(job.cursors), job.method = "definition", Exact(c), c.variant # 0,
             ~\E r \in seen.ever \cup Above(c, "definition") : Matches(c, r, "definition"),
             NEW r \in seen.always, Matches(c, r, "declaration"), Above(c, "declaration") = {}
      PROVE  Place(r) \in Placed(job.found)
  <2>1. ~Evidence(c, seen.ever)
    BY <1>5 DEF Evidence
  <2> QED BY <1>1, <1>2, <1>5, <2>1 DEF Answering, DeclarationsShown, Waiting
<1>6. AnswerComplete
  BY <1>3, <1>4, <1>5 DEF AnswerComplete, StoredShown
<1>7. ASSUME NEW l \in job.found
      PROVE  \E c \in ToSet(job.cursors), filter \in Filters \cup {"declaration"} :
                 /\ filter = "declaration" => job.method = "definition"
                 /\ ~Exact(c) \/ \E r \in seen.ever \cup Above(c, filter) :
                                    Matches(c, r, filter) /\ Place(r) = [path |-> l.path, line |-> l.line,
                                                                         column |-> l.column]
  <2> DEFINE p == [path |-> l.path, line |-> l.line, column |-> l.column]
  <2>1. p \in Placed(job.found)
    BY DEF Placed
  <2> HIDE DEF p
  <2>2. PICK c \in ToSet(job.cursors), filter \in Filters \cup {"declaration"} : Grounds(c, filter, seen.ever, p)
    BY <1>1, <2>1 DEF Answering, Founded
  <2>3. /\ filter = "declaration" => job.method = "definition"
        /\ ~Exact(c) \/ \E r \in seen.ever \cup Above(c, filter) : Matches(c, r, filter) /\ Place(r) = p
    BY <2>2 DEF Grounds
  <2> QED BY <2>3 DEF p
<1>8. AnswerSound
  BY <1>7 DEF AnswerSound
<1> QED BY <1>6, <1>8

\* A record asked for is under one of the names asked for.
LEMMA AskedWaits ==
    ASSUME LookupInv, job.method \in Answerable, NEW q, NEW c, NEW filter, Asked(q, c, filter),
           NEW r, Matches(c, r, filter), r.path \in RecordPaths
    PROVE  Waiting(q, c, filter, r.path)
<1>1. r.path \in ToSet(NamesOf(Uri(r.path)))
  BY InNames DEF LookupInv
<1>2. Named(c) => FileOf(c) = Uri(r.path)
  <2>1. CASE job.method = "highlight"
    <3>1. Uri(r.path) = Uri(job.params.path)
      BY <2>1 DEF Matches
    <3>2. Uri(job.params.path) = job.params.path
      <4>1. job.params.path \in NormalPaths
        BY <2>1 DEF LookupInv
      <4>2. job.params.path.abs = TRUE
        BY <4>1 DEF NormalPaths
      <4> QED BY <4>2 DEF Uri, Resolve
    <3> QED BY <2>1, <3>1, <3>2 DEF FileOf
  <2>2. CASE job.method # "highlight"
    <3>1. c.local => Uri(r.path) = Uri(c.path)
      BY DEF Matches
    <3> QED BY <2>2, <3>1 DEF FileOf, Named
  <2> QED BY <2>1, <2>2
<1>3. \E path \in {None, r.path} : path \in IF Named(c) THEN ToSet(NamesOf(FileOf(c))) ELSE {None}
  BY <1>1, <1>2
<1> QED BY <1>3 DEF Asked, Waiting

\* What a statement brings into the answer.
Brings(s, j) ==
    /\ Asks(s, CursorRecords) /\ s.cursor \in ToSet(job.cursors) /\ s = job.todo[1]
    /\ Shaped(j) /\ j.cursors = job.cursors /\ j.todo = Tail(job.todo) /\ Kept(j.found)
    /\ Placed(j.found) = Placed(job.found) \cup {Place(r) : r \in IF s.first THEN Above(s.cursor, s.filter) ELSE {}}
                            \cup {Place(r) : r \in Fetched(s, j.excluded)}
    /\ j.excluded \in {None, Uri(s.cursor.path)} /\ (j.excluded # None => Above(s.cursor, s.filter) # {})
    /\ s.op = "symbol" /\ s.filter = "definition" =>
          (j.hit /\ Exact(s.cursor) => Evidence(s.cursor, seen.ever))
    /\ ToSet(job.todo) = {s} \cup ToSet(j.todo) /\ Orderly(j.todo, ToSet(j.cursors))
    /\ j.todo # <<>> => Follows(s, j.todo[1])

\* A query brings that.
LEMMA QueryBrings ==
    ASSUME TypeOK, LookupInv, CursorInv, job.method \in Answerable, job.pc = "run",
           Shaped(job), Answering(job, seen.always, seen.ever), QuerySymbol
    PROVE  Brings(Head(job.todo), job')
<1> DEFINE s == Head(job.todo)
           c == s.cursor
           above == Above(c, s.filter)
           fetched == Fetched(s, job'.excluded)
<1>1. /\ job.todo # <<>> /\ s.op \in {"symbol", "highlight"}
      /\ Orderly(job.todo, ToSet(job.cursors)) /\ Kept(job.found) /\ HeadReady(job, seen.ever)
  BY DEF QuerySymbol, Answering
<1>2. /\ Orderly(Tail(job.todo), ToSet(job.cursors)) /\ ToSet(job.todo) = {s} \cup ToSet(Tail(job.todo))
      /\ Fits(s, ToSet(job.cursors)) /\ (Tail(job.todo) # <<>> => Follows(s, Tail(job.todo)[1]))
  BY <1>1, RestOfPlan
<1>3. Asks(s, ToSet(job.cursors))
  BY <1>1, <1>2 DEF Fits
<1>4. c \in ToSet(job.cursors) /\ Asks(s, CursorRecords)
  <2>1. job.cursors \in Seq(CursorRecords)
    BY DEF CursorInv, Answerable
  <2>2. ToSet(job.cursors) \subseteq CursorRecords
    BY <2>1, OwnElements
  <2> QED BY <1>3, <2>2 DEF Asks
<1>5. s = job.todo[1]
  <2> DEFINE T == ToSet(job.todo)
  <2>1. job.todo \in Seq(T)
    BY <1>1 DEF Orderly
  <2> HIDE DEF T
  <2> QED BY <1>1, <2>1, TailElements
<1>6. job.method \in {"definition", "references", "highlight"}
  BY DEF Answerable
<1> HIDE DEF s
<1>7. /\ Alike(job', job) /\ job'.todo = Tail(job.todo) /\ Kept(job'.found)
      /\ Placed(job'.found) = Placed(job.found) \cup {Place(r) : r \in IF s.first THEN above ELSE {}}
                                 \cup {Place(r) : r \in fetched}
      /\ s.first => job'.excluded \in {None, Uri(c.path)} /\ (job'.excluded # None => above # {})
      /\ ~s.first => job'.excluded = job.excluded
      /\ s.op = "symbol" /\ s.filter = "definition" =>
            (job'.hit => IF s.first THEN above # {} \/ fetched # {} ELSE job.hit \/ fetched # {})
  BY <1>1, <1>4, <1>6, StatementDone DEF s
<1>8. Shaped(job') /\ job'.cursors = job.cursors
  BY <1>7 DEF Alike
<1>9. s.op # "fallback"
  BY <1>1
<1>10. job'.excluded \in {None, Uri(c.path)} /\ (job'.excluded # None => above # {})
  <2>1. CASE s.first
    BY <1>7, <2>1
  <2>2. CASE ~s.first
    <3>1. job.excluded \in {None, Uri(s.cursor.path)} /\ (job.excluded # None => Above(s.cursor, s.filter) # {})
      BY <1>1, <1>5, <1>9, <2>2 DEF HeadReady
    <3> QED BY <1>7, <2>2, <3>1
  <2> QED BY <2>1, <2>2
<1>11. ASSUME s.op = "symbol", s.filter = "definition", job'.hit, Exact(c)
       PROVE  Evidence(c, seen.ever)
  <2>1. CASE above # {}
    <3>1. PICK r \in above : TRUE
      BY <2>1
    <3>2. r \in Above(c, "definition") /\ Matches(c, r, "definition")
      BY <1>11, <3>1 DEF Above
    <3> QED BY <3>2 DEF Evidence
  <2>2. CASE fetched # {}
    <3>1. PICK r \in Records : MatchesQuery([Options(s) EXCEPT !.path = s.path], r)
      BY <2>2 DEF Fetched
    <3>2. Matches(s.cursor, r, s.filter)
      BY <1>4, <1>6, <1>11, <3>1, ExactFinds
    <3>3. r \in seen.ever
      BY DEF LookupInv, Answerable
    <3> QED BY <1>11, <3>2, <3>3 DEF Evidence
  <2>3. CASE ~s.first /\ job.hit
    BY <1>1, <1>5, <1>11, <2>3 DEF HeadReady
  <2>4. IF s.first THEN above # {} \/ fetched # {} ELSE job.hit \/ fetched # {}
    BY <1>7, <1>11
  <2> QED BY <2>1, <2>2, <2>3, <2>4
<1> QED BY <1>2, <1>4, <1>5, <1>7, <1>8, <1>10, <1>11 DEF Brings, s

\* It keeps the answer on its way.
LEMMA QueryAnswers ==
    ASSUME TypeOK, LookupInv, job.method \in Answerable,
           Answering(job, seen.always, seen.ever), NEW s, NEW j, Brings(s, j)
    PROVE  Answering(j, seen.always, seen.ever)
<1> DEFINE c == s.cursor
           always == seen.always
           ever == seen.ever
           cursors == ToSet(job.cursors)
           old == Placed(job.found)
           new == Placed(j.found)
           above == Above(c, s.filter)
           fetched == Fetched(s, j.excluded)
<1>0. job.method \in {"definition", "references", "highlight"}
  BY DEF Answerable
<1>1. /\ Asks(s, CursorRecords) /\ c \in cursors /\ s = job.todo[1]
      /\ j.cursors = job.cursors /\ j.todo = Tail(job.todo) /\ Kept(j.found)
      /\ j.excluded \in {None, Uri(c.path)} /\ (j.excluded # None => above # {})
      /\ ToSet(job.todo) = {s} \cup ToSet(j.todo) /\ Orderly(j.todo, ToSet(j.cursors))
      /\ j.todo # <<>> => Follows(s, j.todo[1])
  BY DEF Brings
<1>2. new = old \cup {Place(r) : r \in IF s.first THEN above ELSE {}} \cup {Place(r) : r \in fetched}
  BY DEF Brings
<1>3. s.op = "symbol" /\ s.filter = "definition" => (j.hit /\ Exact(c) => Evidence(c, ever))
  BY DEF Brings
<1>4. s.op # "fallback" /\ (s.filter \in Filters \/ (s.filter = "declaration" /\ job.method = "definition"))
  BY <1>1 DEF Asks
<1>5. always \subseteq Records /\ Records \subseteq ever
  BY DEF LookupInv, Answerable
<1>6. ASSUME NEW r \in always, Plain(c), c.variant # 0, Matches(c, r, s.filter), s.path \in {None, r.path},
             above = {} \/ Uri(r.path) # Uri(c.path)
      PROVE  Place(r) \in new
  <2>1. r \in Records
    BY <1>5
  <2>2. MatchesQuery([Options(s) EXCEPT !.path = s.path], r)
    BY <1>0, <1>1, <1>6, <2>1, PlainFinds
  <2>3. j.excluded = None \/ Uri(r.path) # j.excluded
    BY <1>1, <1>6
  <2>4. r \in fetched
    BY <2>1, <2>2, <2>3 DEF Fetched
  <2> HIDE DEF fetched, new
  <2> QED BY <1>2, <2>4
<1>7. HeadReady(j, ever)
  <2> SUFFICES ASSUME j.todo # <<>>
               PROVE  LET e == j.todo[1]
                      IN /\ e.op # "fallback" /\ ~e.first =>
                               /\ j.excluded \in {None, Uri(e.cursor.path)}
                               /\ j.excluded # None => Above(e.cursor, e.filter) # {}
                         /\ e.op = "fallback" \/ (e.op = "symbol" /\ ~e.first /\ e.filter = "definition") =>
                               (j.hit /\ Exact(e.cursor) => Evidence(e.cursor, ever))
    BY DEF HeadReady
  <2> DEFINE e == j.todo[1]
  <2>1. Follows(s, e)
    BY <1>1
  <2> HIDE DEF e
  <2>2. CASE e.op = "fallback"
    <3>1. s.op = "symbol" /\ s.filter = "definition" /\ s.cursor = e.cursor
      BY <2>1, <2>2 DEF Follows
    <3> QED BY <1>3, <2>2, <3>1 DEF e
  <2>3. CASE e.op # "fallback" /\ ~e.first
    <3>1. s.op = e.op /\ s.filter = e.filter /\ s.cursor = e.cursor
      BY <2>1, <2>3 DEF Follows
    <3> QED BY <1>1, <1>3, <2>3, <3>1 DEF e
  <2>4. CASE e.op # "fallback" /\ e.first
    BY <2>4 DEF e
  <2> QED BY <2>2, <2>3, <2>4
<1>8. AboveShown(j)
  <2> SUFFICES ASSUME NEW d \in cursors, NEW filter \in Filters
               PROVE  \/ \A r \in Above(d, filter) : Place(r) \in new
                      \/ \E e \in ToSet(j.todo) : Starts(e) /\ e.cursor = d /\ e.filter = filter
    BY <1>1 DEF AboveShown
  <2> HIDE DEF new, cursors
  <2>1. CASE \A r \in Above(d, filter) : Place(r) \in old
    BY <1>2, <2>1
  <2>2. CASE \E e \in ToSet(job.todo) : Starts(e) /\ e.cursor = d /\ e.filter = filter
    <3>1. PICK e \in ToSet(job.todo) : Starts(e) /\ e.cursor = d /\ e.filter = filter
      BY <2>2
    <3>2. CASE e = s
      <4>1. s.first /\ above = Above(d, filter)
        BY <3>1, <3>2 DEF Starts
      <4> HIDE DEF above
      <4> QED BY <1>2, <4>1
    <3>3. CASE e # s
      BY <1>1, <3>1, <3>3
    <3> QED BY <3>2, <3>3
  <2> QED BY <2>1, <2>2 DEF Answering, AboveShown, cursors
<1>9. ASSUME NEW d, NEW filter, NEW r \in always, Plain(d), d.variant # 0, Matches(d, r, filter),
             Above(d, filter) = {} \/ Uri(r.path) # Uri(d.path), Waiting(job.todo, d, filter, r.path)
      PROVE  Place(r) \in new \/ Waiting(j.todo, d, filter, r.path)
  <2>1. PICK e \in ToSet(job.todo) : e.op # "fallback" /\ e.cursor = d /\ e.filter = filter /\ e.path \in {None, r.path}
    BY <1>9 DEF Waiting
  <2>2. CASE e = s
    BY <1>6, <1>9, <2>1, <2>2
  <2>3. CASE e # s
    <3>1. e \in ToSet(j.todo)
      BY <1>1, <2>1, <2>3
    <3> QED BY <2>1, <3>1 DEF Waiting
  <2> QED BY <2>2, <2>3
<1>10. KeptShown(j, always)
  <2> SUFFICES ASSUME NEW d \in cursors, Plain(d), d.variant # 0, NEW filter \in Filters, NEW r \in always,
                      Matches(d, r, filter), Above(d, filter) = {} \/ Uri(r.path) # Uri(d.path)
               PROVE  Place(r) \in new \/ Waiting(j.todo, d, filter, r.path)
    BY <1>1 DEF KeptShown
  <2>1. Place(r) \in old \/ Waiting(job.todo, d, filter, r.path)
    BY DEF Answering, KeptShown
  <2> HIDE DEF new
  <2> QED BY <1>2, <1>9, <2>1
<1>11. DeclarationsShown(j, always, ever)
  <2> SUFFICES ASSUME job.method = "definition", NEW d \in cursors, Exact(d), d.variant # 0,
                      ~Evidence(d, ever), NEW r \in always, Matches(d, r, "declaration"), Above(d, "declaration") = {}
               PROVE  \/ Place(r) \in new
                      \/ Waiting(j.todo, d, "declaration", r.path)
                      \/ \E e \in ToSet(j.todo) : e.op = "fallback" /\ e.cursor = d
    BY <1>1 DEF DeclarationsShown
  <2>1. \/ Place(r) \in old
        \/ Waiting(job.todo, d, "declaration", r.path)
        \/ \E e \in ToSet(job.todo) : e.op = "fallback" /\ e.cursor = d
    BY DEF Answering, DeclarationsShown
  <2>2. Plain(d)
    BY DEF Exact
  <2> HIDE DEF new
  <2>3. CASE Place(r) \in old
    BY <1>2, <2>3
  <2>4. CASE Waiting(job.todo, d, "declaration", r.path)
    BY <1>9, <2>2, <2>4
  <2>5. CASE \E e \in ToSet(job.todo) : e.op = "fallback" /\ e.cursor = d
    <3>1. PICK e \in ToSet(job.todo) : e.op = "fallback" /\ e.cursor = d
      BY <2>5
    <3>2. e # s
      BY <1>4, <3>1
    <3> QED BY <1>1, <3>1, <3>2
  <2> QED BY <2>1, <2>3, <2>4, <2>5
<1>12. Founded(j, ever)
  <2> SUFFICES ASSUME NEW p \in new
               PROVE  \E d \in cursors, filter \in Filters \cup {"declaration"} : Grounds(d, filter, ever, p)
    BY <1>1 DEF Founded
  <2> HIDE DEF new, cursors, above, fetched
  <2>1. CASE p \in old
    BY <2>1 DEF Answering, Founded, cursors
  <2>2. ASSUME NEW r \in above, p = Place(r) PROVE Grounds(c, s.filter, ever, p)
    <3>1. r \in Above(c, s.filter) /\ Matches(c, r, s.filter)
      BY DEF above, Above
    <3>2. s.filter = "declaration" => job.method = "definition"
      BY <1>0, <1>4, Zenon DEF Filters
    <3> QED BY <2>2, <3>1, <3>2 DEF Grounds
  <2>3. ASSUME NEW r \in fetched, p = Place(r) PROVE Grounds(c, s.filter, ever, p)
    <3>1. r \in Records /\ MatchesQuery([Options(s) EXCEPT !.path = s.path], r)
      BY DEF fetched, Fetched
    <3>2. Exact(c) => Matches(c, r, s.filter)
      BY <1>0, <1>1, <3>1, ExactFinds
    <3>3. s.filter = "declaration" => job.method = "definition"
      BY <1>0, <1>4, Zenon DEF Filters
    <3> QED BY <1>5, <2>3, <3>1, <3>2, <3>3 DEF Grounds
  <2>4. s.filter \in Filters \cup {"declaration"}
    BY <1>4
  <2> QED BY <1>1, <1>2, <2>1, <2>2, <2>3, <2>4 DEF cursors
<1> QED BY <1>1, <1>7, <1>8, <1>10, <1>11, <1>12 DEF Answering

\* Nothing is left to do in an empty plan.
LEMMA NothingPlanned == ASSUME NEW cursors PROVE Plan(<<>>, cursors) /\ ToSet(<<>>) = {}
<1>1. ToSet(<<>>) = {}
  BY DEF ToSet
<1>2. <<>> \in Seq(ToSet(<<>>)) /\ Len(<<>>) = 0
  OBVIOUS
<1>3. Runs(<<>>)
  BY <1>2 DEF Runs
<1> QED BY <1>1, <1>2, <1>3 DEF Plan, Orderly

\* A plan that starts needs nothing from before.
LEMMA PlanIsReady ==
    ASSUME NEW j, NEW cursors, Plan(j.todo, cursors), NEW ever
    PROVE  HeadReady(j, ever)
BY DEF Plan, Starts, HeadReady

\* The declarations are asked for if there was no definition.
LEMMA FallbackAnswers ==
    ASSUME LookupInv, job.method \in Answerable, TypeOK,
           Shaped(job), Answering(job, seen.always, seen.ever), Fallback
    PROVE  Answering(job', seen.always, seen.ever)
<1> DEFINE s == Head(job.todo)
           c == s.cursor
           tail == Tail(job.todo)
           declarations == SymbolStatements(c, "declaration")
           front == IF job.hit THEN <<>> ELSE declarations
           todo == front \o tail
           cursors == ToSet(job.cursors)
           always == seen.always
           ever == seen.ever
<1>1. job.pc = "run" /\ job.todo # <<>> /\ s.op = "fallback" /\ job' = [job EXCEPT !.todo = todo]
  BY Zenon DEF Fallback
<1>2. Orderly(job.todo, cursors) /\ Kept(job.found) /\ HeadReady(job, ever)
  BY DEF Answering
<1>3. /\ Orderly(tail, cursors) /\ ToSet(job.todo) = {s} \cup ToSet(tail) /\ Fits(s, cursors)
      /\ tail # <<>> => Follows(s, tail[1])
  BY <1>1, <1>2, RestOfPlan
<1>4. c \in cursors /\ job.method = "definition"
  BY <1>1, <1>3 DEF Fits
<1>5. s = job.todo[1]
  <2> DEFINE T == ToSet(job.todo)
  <2>1. job.todo \in Seq(T)
    BY <1>2 DEF Orderly
  <2> HIDE DEF T
  <2> QED BY <1>1, <2>1, TailElements
<1>6. Plan(tail, cursors)
  <2> HIDE DEF s, tail
  <2> QED BY <1>1, <1>3 DEF Plan, Follows, Starts
<1>7. Plan(front, cursors) /\ (~job.hit => OneAsked(declarations, c, "declaration") /\ front = declarations)
  <2>1. OneAsked(declarations, c, "declaration")
    BY <1>4, SymbolAsked
  <2>2. Plan(declarations, {c}) /\ {c} \subseteq cursors
    BY <1>4, <2>1 DEF OneAsked
  <2>3. Plan(declarations, cursors)
    BY <2>2, MoreCursors
  <2> HIDE DEF declarations
  <2>4. CASE job.hit
    <3>1. front = <<>>
      BY <2>4
    <3> QED BY <2>4, <3>1, NothingPlanned
  <2>5. CASE ~job.hit
    <3>1. front = declarations
      BY <2>5
    <3> QED BY <2>1, <2>3, <3>1
  <2> QED BY <2>4, <2>5
<1> HIDE DEF front
<1>8. Plan(todo, cursors) /\ ToSet(todo) = ToSet(front) \cup ToSet(tail)
  BY <1>6, <1>7, PlansJoined
<1> HIDE DEF todo
<1>9. /\ Shaped(job') /\ job'.cursors = job.cursors /\ job'.found = job.found /\ job'.todo = todo
  BY <1>1 DEF Shaped
<1>10. ASSUME NEW e \in ToSet(job.todo), e.op # "fallback" PROVE e \in ToSet(todo)
  BY <1>1, <1>3, <1>8, <1>10
<1>11. ASSUME NEW d, NEW filter, NEW path, Waiting(job.todo, d, filter, path)
       PROVE  Waiting(todo, d, filter, path)
  <2>1. PICK e \in ToSet(job.todo) : e.op # "fallback" /\ e.cursor = d /\ e.filter = filter /\ e.path \in {None, path}
    BY <1>11 DEF Waiting
  <2>2. e \in ToSet(todo)
    BY <1>10, <2>1
  <2> QED BY <2>1, <2>2 DEF Waiting
<1>12. HeadReady(job', ever)
  <2> DEFINE j == job'
  <2>1. Plan(j.todo, cursors)
    BY <1>8, <1>9
  <2> HIDE DEF j
  <2> QED BY <2>1, PlanIsReady DEF j
<1>13. AboveShown(job')
  <2> SUFFICES ASSUME NEW d \in cursors, NEW filter \in Filters
               PROVE  \/ \A r \in Above(d, filter) : Place(r) \in Placed(job.found)
                      \/ \E e \in ToSet(todo) : Starts(e) /\ e.cursor = d /\ e.filter = filter
    BY <1>9 DEF AboveShown
  <2>1. CASE \E e \in ToSet(job.todo) : Starts(e) /\ e.cursor = d /\ e.filter = filter
    BY <1>10, <2>1 DEF Starts
  <2> QED BY <2>1 DEF Answering, AboveShown
<1>14. KeptShown(job', always)
  <2> SUFFICES ASSUME NEW d \in cursors, Plain(d), d.variant # 0, NEW filter \in Filters, NEW r \in always,
                      Matches(d, r, filter), Above(d, filter) = {} \/ Uri(r.path) # Uri(d.path)
               PROVE  Place(r) \in Placed(job.found) \/ Waiting(todo, d, filter, r.path)
    BY <1>9 DEF KeptShown
  <2> QED BY <1>11 DEF Answering, KeptShown
<1>15. DeclarationsShown(job', always, ever)
  <2> SUFFICES ASSUME job.method = "definition", NEW d \in cursors, Exact(d), d.variant # 0,
                      ~Evidence(d, ever), NEW r \in always, Matches(d, r, "declaration"), Above(d, "declaration") = {}
               PROVE  \/ Place(r) \in Placed(job.found)
                      \/ Waiting(todo, d, "declaration", r.path)
                      \/ \E e \in ToSet(todo) : e.op = "fallback" /\ e.cursor = d
    BY <1>9 DEF DeclarationsShown
  <2>1. \/ Place(r) \in Placed(job.found)
        \/ Waiting(job.todo, d, "declaration", r.path)
        \/ \E e \in ToSet(job.todo) : e.op = "fallback" /\ e.cursor = d
    BY DEF Answering, DeclarationsShown
  <2>2. CASE \E e \in ToSet(tail) : e.op = "fallback" /\ e.cursor = d
    BY <1>8, <2>2
  <2>3. CASE d = c
    <3>1. ~job.hit
      BY <1>1, <1>2, <1>5, <2>3 DEF HeadReady
    <3>2. Asked(declarations, c, "declaration") /\ front = declarations
      BY <1>7, <3>1 DEF OneAsked
    <3> HIDE DEF declarations
    <3>3. Asked(todo, c, "declaration")
      BY <1>8, <3>2, StillAsked
    <3>4. r \in Records
      BY DEF LookupInv, Answerable
    <3>5. r.path \in RecordPaths
      BY <3>4, StoredRecords DEF RecordPaths
    <3> QED BY <2>3, <3>3, <3>5, AskedWaits
  <2> QED BY <1>3, <1>11, <2>1, <2>2, <2>3
<1>16. Founded(job', ever)
  BY <1>9 DEF Answering, Founded
<1> QED BY <1>2, <1>8, <1>9, <1>12, <1>13, <1>14, <1>15, <1>16 DEF Answering, Plan

\* With the cursors what there is to do is planned.
LEMMA PlannedAnswers ==
    ASSUME LookupInv, TypeOK, AnswerInv, job.method \in Answerable, Shaped(job), CursorInv, RecordsAt
    PROVE  IF job'.pc = "run" THEN Answering(job', seen.always, seen.ever)
           ELSE job'.todo = <<>> /\ job'.found = {}
<1> DEFINE answer == AtName(job.names[1], job.params.line + 1, job.column, job.method # "prepare")
           rows == answer.rows
           todo == StatementsFor(rows)
           tail == Tail(job.names)
           always == seen.always
           ever == seen.ever
<1>1. /\ job.pc = "at"
      /\ job' = IF rows = <<>> /\ Len(job.names) > 1 THEN [job EXCEPT !.names = tail]
                ELSE [job EXCEPT !.pc = "run", !.names = <<>>, !.cursors = rows, !.todo = todo]
  BY Zenon DEF RecordsAt
<1>2. job.todo = <<>> /\ job.found = {}
  BY <1>1 DEF AnswerInv
<1> DEFINE C == RecordsThere(job.names[1], job.params.line + 1, job.column)
<1>3. rows \in Seq(C)
  BY AtNameCovers
<1> HIDE DEF C, answer, rows, tail
<1>4. /\ Plan(todo, ToSet(rows))
      /\ \A c \in ToSet(rows), filter \in Filters : Asked(todo, c, filter)
      /\ job.method = "definition" =>
            \A c \in ToSet(rows) : \E e \in ToSet(todo) : e.op = "fallback" /\ e.cursor = c
  BY <1>3, AllAsked DEF Answerable
<1> HIDE DEF todo
<1>5. CASE job' = [job EXCEPT !.names = tail]
  <2>1. job'.pc = "at" /\ job'.todo = <<>> /\ job'.found = {}
    BY <1>1, <1>2, <1>5 DEF Shaped
  <2> QED BY <2>1
<1>6. CASE job' = [job EXCEPT !.pc = "run", !.names = <<>>, !.cursors = rows, !.todo = todo]
  <2> DEFINE j == job'
  <2>1. j.pc = "run" /\ j.todo = todo /\ j.found = {} /\ j.cursors = rows
    BY <1>2, <1>6 DEF Shaped
  <2> HIDE DEF j
  <2>2. Plan(j.todo, ToSet(j.cursors))
    BY <1>4, <2>1
  <2>3. Orderly(j.todo, ToSet(j.cursors)) /\ HeadReady(j, ever)
    BY <2>2, PlanIsReady DEF Plan
  <2>4. Kept(j.found) /\ Founded(j, ever)
    <3>1. Kept({})
      BY FS_EmptySet DEF Kept
    <3>2. Placed(j.found) = {}
      BY <2>1 DEF Placed
    <3> QED BY <2>1, <3>1, <3>2 DEF Founded
  <2>5. AboveShown(j)
    BY <1>4, <2>1 DEF AboveShown, Asked
  <2>6. KeptShown(j, always)
    <3> SUFFICES ASSUME NEW c \in ToSet(rows), NEW filter \in Filters, NEW r \in always, Matches(c, r, filter)
                 PROVE  Waiting(todo, c, filter, r.path)
      BY <2>1 DEF KeptShown
    <3>1. r \in Records
      BY DEF LookupInv, Answerable
    <3>2. r.path \in RecordPaths
      BY <3>1, StoredRecords DEF RecordPaths
    <3>3. Asked(todo, c, filter)
      BY <1>4
    <3> QED BY <3>2, <3>3, AskedWaits
  <2>7. DeclarationsShown(j, always, ever)
    BY <1>4, <2>1 DEF DeclarationsShown
  <2>8. Answering(j, always, ever)
    BY <2>3, <2>4, <2>5, <2>6, <2>7 DEF Answering
  <2> QED BY <2>1, <2>8 DEF j
<1> QED BY <1>1, <1>5, <1>6

\* If there is no position there is nothing to answer.
LEMMA LocatedAnswers ==
    ASSUME AnswerInv, job.method \in Answerable, Shaped(job), CursorInv, Locate
    PROVE  IF job'.pc = "run" THEN Answering(job', seen.always, seen.ever)
           ELSE job'.todo = <<>> /\ job'.found = {}
<1>1. PICK column, version, names :
         job' \in {[job EXCEPT !.pc = "run"],
                   [job EXCEPT !.pc = "at", !.column = column, !.version = version, !.names = names]}
  BY Zenon DEF Locate
<1>2. job.pc = "locate"
  BY DEF Locate
<1>3. job.todo = <<>> /\ job.found = {} /\ job.cursors = <<>>
  BY <1>2 DEF AnswerInv, CursorInv, Answerable
<1> DEFINE j == job'
<1>4. j.todo = <<>> /\ j.found = {} /\ j.cursors = <<>>
  BY <1>1, <1>3 DEF Shaped
<1> HIDE DEF j
<1>5. Plan(j.todo, ToSet(j.cursors)) /\ ToSet(j.cursors) = {}
  BY <1>4, NothingPlanned
<1>6. Orderly(j.todo, ToSet(j.cursors)) /\ HeadReady(j, seen.ever)
  BY <1>5, PlanIsReady DEF Plan
<1>7. Kept(j.found) /\ Founded(j, seen.ever)
  <2>1. Kept({})
    BY FS_EmptySet DEF Kept
  <2>2. Placed(j.found) = {}
    BY <1>4 DEF Placed
  <2> QED BY <1>4, <2>1, <2>2 DEF Founded
<1>8. AboveShown(j) /\ KeptShown(j, seen.always) /\ DeclarationsShown(j, seen.always, seen.ever)
  BY <1>5 DEF AboveShown, KeptShown, DeclarationsShown
<1>9. Answering(j, seen.always, seen.ever)
  BY <1>6, <1>7, <1>8 DEF Answering
<1> QED BY <1>4, <1>9 DEF j

\* What is stored for less long, or was stored at more times, asks for less.
LEMMA AnsweringLess ==
    ASSUME NEW j, NEW always, NEW ever, Answering(j, always, ever),
           NEW fewer, fewer \subseteq always, NEW more, ever \subseteq more
    PROVE  Answering(j, fewer, more)
<1>1. \A c : Evidence(c, ever) => Evidence(c, more)
  BY DEF Evidence
<1>2. \A c, filter, p : Grounds(c, filter, ever, p) => Grounds(c, filter, more, p)
  BY DEF Grounds
<1>3. HeadReady(j, more)
  BY <1>1 DEF Answering, HeadReady
<1>4. KeptShown(j, fewer)
  BY DEF Answering, KeptShown
<1>5. DeclarationsShown(j, fewer, more)
  BY <1>1 DEF Answering, DeclarationsShown
<1>6. Founded(j, more)
  BY <1>2 DEF Answering, Founded
<1> QED BY <1>3, <1>4, <1>5, <1>6 DEF Answering

\* What is asked for, and what the overlay has of it, does not depend on the rest of
\* the job.
LEMMA QuestionStays ==
    ASSUME UNCHANGED <<overlay, workspace>>, job'.method = job.method, job'.params = job.params
    PROVE  /\ \A path : Uri(path)' = Uri(path)
           /\ Filters' = Filters
           /\ \A c : (Plain(c)' <=> Plain(c)) /\ (Exact(c)' <=> Exact(c))
           /\ \A c, r, filter : Matches(c, r, filter)' <=> Matches(c, r, filter)
           /\ \A c, filter : Above(c, filter)' = Above(c, filter)
           /\ \A q, cursors : Orderly(q, cursors)' <=> Orderly(q, cursors)
<1>1. \A path : NamesOf(path)' = NamesOf(path) /\ Uri(path)' = Uri(path)
  BY NamesStay
<1>2. Filters' = Filters
  BY DEF Filters
<1>3. \A c : (Named(c)' <=> Named(c)) /\ FileOf(c)' = FileOf(c)
  BY <1>1 DEF Named, FileOf
<1>4. \A c : Plain(c)' <=> Plain(c)
  BY <1>1, <1>3 DEF Plain
<1>5. \A path : OwnNames(path)' <=> OwnNames(path)
  BY <1>1 DEF OwnNames
<1>6. \A c : Exact(c)' <=> Exact(c)
  BY <1>3, <1>4, <1>5 DEF Exact
<1>7. \A c, r, filter : Matches(c, r, filter)' <=> Matches(c, r, filter)
  BY <1>1 DEF Matches
<1>8. \A path, variant : OverlayRecords(path, variant)' = OverlayRecords(path, variant)
  BY DEF OverlayRecords, HasOverlay
<1>9. \A c, filter : Above(c, filter)' = Above(c, filter)
  BY <1>7, <1>8 DEF Above
<1>10. \A e, cursors : Asks(e, cursors)' <=> Asks(e, cursors)
  BY <1>1, <1>2, <1>3 DEF Asks
<1>11. \A q, cursors : Orderly(q, cursors)' <=> Orderly(q, cursors)
  BY <1>10 DEF Orderly, Fits
<1> QED BY <1>1, <1>2, <1>4, <1>6, <1>7, <1>9, <1>11

\* An answer on its way stays so.
LEMMA AnsweringStays ==
    ASSUME UNCHANGED <<overlay, workspace>>, job'.method = job.method, job'.params = job.params,
           Answering(job', seen'.always, seen'.ever)
    PROVE  Answering(job, seen.always, seen.ever)'
<1>1. \A path : Uri(path)' = Uri(path)
  BY QuestionStays
<1>2. Filters' = Filters
  BY QuestionStays
<1>3. \A c : (Plain(c)' <=> Plain(c)) /\ (Exact(c)' <=> Exact(c))
  BY QuestionStays
<1>4. \A c, r, filter : Matches(c, r, filter)' <=> Matches(c, r, filter)
  BY QuestionStays
<1>5. \A c, filter : Above(c, filter)' = Above(c, filter)
  BY QuestionStays
<1>6. \A c, ever : Evidence(c, ever)' <=> Evidence(c, ever)
  BY <1>4, <1>5 DEF Evidence
<1>7. \A c, filter, ever, p : Grounds(c, filter, ever, p)' <=> Grounds(c, filter, ever, p)
  BY <1>3, <1>4, <1>5 DEF Grounds
<1>8. Orderly(job.todo, ToSet(job.cursors))' /\ Kept(job.found)'
  <2>1. Orderly(job'.todo, ToSet(job'.cursors)) /\ Kept(job'.found)
    BY DEF Answering
  <2>2. \A q, cursors : Orderly(q, cursors)' <=> Orderly(q, cursors)
    BY QuestionStays
  <2> QED BY <2>1, <2>2
<1>9. HeadReady(job, seen.ever)'
  <2>1. HeadReady(job', seen'.ever)
    BY DEF Answering
  <2> QED BY <1>1, <1>3, <1>5, <1>6, <2>1 DEF HeadReady
<1>10. AboveShown(job)'
  <2>1. AboveShown(job')
    BY DEF Answering
  <2> QED BY <1>2, <1>5, <2>1 DEF AboveShown
<1>11. KeptShown(job, seen.always)'
  <2>1. KeptShown(job', seen'.always)
    BY DEF Answering
  <2> QED BY <1>1, <1>2, <1>3, <1>4, <1>5, <2>1 DEF KeptShown
<1>12. DeclarationsShown(job, seen.always, seen.ever)'
  <2>1. DeclarationsShown(job', seen'.always, seen'.ever)
    BY DEF Answering
  <2> QED BY <1>3, <1>4, <1>5, <1>6, <2>1 DEF DeclarationsShown
<1>13. Founded(job, seen.ever)'
  <2>1. Founded(job', seen'.ever)
    BY DEF Answering
  <2> QED BY <1>2, <1>7, <2>1 DEF Founded
<1> QED BY <1>8, <1>9, <1>10, <1>11, <1>12, <1>13 DEF Answering

\* Every step of a session leaves the answer on its way.
LEMMA NextAnswer == SessionInv /\ LookupInv /\ CursorInv /\ AnswerInv /\ [Next]_vars => AnswerInv'
<1> SUFFICES ASSUME SessionInv, LookupInv, CursorInv, AnswerInv, [Next]_vars, job'.method \in Answerable
             PROVE  AnswerInv'
  BY DEF AnswerInv, Answerable
<1>0. job'.method # "none" /\ job'.method \notin {"prepare", "incoming", "outgoing"}
  BY DEF Answerable
<1>1. CASE \E m \in Messages : Arrives(m)
  <2>1. job'.todo = <<>> /\ job'.found = {} /\ job'.pc \in {"calls", "locate"}
    BY <1>1 DEF Arrives
  <2> QED BY <2>1 DEF AnswerInv
<1>2. CASE Passes
  <2>1. /\ job' = job /\ UNCHANGED <<overlay, workspace>>
        /\ seen'.always \subseteq seen.always /\ seen.ever \subseteq seen'.ever
    BY <1>2 DEF Passes
  <2>2. CASE job.pc = "run"
    <3>1. Answering(job, seen.always, seen.ever)
      BY <2>1, <2>2 DEF AnswerInv
    <3>2. Answering(job', seen'.always, seen'.ever)
      BY <2>1, <3>1, AnsweringLess
    <3>3. Answering(job, seen.always, seen.ever)'
      BY <2>1, <3>2, AnsweringStays
    <3> QED BY <2>1, <2>2, <3>3 DEF AnswerInv
  <2>3. CASE job.pc # "run"
    BY <2>1, <2>3 DEF AnswerInv
  <2> QED BY <2>2, <2>3
<1>3. CASE Works
  <2>1. Shaped(job) /\ TypeOK /\ UNCHANGED <<overlay, workspace, seen>>
    BY <1>3 DEF SessionInv, JobInv, Works, worldVars
  <2>2. /\ job'.method = job.method /\ job'.params = job.params
        /\ \/ job.pc = "locate" /\ job'.pc \in {"at", "run"} /\ Locate
           \/ job.pc = "at" /\ job'.pc \in {"at", "run"} /\ RecordsAt
           \/ job.pc = "run" /\ job'.pc = "run" /\ (QuerySymbol \/ Fallback \/ QueryFunctions)
           \/ job.pc = "calls" /\ job'.pc = "run" /\ QueryHierarchy
    BY <1>0, <1>3, <2>1, StatementKeeps
  <2>3. job.method \in Answerable
    BY <2>2
  <2>4. ASSUME IF job'.pc = "run" THEN Answering(job', seen.always, seen.ever)
               ELSE job'.todo = <<>> /\ job'.found = {}
        PROVE  AnswerInv'
    <3>1. CASE job'.pc = "run"
      <4>1. Answering(job', seen'.always, seen'.ever)
        BY <2>1, <2>4, <3>1
      <4>2. Answering(job, seen.always, seen.ever)'
        BY <2>1, <2>2, <4>1, AnsweringStays
      <4> QED BY <3>1, <4>2 DEF AnswerInv
    <3>2. CASE job'.pc # "run"
      BY <2>4, <3>2 DEF AnswerInv
    <3> QED BY <3>1, <3>2
  <2>5. CASE Locate
    BY <2>1, <2>3, <2>4, <2>5, LocatedAnswers
  <2>6. CASE RecordsAt
    BY <2>1, <2>3, <2>4, <2>6, PlannedAnswers
  <2>7. CASE job.pc = "run" /\ job'.pc = "run" /\ (QuerySymbol \/ Fallback \/ QueryFunctions)
    <3>1. Answering(job, seen.always, seen.ever)
      BY <2>3, <2>7 DEF AnswerInv
    <3>2. CASE QuerySymbol
      <4>1. Brings(Head(job.todo), job')
        BY <2>1, <2>3, <2>7, <3>1, <3>2, QueryBrings
      <4>2. Answering(job', seen.always, seen.ever)
        BY <2>1, <2>3, <3>1, <4>1, QueryAnswers
      <4> QED BY <2>4, <2>7, <4>2
    <3>3. CASE Fallback
      <4>1. Answering(job', seen.always, seen.ever)
        BY <2>1, <2>3, <3>1, <3>3, FallbackAnswers
      <4> QED BY <2>4, <2>7, <4>1
    <3>4. CASE QueryFunctions
      <4>1. job.todo # <<>> /\ Head(job.todo).op = "functions"
        BY <3>4 DEF QueryFunctions
      <4>2. Orderly(job.todo, ToSet(job.cursors))
        BY <3>1 DEF Answering
      <4>3. Fits(Head(job.todo), ToSet(job.cursors))
        BY <4>1, <4>2, RestOfPlan
      <4> QED BY <4>1, <4>3 DEF Fits, Asks
    <3> QED BY <2>7, <3>2, <3>3, <3>4
  <2>8. job.pc # "calls"
    BY <2>3 DEF LookupInv, Answerable
  <2> QED BY <2>2, <2>5, <2>6, <2>7, <2>8
<1>4. CASE job'.method = "none"
  BY <1>0, <1>4
<1> QED BY <1>1, <1>2, <1>3, <1>4, StepsOfSession

\* A request that looks something up is on its way to a faithful answer.
NavigationInv == LookupInv /\ CursorInv /\ HierarchyInv /\ AnswerInv

\* At first nothing is looked up.
LEMMA NavigationStarts == Init => NavigationInv
<1> SUFFICES ASSUME Init PROVE NavigationInv
  OBVIOUS
<1>1. job.method = "none" /\ job.pc = "idle" /\ workspace = None
  BY DEF Init, Idle
<1>2. "none" \notin Answerable
  BY DEF Answerable
<1> QED BY <1>1, <1>2 DEF NavigationInv, LookupInv, CursorInv, HierarchyInv, AnswerInv

\* A request that looks something up answers from records that were in the index or
\* the overlay while it ran, and misses none that was there all the time: the records
\* at the cursor, the calls of a hierarchy and their functions, the definitions,
\* references and highlights of what the cursor is on (LspServer::definition,
\* references, documentHighlight, callHierarchy and querySymbol).
THEOREM NavigationIsFaithful == Spec => []NavigationFaithful
<1>1. Init => NavigationInv
  BY NavigationStarts
<1>2. SessionInv /\ NavigationInv /\ [Next]_vars => NavigationInv'
  BY NextLookup, NextCursor, NextHierarchy, NextAnswer DEF NavigationInv
<1>3. NavigationInv => NavigationFaithful
  <2> SUFFICES ASSUME NavigationInv, Answered
               PROVE  /\ CursorFound
                      /\ HierarchyFaithful
                      /\ job.method \in {"definition", "references", "highlight"} => AnswerComplete /\ AnswerSound
    BY DEF NavigationFaithful
  <2>1. job.pc = "run" /\ job.method # "none"
    BY DEF Answered, NavigationInv, LookupInv
  <2>2. CursorFound
    BY <2>1 DEF NavigationInv, CursorInv
  <2>3. HierarchyFaithful
    BY HierarchyIsFaithful DEF NavigationInv
  <2>4. job.method \in {"definition", "references", "highlight"} => AnswerComplete /\ AnswerSound
    BY AnswerIsFaithful DEF NavigationInv, Answerable
  <2> QED BY <2>2, <2>3, <2>4
<1> QED BY <1>1, <1>2, <1>3, SessionInvariant, PTL DEF Spec

-----------------------------------------------------------------------------
(* Columns of a line.                                                       *)

\* The bytes of a text, one character after the other.
LEMMA BytesCourse ==
    ASSUME NEW R, NEW rows \in Seq(R)
    PROVE  \E b : IsCourse(b, "bytes", 0, rows) /\ BytesOf(rows) = b[Len(rows)]
<1> DEFINE n == Len(rows)
           Body(h) == [s \in SUBSET DOMAIN rows |->
                          IF s = {} THEN 0 ELSE h[s \ {Max(s)}] + Bytes(rows[Max(s)])]
           h == CHOOSE h : h = Body(h)
<1>1. n \in Nat /\ DOMAIN rows = 1 .. n
  OBVIOUS
<1>2. \A x, r : Gather("bytes", x, r) = x + Bytes(r)
  BY DEF Gather
<1>3. ASSUME NEW f PROVE IsFold(f, "bytes", 0, rows, n) <=> f = Body(f)
  BY <1>1, <1>2, Zenon DEF IsFold
<1>4. \E f : f = Body(f)
  BY <1>1, <1>3, FoldExists
<1>5. h = Body(h)
  <2> HIDE DEF Body
  <2> QED BY <1>4, Zenon
<1>6. BytesOf(rows) = h[DOMAIN rows]
  BY Zenon DEF BytesOf, FoldLeft, MapThenFoldSet
<1> HIDE DEF h
<1>7. IsFold(h, "bytes", 0, rows, Len(rows))
  BY <1>3, <1>5
<1> QED BY <1>6, <1>7, FoldCourse

\* Its UTF-16 units.
LEMMA UnitsCourse ==
    ASSUME NEW R, NEW rows \in Seq(R)
    PROVE  \E b : IsCourse(b, "units", 0, rows) /\ UnitsOf(rows) = b[Len(rows)]
<1> DEFINE n == Len(rows)
           Body(h) == [s \in SUBSET DOMAIN rows |->
                          IF s = {} THEN 0 ELSE h[s \ {Max(s)}] + Units(rows[Max(s)])]
           h == CHOOSE h : h = Body(h)
<1>1. n \in Nat /\ DOMAIN rows = 1 .. n
  OBVIOUS
<1>2. \A x, r : Gather("units", x, r) = x + Units(r)
  BY DEF Gather
<1>3. ASSUME NEW f PROVE IsFold(f, "units", 0, rows, n) <=> f = Body(f)
  BY <1>1, <1>2, Zenon DEF IsFold
<1>4. \E f : f = Body(f)
  BY <1>1, <1>3, FoldExists
<1>5. h = Body(h)
  <2> HIDE DEF Body
  <2> QED BY <1>4, Zenon
<1>6. UnitsOf(rows) = h[DOMAIN rows]
  BY Zenon DEF UnitsOf, FoldLeft, MapThenFoldSet
<1> HIDE DEF h
<1>7. IsFold(h, "units", 0, rows, Len(rows))
  BY <1>3, <1>5
<1> QED BY <1>6, <1>7, FoldCourse

\* A byte that is part of no character, and the characters by their bytes.
Chars == Broken .. 4

\* Each character adds to the bytes and to the units before it.
LEMMA MeasureGrows ==
    ASSUME NEW op \in {"bytes", "units"}, NEW text \in Seq(Chars), NEW b, IsCourse(b, op, 0, text)
    PROVE  \A j \in 0 .. Len(text) : b[j] \in Nat /\ \A i \in 0 .. Len(text) : i < j => b[i] < b[j]
<1> DEFINE n == Len(text)
           Good(k) == b[k] \in Nat /\ \A i \in 0 .. n : i < k => b[i] \in Nat /\ b[i] < b[k]
           T == {k \in Nat : k <= n => Good(k)}
<1>1. n \in Nat
  OBVIOUS
<1>2. 0 \in T
  BY DEF IsCourse
<1>3. ASSUME NEW k \in Nat, k \in T PROVE k + 1 \in T
  <2> SUFFICES ASSUME k + 1 <= n PROVE Good(k + 1)
    OBVIOUS
  <2>1. Good(k) /\ k + 1 \in 1 .. n /\ (k + 1) - 1 = k
    BY <1>1, <1>3
  <2>2. text[k + 1] \in Chars
    BY <2>1
  <2> DEFINE r == text[k + 1]
  <2>3. Bytes(r) \in Nat \ {0} /\ Units(r) \in Nat \ {0}
    BY <2>2 DEF Bytes, Units, Chars, Broken
  <2>4. b[k + 1] = Gather(op, b[k], r)
    BY <2>1 DEF IsCourse
  <2>5. b[k + 1] = b[k] + (IF op = "bytes" THEN Bytes(r) ELSE Units(r))
    BY <2>4 DEF Gather
  <2> HIDE DEF r
  <2>6. b[k + 1] \in Nat /\ b[k] < b[k + 1]
    BY <2>1, <2>3, <2>5
  <2>7. ASSUME NEW i \in 0 .. n, i < k + 1 PROVE b[i] \in Nat /\ b[i] < b[k + 1]
    <3>1. CASE i = k
      BY <2>1, <2>6, <3>1
    <3>2. CASE i < k
      BY <2>1, <2>6, <3>2
    <3> QED BY <2>7, <3>1, <3>2
  <2> QED BY <2>6, <2>7
<1>4. Nat \subseteq T
  <2> HIDE DEF T
  <2> QED BY <1>2, <1>3, Induction
<1> QED BY <1>4

\* A part of a text is measured like the whole.
LEMMA PartsCoincide ==
    ASSUME NEW op \in {"bytes", "units"}, NEW text \in Seq(Chars), NEW b, IsCourse(b, op, 0, text),
           NEW m \in 0 .. Len(text), NEW c, IsCourse(c, op, 0, SubSeq(text, 1, m))
    PROVE  c[m] = b[m]
<1> DEFINE part == SubSeq(text, 1, m)
           T == {k \in Nat : k <= m => c[k] = b[k]}
<1>1. Len(text) \in Nat /\ Len(part) = m /\ \A k \in 1 .. m : part[k] = text[k]
  OBVIOUS
<1>2. 0 \in T
  BY DEF IsCourse
<1>3. ASSUME NEW k \in Nat, k \in T PROVE k + 1 \in T
  <2> SUFFICES ASSUME k + 1 <= m PROVE c[k + 1] = b[k + 1]
    OBVIOUS
  <2>1. c[k] = b[k] /\ k + 1 \in 1 .. m /\ k + 1 \in 1 .. Len(text) /\ (k + 1) - 1 = k
    BY <1>1, <1>3
  <2> HIDE DEF part
  <2>2. c[k + 1] = Gather(op, c[k], part[k + 1])
    BY <1>1, <2>1 DEF IsCourse, part
  <2>3. b[k + 1] = Gather(op, b[k], text[k + 1])
    BY <2>1 DEF IsCourse
  <2>4. part[k + 1] = text[k + 1]
    BY <1>1, <2>1
  <2> QED BY <2>1, <2>2, <2>3, <2>4
<1>4. Nat \subseteq T
  <2> HIDE DEF T
  <2> QED BY <1>2, <1>3, Induction
<1> QED BY <1>4

\* The longer the part of a line, the more bytes and units it has.
LEMMA TextGrows ==
    ASSUME NEW text \in Seq(Chars)
    PROVE  /\ \A i \in 0 .. Len(text) : BytesOf(SubSeq(text, 1, i)) \in Nat /\ UnitsOf(SubSeq(text, 1, i)) \in Nat
           /\ \A i, j \in 0 .. Len(text) : i < j =>
                 /\ BytesOf(SubSeq(text, 1, i)) < BytesOf(SubSeq(text, 1, j))
                 /\ UnitsOf(SubSeq(text, 1, i)) < UnitsOf(SubSeq(text, 1, j))
<1>1. PICK b : IsCourse(b, "bytes", 0, text)
  BY BytesCourse
<1>2. PICK u : IsCourse(u, "units", 0, text)
  BY UnitsCourse
<1>3. ASSUME NEW i \in 0 .. Len(text)
      PROVE  BytesOf(SubSeq(text, 1, i)) = b[i] /\ UnitsOf(SubSeq(text, 1, i)) = u[i]
  <2> DEFINE part == SubSeq(text, 1, i)
  <2>1. part \in Seq(Chars) /\ Len(part) = i
    OBVIOUS
  <2> HIDE DEF part
  <2>2. PICK c : IsCourse(c, "bytes", 0, part) /\ BytesOf(part) = c[Len(part)]
    BY <2>1, BytesCourse
  <2>3. PICK v : IsCourse(v, "units", 0, part) /\ UnitsOf(part) = v[Len(part)]
    BY <2>1, UnitsCourse
  <2>4. c[i] = b[i]
    BY <1>1, <2>2, PartsCoincide DEF part
  <2>5. v[i] = u[i]
    BY <1>2, <2>3, PartsCoincide DEF part
  <2> QED BY <2>1, <2>2, <2>3, <2>4, <2>5 DEF part
<1>4. \A j \in 0 .. Len(text) : b[j] \in Nat /\ \A i \in 0 .. Len(text) : i < j => b[i] < b[j]
  BY <1>1, MeasureGrows
<1>5. \A j \in 0 .. Len(text) : u[j] \in Nat /\ \A i \in 0 .. Len(text) : i < j => u[i] < u[j]
  BY <1>2, MeasureGrows
<1> QED BY <1>3, <1>4, <1>5

\* Where the first bytes of a line end at a character, they have as many units as it.
LEMMA WholeCharacters ==
    ASSUME NEW text \in Seq(Chars), NEW i \in 0 .. Len(text), Decodes(SubSeq(text, 1, i))
    PROVE  Utf16Length(text, BytesOf(SubSeq(text, 1, i))) = UnitsOf(SubSeq(text, 1, i))
<1> DEFINE n == Len(text)
           B(k) == BytesOf(SubSeq(text, 1, k))
           p == SubSeq(text, 1, i)
           bytes == BytesOf(p)
           size == Min({bytes, BytesOf(text)})
           whole == {x \in PrefixesOf(text) : Decodes(x) /\ BytesOf(x) = size}
           chosen == CHOOSE x \in whole : TRUE
<1>1. n \in Nat /\ SubSeq(text, 1, n) = text /\ i <= n
  OBVIOUS
<1>2. /\ \A k \in 0 .. n : B(k) \in Nat
      /\ \A k, m \in 0 .. n : k < m => B(k) < B(m)
  BY TextGrows
<1>3. bytes = B(i) /\ BytesOf(text) = B(n)
  BY <1>1
<1> HIDE DEF B
<1>4. bytes \in Nat /\ BytesOf(text) \in Nat /\ bytes <= BytesOf(text)
  BY <1>1, <1>2, <1>3
<1>5. size = bytes
  <2> DEFINE S == {bytes, BytesOf(text)}
             Smallest(x) == \A y \in S : x <= y
  <2>1. Min(S) = CHOOSE x \in S : Smallest(x)
    BY Zenon DEF Min
  <2>2. bytes \in S /\ Smallest(bytes) /\ \A x \in S : Smallest(x) => x = bytes
    BY <1>4
  <2> HIDE DEF Smallest, S
  <2>3. (CHOOSE x \in S : Smallest(x)) = bytes
    BY <2>2
  <2> QED BY <2>1, <2>3 DEF S
<1>6. p \in whole
  BY <1>1, <1>5 DEF PrefixesOf
<1>7. chosen \in whole
  <2> HIDE DEF whole
  <2> QED BY <1>6
<1>8. PICK k \in 0 .. n : chosen = SubSeq(text, 1, k) /\ B(k) = B(i)
  BY <1>3, <1>5, <1>7 DEF PrefixesOf, B
<1>9. k = i
  BY <1>1, <1>2, <1>8
<1>10. Utf16Length(text, bytes) = IF whole = {} THEN size ELSE UnitsOf(chosen)
  BY Zenon DEF Utf16Length
<1>11. UnitsOf(chosen) = UnitsOf(p)
  BY <1>8, <1>9
<1> HIDE DEF whole, chosen, p, size
<1> QED BY <1>6, <1>10, <1>11 DEF p

\* The cursor is in the span of a name that stands where the record at it says.
LEMMA CursorInSpan ==
    ASSUME NEW text \in Seq(Chars), NEW before \in PrefixesOf(text),
           NEW r, r.column \in Nat, LeafLength(r.symbol) \in Nat, StandsIn(r, text),
           NEW column, column = BytesOf(before) + 1,
           r.column <= column, column - r.column < LeafLength(r.symbol)
    PROVE  LET start == Utf16Length(text, r.column - 1)
           IN start <= UnitsOf(before) /\ UnitsOf(before) < start + LeafUnits(r.symbol)
<1> DEFINE n == Len(text)
           B(k) == BytesOf(SubSeq(text, 1, k))
           U(k) == UnitsOf(SubSeq(text, 1, k))
<1>1. PICK i \in 0 .. n : before = SubSeq(text, 1, i)
  BY DEF PrefixesOf
<1>2. PICK p, q \in PrefixesOf(text) :
         /\ Decodes(q)
         /\ BytesOf(p) = r.column - 1 /\ BytesOf(q) = BytesOf(p) + LeafLength(r.symbol)
         /\ UnitsOf(q) = UnitsOf(p) + LeafUnits(r.symbol)
  BY DEF StandsIn
<1>3. PICK j, k \in 0 .. n : p = SubSeq(text, 1, j) /\ q = SubSeq(text, 1, k)
  BY DEF PrefixesOf
<1>4. /\ B(i) = BytesOf(before) /\ U(i) = UnitsOf(before)
      /\ B(j) = r.column - 1 /\ B(k) = B(j) + LeafLength(r.symbol) /\ U(k) = U(j) + LeafUnits(r.symbol)
  BY <1>1, <1>2, <1>3
<1>5. /\ \A x \in 0 .. n : B(x) \in Nat /\ U(x) \in Nat
      /\ \A x, y \in 0 .. n : x < y => B(x) < B(y) /\ U(x) < U(y)
  BY TextGrows
<1>6. Utf16Length(text, B(j)) = U(j) \/ ~(j <= k)
  <2> SUFFICES ASSUME j <= k PROVE Utf16Length(text, B(j)) = U(j)
    OBVIOUS
  <2>1. \A x \in 1 .. j : x \in 1 .. k /\ SubSeq(text, 1, j)[x] = SubSeq(text, 1, k)[x]
    OBVIOUS
  <2>2. ToSet(SubSeq(text, 1, j)) \subseteq ToSet(SubSeq(text, 1, k))
    <3>1. DOMAIN SubSeq(text, 1, j) = 1 .. j /\ DOMAIN SubSeq(text, 1, k) = 1 .. k
      OBVIOUS
    <3> QED BY <2>1, <3>1 DEF ToSet
  <2>3. Decodes(SubSeq(text, 1, j))
    BY <1>2, <1>3, <2>2 DEF Decodes
  <2> QED BY <2>3, WholeCharacters
<1> HIDE DEF B, U, n
<1>7. n \in Nat
  BY DEF n
<1>8. B(j) <= B(i) /\ B(i) < B(k)
  BY <1>1, <1>3, <1>4, <1>5
<1>9. j <= i /\ i < k
  <2>1. i \in Int /\ j \in Int /\ k \in Int
    BY <1>7
  <2>2. B(i) \in Int /\ B(j) \in Int /\ B(k) \in Int
    BY <1>5
  <2>3. ~(i < j)
    <3>1. i < j => B(i) < B(j)
      BY <1>5
    <3> QED BY <1>8, <2>2, <3>1
  <2>4. i # k /\ ~(k < i)
    <3>1. k < i => B(k) < B(i)
      BY <1>5
    <3> QED BY <1>8, <2>2, <3>1
  <2> QED BY <2>1, <2>3, <2>4
<1>10. U(j) <= U(i) /\ U(i) < U(k)
  <2>1. i < k => U(i) < U(k)
    BY <1>5
  <2>2. j < i => U(j) < U(i)
    BY <1>5
  <2>3. U(i) \in Int /\ U(j) \in Int /\ i \in Int /\ j \in Int
    BY <1>5, <1>7
  <2>4. j = i \/ j < i
    BY <1>9, <2>3
  <2> QED BY <1>9, <2>1, <2>2, <2>3, <2>4
<1>11. Utf16Length(text, r.column - 1) = U(j)
  BY <1>4, <1>6, <1>7, <1>9
<1> QED BY <1>4, <1>10, <1>11

-----------------------------------------------------------------------------
(* The spans of highlights.                                                 *)

\* A highlight's span is that of a record at its place, in one version of the file.
Spans(l, version, symbols) ==
    \E r : /\ r.symbol \in symbols /\ Place(r) = Place(l)
           /\ l.span = Span(r, [path |-> job.params.path, version |-> version])

\* So are they all, and the version is at hand for the next.
Spanned(j, version, symbols) ==
    /\ j.cached \in {None, [path |-> job.params.path, version |-> version]}
    /\ \A l \in j.found : Spans(l, version, symbols)

\* A record brings its own span.
LEMMA OneSpanned ==
    ASSUME NEW j, Shaped(j), Kept(j.found), NEW version, OnDisk(job.params.path) = version,
           NEW symbols, Spanned(j, version, symbols), NEW r, Uri(r.path) = job.params.path, r.symbol \in symbols
    PROVE  Spanned(CollectHighlight(j, r), version, symbols)
<1> DEFINE g == CollectHighlight(j, r)
           lines == [path |-> job.params.path, version |-> version]
           cached == Cached(j.cached, Uri(r.path))
           kind == HighlightKind(r)
           new == Location(r, cached, kind)
           Stronger(l) == Place(r) = [path |-> l.path, line |-> l.line, column |-> l.column] /\ kind > l.kind
           F(l) == IF Stronger(l) THEN [l EXCEPT !.kind = kind] ELSE l
<1>1. CASE Excluded(j, r)
  <2>1. g = j
    BY <1>1, Zenon DEF CollectHighlight
  <2> QED BY <2>1
<1>2. CASE ~Excluded(j, r) /\ Place(r) \in Placed(j.found)
  <2> DEFINE found == {F(l) : l \in j.found}
  <2>1. g = [j EXCEPT !.found = found]
    BY <1>2, Zenon DEF CollectHighlight
  <2>2. ASSUME NEW l \in j.found PROVE Spans(F(l), version, symbols)
    <3>1. Spans(l, version, symbols) /\ LocationShaped(l)
      BY DEF Spanned, Kept
    <3>2. F(l) = l \/ F(l) = [l EXCEPT !.kind = kind]
      BY Zenon
    <3> DEFINE k == F(l)
    <3> HIDE DEF F, kind, k
    <3>3. k = l \/ k = [l EXCEPT !.kind = kind]
      BY <3>2, Zenon DEF k
    <3>4. Place(k) = Place(l) /\ k.span = l.span
      BY <3>1, <3>3 DEF LocationShaped, Place
    <3>5. Spans(k, version, symbols)
      BY <3>1, <3>4, Zenon DEF Spans
    <3> QED BY <3>5, Zenon DEF k
  <2>3. \A l \in found : Spans(l, version, symbols)
    <3> HIDE DEF F
    <3> QED BY <2>2
  <2> HIDE DEF found, g
  <2>4. g.found = found /\ g.cached = j.cached
    BY <2>1 DEF Shaped
  <2>5. Spanned(g, version, symbols)
    BY <2>3, <2>4 DEF Spanned
  <2> QED BY <2>5 DEF g
<1>3. CASE ~Excluded(j, r) /\ Place(r) \notin Placed(j.found)
  <2> DEFINE found == j.found \cup {new}
  <2>1. g = [j EXCEPT !.cached = cached, !.found = found]
    BY <1>3, Zenon DEF CollectHighlight
  <2>2. cached = lines
    <3>1. j.cached \in {None, lines}
      BY DEF Spanned
    <3>2. cached = IF j.cached # None /\ j.cached.path = job.params.path THEN j.cached ELSE lines
      BY Zenon DEF Cached
    <3> QED BY <3>1, <3>2, Zenon
  <2>3. Spans(new, version, symbols)
    <3>1. Place(new) = Place(r) /\ new.span = Span(r, cached)
      BY DEF Location, Place
    <3> HIDE DEF new, cached
    <3> QED BY <2>2, <3>1, Zenon DEF Spans
  <2> HIDE DEF new, cached, g
  <2>4. \A l \in found : Spans(l, version, symbols)
    BY <2>3 DEF Spanned
  <2> HIDE DEF found, lines
  <2>5. g.found = found /\ g.cached = cached
    BY <2>1 DEF Shaped
  <2>6. g.cached \in {None, lines}
    BY <2>2, <2>5
  <2>7. Spanned(g, version, symbols)
    BY <2>4, <2>5, <2>6 DEF Spanned, lines
  <2> QED BY <2>7 DEF g
<1> QED BY <1>1, <1>2, <1>3

\* So do the records of an answer.
LEMMA AllSpanned ==
    ASSUME NEW j, Shaped(j), Kept(j.found), NEW version, OnDisk(job.params.path) = version,
           NEW symbols, Spanned(j, version, symbols), NEW R, NEW rows \in Seq(R),
           \A r \in ToSet(rows) : Uri(r.path) = job.params.path /\ r.symbol \in symbols
    PROVE  Spanned(Collect("highlight", j, rows), version, symbols)
<1>1. PICK b : IsCourse(b, "highlight", j, rows) /\ FoldLeft(CollectHighlight, j, rows) = b[Len(rows)]
  BY HighlightCourse
<1> DEFINE Good(k) == Shaped(b[k]) /\ Kept(b[k].found) /\ Spanned(b[k], version, symbols)
           T == {k \in Nat : k <= Len(rows) => Good(k)}
<1>2. 0 \in T
  <2>1. b[0] = j
    BY <1>1, Zenon DEF IsCourse
  <2>2. Good(0)
    BY <2>1, Zenon
  <2> QED BY <2>2
<1>3. ASSUME NEW k \in Nat, k \in T PROVE k + 1 \in T
  <2> SUFFICES ASSUME k + 1 <= Len(rows) PROVE Good(k + 1)
    OBVIOUS
  <2>1. Good(k) /\ k + 1 \in 1 .. Len(rows) /\ (k + 1) - 1 = k
    BY <1>3
  <2> DEFINE x == b[k]
             y == b[k + 1]
             r == rows[k + 1]
  <2>2. y = Gather("highlight", x, r)
    BY <1>1, <2>1 DEF IsCourse
  <2>3. y = CollectHighlight(x, r)
    BY <2>2 DEF Gather
  <2>4. r \in ToSet(rows)
    BY <2>1 DEF ToSet
  <2>5. Shaped(x) /\ Kept(x.found) /\ Spanned(x, version, symbols)
    BY <2>1
  <2> HIDE DEF x, y, r
  <2>6. IsCollected(y, x, r)
    BY <2>3, <2>5, CollectOne
  <2>7. Spanned(y, version, symbols)
    BY <2>3, <2>4, <2>5, OneSpanned
  <2> QED BY <2>6, <2>7 DEF IsCollected, y
<1>4. Nat \subseteq T
  <2> HIDE DEF T
  <2> QED BY <1>2, <1>3, Induction
<1>5. Good(Len(rows))
  BY <1>4
<1> DEFINE g == FoldLeft(CollectHighlight, j, rows)
           c == Collect("highlight", j, rows)
<1>6. c = [j EXCEPT !.hit = g.hit, !.cached = g.cached, !.found = g.found]
  BY Zenon DEF Collect, Gathered
<1>7. Spanned(g, version, symbols)
  BY <1>1, <1>5, Zenon
<1> HIDE DEF g, c
<1>8. c.cached = g.cached /\ c.found = g.found
  BY <1>6 DEF Shaped
<1>9. Spanned(c, version, symbols)
  BY <1>7, <1>8, Zenon DEF Spanned
<1> QED BY <1>9 DEF c

\* The symbols at the cursor.
SymbolsAt(cursors) == {c.symbol : c \in ToSet(cursors)}

\* A statement of the request brings the spans of its records, if their file has not
\* changed since the position was looked up.
LEMMA QuerySpanned ==
    ASSUME TypeOK, LookupInv, CursorInv, job.method = "highlight", job.pc = "run",
           Shaped(job), Answering(job, seen.always, seen.ever), QuerySymbol,
           NEW version, OnDisk(job.params.path) = version,
           OwnNames(job.params.path), \A c \in ToSet(job.cursors) : Plain(c),
           Spanned(job, version, SymbolsAt(job.cursors))
    PROVE  Spanned(job', version, SymbolsAt(job.cursors))
<1> DEFINE s == Head(job.todo)
           c == s.cursor
           symbols == SymbolsAt(job.cursors)
           overlaid == IF HasOverlay(c.path) THEN OverlayQuery(c.path, c.variant, Options(s)) ELSE <<>>
           q == [Options(s) EXCEPT !.path = s.path]
           rows == Query(edition, q).rows
           todo == Tail(job.todo)
           before == IF s.first THEN AfterOverlay(s) ELSE [job EXCEPT !.todo = todo]
<1>1. Asks(s, CursorRecords) /\ c \in ToSet(job.cursors) /\ job.method \in {"definition", "references", "highlight"}
  BY QueryBrings DEF Brings, Answerable
<1>2. s.op = "highlight"
  BY <1>1 DEF Asks
<1>3. job' = Collect(s.op, before, rows)
  BY Zenon DEF QuerySymbol
<1>4. Exact(c) /\ c.symbol \in symbols
  BY <1>1 DEF Exact, FileOf, SymbolsAt
<1>5. Uri(job.params.path) = job.params.path
  <2>1. job.params.path \in NormalPaths
    BY DEF LookupInv
  <2>2. job.params.path.abs = TRUE
    BY <2>1 DEF NormalPaths
  <2> QED BY <2>2 DEF Uri, Resolve
<1>6. ASSUME NEW r, Matches(c, r, s.filter) PROVE Uri(r.path) = job.params.path /\ r.symbol \in symbols
  <2>1. r.symbol = c.symbol /\ Uri(r.path) = Uri(job.params.path)
    BY <1>6 DEF Matches
  <2> QED BY <1>4, <1>5, <2>1
<1>7. /\ overlaid \in Seq(AnyRecord)
      /\ \A r \in ToSet(overlaid) : Uri(r.path) = job.params.path /\ r.symbol \in symbols
  <2>1. overlaid \in Seq(AnyRecord) /\ ToSet(overlaid) = Above(c, s.filter)
    BY <1>1, OverlayRows
  <2> HIDE DEF overlaid, symbols
  <2> QED BY <1>6, <2>1 DEF Above
<1>8. rows \in Seq(AnyRecord) /\ \A r \in ToSet(rows) : Uri(r.path) = job.params.path /\ r.symbol \in symbols
  <2>1. rows \in Seq(AnyRecord) /\ ToSet(rows) = {r \in Records : MatchesQuery(q, r)}
    BY StoredRows
  <2>2. \A r \in Records : MatchesQuery(q, r) => Matches(c, r, s.filter)
    BY <1>1, <1>4, ExactFinds
  <2> HIDE DEF rows, symbols, q
  <2> QED BY <1>6, <2>1, <2>2
<1> HIDE DEF overlaid, rows, symbols, q
<1>9. Kept(job.found)
  BY DEF Answering
<1>10. Shaped(before) /\ Kept(before.found) /\ Spanned(before, version, symbols)
  <2>1. CASE s.first
    <3> DEFINE hit == IF s.filter = "definition" THEN FALSE ELSE job.hit
               reset == [job EXCEPT !.todo = todo, !.excluded = None, !.hit = hit]
               collected == Collect("highlight", reset, overlaid)
    <3>1. PICK excluded : AfterOverlay(s) = [collected EXCEPT !.excluded = excluded]
      BY <1>2, Zenon DEF AfterOverlay, overlaid
    <3>2. Alike(AfterOverlay(s), job) /\ Kept(AfterOverlay(s).found)
      BY <1>1, <1>9, AskedAbove
    <3> HIDE DEF hit, todo
    <3>3. Shaped(reset) /\ reset.found = job.found /\ reset.cached = job.cached
      <4> DEFINE first == [job EXCEPT !.todo = todo]
                 second == [first EXCEPT !.excluded = None]
                 Same(j) == Shaped(j) /\ j.found = job.found /\ j.cached = job.cached
      <4>1. Same(first)
        BY DEF Shaped
      <4>2. reset = [second EXCEPT !.hit = hit]
        OBVIOUS
      <4> HIDE DEF first
      <4>3. Same(second)
        BY <4>1 DEF Shaped
      <4> HIDE DEF second, reset
      <4> QED BY <4>2, <4>3 DEF Shaped
    <3> HIDE DEF reset
    <3>4. Kept(reset.found) /\ Spanned(reset, version, symbols)
      BY <1>9, <3>3 DEF Spanned, symbols
    <3>5. Spanned(collected, version, symbols)
      BY <1>7, <3>3, <3>4, AllSpanned
    <3>6. Shaped(collected)
      BY <3>3, CollectParams
    <3> HIDE DEF collected
    <3> DEFINE after == AfterOverlay(s)
    <3>7. after = [collected EXCEPT !.excluded = excluded]
      BY <3>1
    <3> HIDE DEF after
    <3>8. after.found = collected.found /\ after.cached = collected.cached
      BY <3>6, <3>7 DEF Shaped
    <3>9. Spanned(after, version, symbols)
      BY <3>5, <3>8, Zenon DEF Spanned
    <3>10. before = after
      BY <2>1 DEF after
    <3> HIDE DEF before
    <3> QED BY <3>2, <3>9, <3>10 DEF Alike, after
  <2>2. CASE ~s.first
    <3>1. before = [job EXCEPT !.todo = todo]
      BY <2>2
    <3> HIDE DEF before, todo
    <3>2. Shaped(before) /\ before.found = job.found /\ before.cached = job.cached
      BY <3>1 DEF Shaped
    <3>3. Spanned(before, version, symbols)
      BY <3>2, Zenon DEF Spanned, symbols
    <3> QED BY <1>9, <3>2, <3>3
  <2> QED BY <2>1, <2>2
<1> HIDE DEF before
<1>11. Spanned(Collect("highlight", before, rows), version, symbols)
  BY <1>8, <1>10, AllSpanned
<1> QED BY <1>2, <1>3, <1>11 DEF symbols

\* A file on disk is edited into a later version, or removed for good.
LEMMA DiskGrows ==
    ASSUME SessionInv, [Next]_vars, NEW path
    PROVE  LET now == OnDisk(path)'
               old == OnDisk(path)
           IN /\ old \in 0 .. MaxVersion /\ now \in 0 .. MaxVersion
              /\ now = old \/ (old # 0 /\ (now = 0 \/ now > old))
<1>0. SessionInv'
  BY NextSession
<1>1. OnDisk(path) \in 0 .. MaxVersion /\ OnDisk(path)' \in 0 .. MaxVersion
  BY <1>0, BoundsAssumption DEF SessionInv, TypeOK, OnDisk
<1>2. CASE disk' = disk
  <2>1. OnDisk(path)' = OnDisk(path)
    BY <1>2 DEF OnDisk
  <2> QED BY <1>1, <2>1
<1>3. CASE \E file \in SourceFiles : EditFile(file)
  <2>1. PICK file \in SourceFiles : EditFile(file)
    BY <1>3
  <2>2. PICK version \in {0} \cup (disk[file] + 1 .. MaxVersion) : disk' = [disk EXCEPT ![file] = version]
    BY <2>1 DEF EditFile
  <2>3. disk[file] # 0 /\ disk \in [SourceFiles -> 0 .. MaxVersion]
    BY <2>1 DEF EditFile, SessionInv, TypeOK
  <2>4. CASE path = file
    <3>1. OnDisk(path)' = version /\ OnDisk(path) = disk[file]
      BY <2>2, <2>3, <2>4 DEF OnDisk
    <3>2. disk[file] \in 0 .. MaxVersion
      BY <2>3
    <3>3. version = 0 \/ version > disk[file]
      BY <2>2, <3>2, BoundsAssumption
    <3> QED BY <1>1, <2>3, <3>1, <3>3
  <2>5. CASE path # file
    <3>1. OnDisk(path)' = OnDisk(path)
      BY <2>2, <2>3, <2>5 DEF OnDisk
    <3> QED BY <1>1, <3>1
  <2> QED BY <2>4, <2>5
<1>4. disk' = disk \/ \E file \in SourceFiles : EditFile(file)
  <2>1. CASE UNCHANGED vars
    BY <2>1 DEF vars, worldVars
  <2>2. ASSUME NEW m \in Messages,
               \/ Refuse(m) \/ Pass(m) \/ Initialize(m) \/ Shutdown(m)
               \/ Exit(m) \/ DidSave(m) \/ LookUp(m)
        PROVE  disk' = disk
    BY <2>2, Zenon DEF Refuse, Pass, Initialize, Shutdown, Exit, DidSave, LookUp, worldVars
  <2>3. CASE Reply
    BY <2>3, Zenon DEF Reply, worldVars
  <2>4. CASE EndOfInput
    BY <2>4, Zenon DEF EndOfInput, worldVars
  <2>5. CASE Work
    BY <2>5, Zenon DEF Work, NavigationStep, Locate, RecordsAt, QuerySymbol, Fallback, QueryHierarchy,
                       QueryFunctions, StatementFails, worldVars
  <2>6. CASE Environment
    BY <2>6, Zenon DEF Environment, OtherStore
  <2> QED BY <2>1, <2>2, <2>3, <2>4, <2>5, <2>6 DEF Next
<1> QED BY <1>2, <1>3, <1>4

\* The column was found in a version of the file that is still there, or is gone.
Located ==
    LET at == job.params
        lines == Lines(at.path, job.version)
    IN /\ at.path \in SourceFiles /\ job.version \in 1 .. MaxVersion
       /\ OnDisk(at.path) = 0 \/ OnDisk(at.path) >= job.version
       /\ at.line < Len(lines)
       /\ \E before \in PrefixesOf(lines[at.line + 1]) :
             UnitsOf(before) = at.character /\ job.column = BytesOf(before) + 1

\* The highlights collected so far have the spans of records of symbols at the cursor,
\* in the version the cursor was looked up in.
SpanInv ==
    job.method = "highlight" =>
        /\ job.pc # "run" => job.cached = None
        /\ job.column # 0 => Located
        /\ job.pc = "run" /\ job.column # 0 /\ OnDisk(job.params.path) = job.version
              /\ OwnNames(job.params.path) /\ (\A c \in ToSet(job.cursors) : Plain(c)) =>
              Spanned(job, job.version, SymbolsAt(job.cursors))

\* Where the position is in the file, its column is found there.
LEMMA LocateFinds ==
    ASSUME TypeOK, Shaped(job), job.column = 0, Locate,
           job.params.line \in Nat, job.params.character \in Nat
    PROVE  /\ job'.cached = job.cached
           /\ \/ job'.pc = "run" /\ job'.column = 0
              \/ job'.pc = "at" /\ (job'.params = job.params /\ disk' = disk => Located')
<1> DEFINE at == job.params
           column == ByteColumn(at.path, at.line, at.character)
           names == NamesOf(at.path)
           version == OnDisk(at.path)
           text == IF version = 0 THEN <<>> ELSE Lines(at.path, version)
           offset == ByteOffset(text[at.line + 1], at.character)
           before == {p \in PrefixesOf(text[at.line + 1]) : Decodes(p) /\ UnitsOf(p) = at.character}
           p0 == CHOOSE p \in before : TRUE
<1>1. job' = IF column = NoColumn THEN [job EXCEPT !.pc = "run"]
             ELSE [job EXCEPT !.pc = "at", !.column = column, !.version = version, !.names = names]
  BY Zenon DEF Locate
<1>2. column = IF at.line >= Len(text) THEN NoColumn ELSE IF offset = NoColumn THEN NoColumn ELSE offset + 1
  BY Zenon DEF ByteColumn
<1>3. offset = IF before = {} THEN NoColumn ELSE BytesOf(p0)
  BY Zenon DEF ByteOffset
<1>4. version \in 0 .. MaxVersion /\ (version # 0 => at.path \in SourceFiles)
  BY BoundsAssumption DEF TypeOK, OnDisk
<1>5. version = 0 => Len(text) = 0
  OBVIOUS
<1>6. before # {} => p0 \in before
  OBVIOUS
<1>7. \A p \in before : p \in PrefixesOf(text[at.line + 1]) /\ UnitsOf(p) = at.character
  OBVIOUS
<1>8. version # 0 => text = Lines(at.path, version)
  OBVIOUS
<1> HIDE DEF column, names, version, text, offset, before, p0
<1>9. CASE column = NoColumn
  <2>1. job' = [job EXCEPT !.pc = "run"]
    BY <1>1, <1>9
  <2> QED BY <2>1 DEF Shaped
<1>10. CASE column # NoColumn
  <2>1. ~(at.line >= Len(text)) /\ offset # NoColumn /\ column = offset + 1
    BY <1>2, <1>10
  <2>2. before # {} /\ offset = BytesOf(p0)
    BY <1>3, <2>1
  <2>3. p0 \in PrefixesOf(text[at.line + 1]) /\ UnitsOf(p0) = at.character /\ column = BytesOf(p0) + 1
    BY <1>6, <1>7, <2>1, <2>2
  <2>4. version # 0
    BY <1>5, <2>1
  <2>5. Len(Lines(at.path, version)) \in Nat
    BY <1>4, <2>4, TextAssumption
  <2>6. at.line < Len(Lines(at.path, version))
    BY <1>8, <2>1, <2>4, <2>5
  <2>7. job' = [job EXCEPT !.pc = "at", !.column = column, !.version = version, !.names = names]
    BY <1>1, <1>10
  <2>8. job'.pc = "at" /\ job'.column = column /\ job'.version = version /\ job'.cached = job.cached
    BY <2>7 DEF Shaped
  <2>9. ASSUME job'.params = job.params, disk' = disk PROVE Located'
    <3>1. OnDisk(at.path)' = version
      BY <2>9 DEF OnDisk, version
    <3>2. at.path \in SourceFiles /\ version \in 1 .. MaxVersion
      BY <1>4, <2>4, BoundsAssumption
    <3>3. \E b \in PrefixesOf(Lines(at.path, version)[at.line + 1]) :
             UnitsOf(b) = at.character /\ job'.column = BytesOf(b) + 1
      BY <1>8, <2>3, <2>4, <2>8
    <3> QED BY <2>6, <2>8, <2>9, <3>1, <3>2, <3>3 DEF Located
  <2> QED BY <2>8, <2>9
<1> QED BY <1>9, <1>10

\* Every step of a session leaves the spans so.
LEMMA NextSpan == SessionInv /\ LookupInv /\ CursorInv /\ AnswerInv /\ SpanInv /\ [Next]_vars => SpanInv'
<1> SUFFICES ASSUME SessionInv, LookupInv, CursorInv, AnswerInv, SpanInv, [Next]_vars, job'.method = "highlight"
             PROVE  SpanInv'
  BY DEF SpanInv
<1> DEFINE path == job.params.path
           version == job.version
           Ready == /\ job.pc = "run" /\ job.column # 0 /\ OnDisk(path) = version
                    /\ OwnNames(path) /\ \A c \in ToSet(job.cursors) : Plain(c)
           Well(j) == Spanned(j, version, SymbolsAt(job.cursors))
<1>1. CASE \E m \in Messages : Arrives(m)
  <2>1. job'.column = 0 /\ job'.cached = None /\ job'.pc \in {"calls", "locate"}
    BY <1>1 DEF Arrives
  <2> QED BY <2>1 DEF SpanInv
<1>2. CASE Passes
  <2>1. job' = job /\ UNCHANGED <<overlay, workspace>>
    BY <1>2 DEF Passes
  <2>2. OwnNames(path)' <=> OwnNames(path)
    <3>1. \A p : NamesOf(p)' = NamesOf(p) /\ Uri(p)' = Uri(p)
      BY <2>1, NamesStay
    <3> QED BY <2>1, <3>1 DEF OwnNames
  <2>3. \A c : Plain(c)' <=> Plain(c)
    BY <2>1, QuestionStays
  <2>4. /\ OnDisk(path) \in 0 .. MaxVersion /\ OnDisk(path)' \in 0 .. MaxVersion
        /\ OnDisk(path)' = OnDisk(path)
              \/ (OnDisk(path) # 0 /\ (OnDisk(path)' = 0 \/ OnDisk(path)' > OnDisk(path)))
    <3>1. PICK p : p = path
      OBVIOUS
    <3>2. /\ OnDisk(p) \in 0 .. MaxVersion /\ OnDisk(p)' \in 0 .. MaxVersion
          /\ OnDisk(p)' = OnDisk(p) \/ (OnDisk(p) # 0 /\ (OnDisk(p)' = 0 \/ OnDisk(p)' > OnDisk(p)))
      BY DiskGrows
    <3>3. OnDisk(path)' = OnDisk(p)'
      BY <2>1, <3>1 DEF OnDisk
    <3>4. OnDisk(path) = OnDisk(p)
      BY <3>1
    <3> QED BY <3>2, <3>3, <3>4
  <2>5. MaxVersion \in Nat
    BY BoundsAssumption
  <2>6. job.column # 0 => Located
    BY <2>1 DEF SpanInv
  <2>7. job.column # 0 => Located'
    <3>1. job.params' = job.params /\ job'.version = version /\ job'.column = job.column
      BY <2>1
    <3>2. ASSUME Located PROVE OnDisk(path)' = 0 \/ OnDisk(path)' >= version
      <4>1. version \in Int /\ (OnDisk(path) = 0 \/ OnDisk(path) >= version)
        BY <3>2, BoundsAssumption DEF Located
      <4> DEFINE old == OnDisk(path)
                 now == OnDisk(path)'
      <4>2. old \in 0 .. MaxVersion /\ now \in 0 .. MaxVersion /\ (now = old \/ (old # 0 /\ (now = 0 \/ now > old)))
        BY <2>4
      <4>3. old = 0 \/ old >= version
        BY <4>1
      <4> HIDE DEF old, now
      <4>4. now = 0 \/ now >= version
        <5>1. CASE now = old
          BY <4>3, <5>1
        <5>2. CASE now > old /\ old # 0
          BY <2>5, <4>1, <4>2, <4>3, <5>2
        <5> QED BY <4>2, <5>1, <5>2
      <4> QED BY <4>4 DEF now
    <3>3. OnDisk(job.params.path)' = OnDisk(path)'
      OBVIOUS
    <3> QED BY <2>1, <2>6, <3>2 DEF Located
  <2>8. Ready' => Ready
    <3> SUFFICES ASSUME Ready' PROVE Ready
      OBVIOUS
    <3>1. job.pc = "run" /\ job.column # 0 /\ OnDisk(path)' = version /\ OwnNames(path)
          /\ \A c \in ToSet(job.cursors) : Plain(c)
      BY <2>1, <2>2, <2>3
    <3>2. /\ version \in 1 .. MaxVersion
          /\ OnDisk(path) = 0 \/ OnDisk(path) >= version
      BY <2>6, <3>1 DEF Located
    <3>3. OnDisk(path) = version
      BY <2>4, <2>5, <3>1, <3>2
    <3> QED BY <3>1, <3>3
  <2>9. Well(job)' <=> Well(job)
    BY <2>1 DEF Spanned, Spans, SymbolsAt
  <2>10. Ready => Well(job)
    BY <2>1 DEF SpanInv
  <2>11. job'.pc # "run" => job'.cached = None
    BY <2>1 DEF SpanInv
  <2> QED BY <2>1, <2>7, <2>8, <2>9, <2>10, <2>11 DEF SpanInv
<1>3. CASE Works
  <2>1. Shaped(job) /\ TypeOK /\ UNCHANGED <<overlay, workspace, disk, seen>>
    BY <1>3 DEF SessionInv, JobInv, Works, worldVars
  <2>2. /\ job'.method = job.method /\ job'.params = job.params
        /\ \/ job.pc = "locate" /\ job'.pc \in {"at", "run"} /\ Locate
           \/ job.pc = "at" /\ job'.pc \in {"at", "run"} /\ RecordsAt
           \/ job.pc = "run" /\ job'.pc = "run" /\ (QuerySymbol \/ Fallback \/ QueryFunctions)
           \/ job.pc = "calls" /\ job'.pc = "run" /\ QueryHierarchy
    BY <1>3, <2>1, StatementKeeps
  <2>3. job.method = "highlight" /\ job.method \in Answerable /\ job.method # "none"
    BY <2>2 DEF Answerable
  <2>4. OnDisk(path)' = OnDisk(path)
    BY <2>1, <2>2 DEF OnDisk
  <2>5. job'.column = job.column /\ job'.version = version => (Located' <=> Located)
    BY <2>2, <2>4 DEF Located
  <2>6. CASE Locate
    <3>1. job.pc = "locate"
      BY <2>6 DEF Locate
    <3>2. job.column = 0 /\ job.cached = None
      BY <2>3, <3>1 DEF CursorInv, SpanInv
    <3>3. job.params.line \in Nat /\ job.params.character \in Nat
      BY <2>3 DEF LookupInv
    <3>4. /\ job'.cached = job.cached
          /\ \/ job'.pc = "run" /\ job'.column = 0
             \/ job'.pc = "at" /\ (job'.params = job.params /\ disk' = disk => Located')
      BY <2>1, <2>6, <3>2, <3>3, LocateFinds
    <3> QED BY <2>1, <2>2, <3>2, <3>4 DEF SpanInv
  <2>7. CASE RecordsAt
    <3> DEFINE answer == AtName(job.names[1], job.params.line + 1, job.column, job.method # "prepare")
               rows == answer.rows
               todo == StatementsFor(rows)
    <3>1. /\ job.pc = "at"
          /\ job' = IF rows = <<>> /\ Len(job.names) > 1 THEN [job EXCEPT !.names = Tail(@)]
                    ELSE [job EXCEPT !.pc = "run", !.names = <<>>, !.cursors = rows, !.todo = todo]
      BY <2>7, Zenon DEF RecordsAt
    <3> HIDE DEF answer, rows, todo
    <3>2. job.found = {} /\ job.cached = None
      BY <2>3, <3>1 DEF AnswerInv, SpanInv
    <3>3. /\ job'.column = job.column /\ job'.version = version /\ job'.cached = job.cached /\ job'.found = job.found
      BY <2>1, <3>1 DEF Shaped
    <3>4. Spanned(job, version, SymbolsAt(job.cursors))'
      BY <3>2, <3>3 DEF Spanned
    <3>5. job'.column # 0 => Located'
      BY <2>3, <2>5, <3>3 DEF SpanInv
    <3> QED BY <3>2, <3>3, <3>4, <3>5 DEF SpanInv
  <2>8. CASE job.pc = "run" /\ job'.pc = "run" /\ (QuerySymbol \/ Fallback \/ QueryFunctions)
    <3>1. Answering(job, seen.always, seen.ever)
      BY <2>3, <2>8 DEF AnswerInv
    <3>2. ASSUME job.todo # <<>> PROVE Fits(Head(job.todo), ToSet(job.cursors))
      <4>1. Orderly(job.todo, ToSet(job.cursors))
        BY <3>1 DEF Answering
      <4> QED BY <3>2, <4>1, RestOfPlan
    <3>3. QuerySymbol
      <4>1. ~Fallback
        <5> SUFFICES ASSUME Fallback PROVE FALSE
          OBVIOUS
        <5>1. job.todo # <<>> /\ Head(job.todo).op = "fallback"
          BY DEF Fallback
        <5> QED BY <2>3, <3>2, <5>1 DEF Fits
      <4>2. ~QueryFunctions
        <5> SUFFICES ASSUME QueryFunctions PROVE FALSE
          OBVIOUS
        <5>1. job.todo # <<>> /\ Head(job.todo).op = "functions"
          BY DEF QueryFunctions
        <5> QED BY <2>3, <3>2, <5>1 DEF Fits, Asks
      <4> QED BY <2>8, <4>1, <4>2
    <3>4. job'.column = job.column /\ job'.version = version /\ job'.cursors = job.cursors
      BY <2>1, <3>3, QueryKeeps
    <3>5. job'.column # 0 => Located'
      BY <2>3, <2>5, <3>4 DEF SpanInv
    <3>6. Ready' => Ready
      <4>1. OwnNames(path)' <=> OwnNames(path)
        <5>1. \A p : NamesOf(p)' = NamesOf(p) /\ Uri(p)' = Uri(p)
          BY <2>1, NamesStay
        <5> QED BY <2>2, <5>1 DEF OwnNames
      <4>2. \A c : Plain(c)' <=> Plain(c)
        BY <2>1, <2>2, QuestionStays
      <4> QED BY <2>4, <2>8, <3>4, <4>1, <4>2
    <3>7. ASSUME Ready PROVE Well(job)'
      <4>1. Well(job)
        BY <2>3, <3>7 DEF SpanInv
      <4>2. Spanned(job', version, SymbolsAt(job.cursors))
        BY <2>1, <2>3, <2>8, <3>1, <3>3, <3>7, <4>1, QuerySpanned
      <4> QED BY <2>2, <3>4, <4>2 DEF Spanned, Spans, SymbolsAt
    <3> QED BY <2>8, <3>5, <3>6, <3>7 DEF SpanInv
  <2>9. job.pc # "calls"
    BY <2>3 DEF LookupInv
  <2> QED BY <2>2, <2>6, <2>7, <2>8, <2>9
<1>4. job'.method # "none"
  OBVIOUS
<1> QED BY <1>1, <1>2, <1>3, <1>4, StepsOfSession

\* The name of a record has a length.
LEMMA NamesHaveLength ==
    ASSUME TypeOK, NEW variant \in Nat, NEW r, r \in Records \/ \E path : r \in OverlayRecords(path, variant)
    PROVE  LeafLength(r.symbol) \in Nat
<1>1. CASE r \in Records
  <2>1. PICK f \in Files : edition[f] > 0 /\ r \in Edition(f, edition[f]).records
    BY <1>1 DEF Records, RowsIn
  <2>2. edition[f] \in 1 .. MaxEdition
    BY <2>1, BoundsAssumption DEF TypeOK
  <2> QED BY <2>1, <2>2, TextAssumption
<1>2. CASE \E path : r \in OverlayRecords(path, variant)
  <2>1. PICK path : r \in OverlayRecords(path, variant)
    BY <1>2
  <2>2. PICK e \in Emitted(path, overlay[path]) : r = [e EXCEPT !.variant = variant, !.path = path]
    BY <2>1 DEF OverlayRecords
  <2>3. path \in SourceFiles /\ overlay[path] \in 1 .. MaxVersion
    BY <2>1 DEF OverlayRecords, HasOverlay, TypeOK
  <2>4. e \in RecordsOf(path)
    BY <2>3, RecordsAssumption
  <2>5. r.symbol = e.symbol
    BY <2>2, <2>4 DEF RecordsOf
  <2>6. LeafLength(e.symbol) \in Nat
    BY <2>3, TextAssumption
  <2> QED BY <2>5, <2>6
<1> QED BY <1>1, <1>2

\* A record of the database has a variant.
LEMMA StoredVariant == ASSUME TypeOK, NEW r \in Records PROVE r.variant # 0
<1>1. PICK f \in Files : edition[f] > 0 /\ r \in Edition(f, edition[f]).records
  BY DEF Records, RowsIn
<1>2. edition[f] \in 1 .. MaxEdition
  BY <1>1, BoundsAssumption DEF TypeOK
<1> QED BY <1>1, <1>2, RecordsAssumption

\* A record at the cursor is in the answer: what the overlay has of it, or else what
\* is stored all the time.
LEMMA CursorPlaced ==
    ASSUME TypeOK, LookupInv, AnswerInv, Answered, job.method = "highlight",
           NEW c \in ToSet(job.cursors), c \in CursorRecords, Plain(c), OwnNames(job.params.path),
           c \in OverlayRecords(c.path, configured) \/ (c \in seen.always /\ Above(c, "all") = {})
    PROVE  Place(c) \in Placed(job.found)
<1>1. /\ c \in AnyRecord
      /\ Uri(c.path) = Uri(job.params.path)
  <2>1. Named(c) /\ FileOf(c) = job.params.path
    BY DEF Named, FileOf
  <2> QED BY <2>1, CursorsFile
<1>2. Matches(c, c, "all")
  BY <1>1 DEF Matches, Filtered
<1>3. AnswerComplete
  BY AnswerIsFaithful DEF Answerable
<1>4. Filters = {"all"}
  BY DEF Filters
<1>5. CASE c \in OverlayRecords(c.path, configured)
  <2>1. configured \in Nat
    BY RecordsAssumption DEF TypeOK
  <2>2. c.variant = configured
    BY <1>5, <2>1, OverlaysRecords
  <2>3. c \in Above(c, "all")
    BY <1>2, <1>5, <2>2 DEF Above
  <2> QED BY <1>3, <1>4, <2>3 DEF AnswerComplete
<1>6. CASE c \in seen.always /\ Above(c, "all") = {}
  <2>1. c \in Records
    BY <1>6 DEF LookupInv
  <2>2. c.variant # 0
    BY <2>1, StoredVariant
  <2> QED BY <1>2, <1>3, <1>4, <1>6, <2>2 DEF AnswerComplete, StoredShown
<1> QED BY <1>5, <1>6

\* At the end the highlight at the cursor covers it.
LEMMA RangeCovers ==
    ASSUME SessionInv, NavigationInv, SpanInv
    PROVE  RangeCoversCursor
<1> DEFINE at == job.params
           version == job.version
           lines == Lines(at.path, version)
           symbols == SymbolsAt(job.cursors)
<1> SUFFICES ASSUME Answered, job.method = "highlight", job.column # 0, OnDisk(at.path) = version,
                    OwnNames(at.path), \A c \in ToSet(job.cursors) : Plain(c),
                    NEW c \in ToSet(job.cursors),
                    c \in OverlayRecords(c.path, configured) \/ (c \in seen.always /\ Above(c, "all") = {}),
                    StandsIn(c, lines[c.line]),
                    \A other \in ToSet(job.cursors) : LeafUnits(other.symbol) = LeafUnits(c.symbol)
             PROVE  \E l \in job.found : /\ l.line = at.line + 1
                                         /\ l.span.start <= at.character /\ at.character < l.span.end
  BY DEF RangeCoversCursor
<1>1. /\ TypeOK /\ LookupInv /\ CursorInv /\ AnswerInv
      /\ job.pc = "run" /\ job.method # "none"
  BY DEF SessionInv, NavigationInv, Answered
<1>2. c \in CursorRecords
  <2>1. job.cursors \in Seq(CursorRecords)
    BY <1>1 DEF CursorInv
  <2> QED BY <2>1, OwnElements
<1>3. c \in AnyRecord /\ Covers(c, at.line + 1, job.column)
  BY <1>2 DEF CursorRecords
<1>4. c.column \in Nat /\ c.line = at.line + 1 /\ c.column <= job.column
      /\ job.column - c.column < LeafLength(c.symbol)
  BY <1>3, AnyNumbers DEF Covers
<1>5. LeafLength(c.symbol) \in Nat
  <2>1. configured \in Nat
    BY <1>1, RecordsAssumption DEF TypeOK
  <2>2. c \in Records \/ \E path : c \in OverlayRecords(path, configured)
    BY <1>1 DEF LookupInv
  <2> QED BY <1>1, <2>1, <2>2, NamesHaveLength
<1>6. PICK l \in job.found : Place(l) = Place(c)
  <2>1. Place(c) \in Placed(job.found)
    BY <1>1, <1>2, CursorPlaced
  <2> QED BY <2>1, PlacedIs
<1>7. PICK r : /\ r.symbol \in symbols /\ Place(r) = Place(l)
               /\ l.span = Span(r, [path |-> at.path, version |-> version])
  <2>1. Spanned(job, version, symbols)
    BY <1>1 DEF SpanInv
  <2> QED BY <2>1 DEF Spanned, Spans
<1>8. l.line = c.line /\ r.line = c.line /\ r.column = c.column
  BY <1>6, <1>7 DEF Place
<1>9. LeafUnits(r.symbol) = LeafUnits(c.symbol)
  BY <1>7 DEF SymbolsAt
<1>10. /\ version \in 1 .. MaxVersion /\ at.path \in SourceFiles /\ at.line < Len(lines)
       /\ \E before \in PrefixesOf(lines[at.line + 1]) :
             UnitsOf(before) = at.character /\ job.column = BytesOf(before) + 1
  BY DEF SpanInv, Located
<1>11. PICK before \in PrefixesOf(lines[at.line + 1]) :
          UnitsOf(before) = at.character /\ job.column = BytesOf(before) + 1
  BY <1>10
<1>12. at.line \in Nat /\ version # 0
  BY <1>1, <1>10, BoundsAssumption DEF LookupInv
<1> DEFINE text == lines[at.line + 1]
<1>13. text \in Seq(Chars) /\ at.line + 1 <= Len(lines)
  <2>1. lines \in Seq(Seq(Chars))
    BY <1>10, TextAssumption DEF Chars
  <2> HIDE DEF lines
  <2> QED BY <1>10, <1>12, <2>1
<1> DEFINE start == Utf16Length(text, c.column - 1)
           span == Span(r, [path |-> at.path, version |-> version])
<1>14. span = [start |-> start, end |-> start + LeafUnits(c.symbol)]
  <2> DEFINE from == IF r.line <= Len(lines) THEN Utf16Length(lines[r.line], r.column - 1) ELSE r.column - 1
  <2>1. span = [start |-> from, end |-> from + LeafUnits(r.symbol)]
    <3>1. version # 0
      BY <1>12
    <3> QED BY <3>1, Zenon DEF Span
  <2>2. from = start
    BY <1>4, <1>8, <1>13
  <2> HIDE DEF from, start, span
  <2> QED BY <1>9, <2>1, <2>2
<1>15. start <= UnitsOf(before) /\ UnitsOf(before) < start + LeafUnits(c.symbol)
  <2>1. StandsIn(c, text)
    BY <1>4
  <2> HIDE DEF text
  <2> QED BY <1>4, <1>5, <1>11, <1>13, <2>1, CursorInSpan DEF text
<1>16. l.span.start = start /\ l.span.end = start + LeafUnits(c.symbol)
  <2> HIDE DEF start, span
  <2>1. l.span = span
    BY <1>7 DEF span
  <2> QED BY <1>14, <2>1
<1> HIDE DEF start, span
<1> QED BY <1>4, <1>8, <1>11, <1>15, <1>16

\* The highlight under the cursor covers the position the editor sent, in UTF-16 units,
\* if the record there describes the file on disk and the file does not change while the
\* request runs (LspSourceMapper::byteColumn and range, LspServer::documentHighlight).
THEOREM RangesCoverCursor == Spec => []RangeCoversCursor
<1> DEFINE Inv == NavigationInv /\ SpanInv
<1>1. Init => Inv
  <2> SUFFICES ASSUME Init PROVE Inv
    OBVIOUS
  <2>1. job.method = "none"
    BY DEF Init, Idle
  <2>2. NavigationInv
    BY NavigationStarts
  <2> QED BY <2>1, <2>2 DEF SpanInv
<1>2. SessionInv /\ Inv /\ [Next]_vars => Inv'
  <2>1. SessionInv /\ NavigationInv /\ [Next]_vars => NavigationInv'
    BY NextLookup, NextCursor, NextHierarchy, NextAnswer DEF NavigationInv
  <2>2. SessionInv /\ NavigationInv /\ SpanInv /\ [Next]_vars => SpanInv'
    BY NextSpan DEF NavigationInv
  <2> QED BY <2>1, <2>2
<1>3. SessionInv /\ Inv => RangeCoversCursor
  BY RangeCovers
<1> HIDE DEF Inv
<1> QED BY <1>1, <1>2, <1>3, SessionInvariant, PTL DEF Spec
=============================================================================
