-------------------------- MODULE SchemaInitProofs --------------------------
(***************************************************************************)
(* What SchemaInit guarantees for any number of processes, of any number   *)
(* of releases, over any database that may be at the path, checked by      *)
(* TLAPS.  Any of the processes may die at any step.                       *)
(***************************************************************************)
EXTENDS SchemaInit, TLAPS

USE SchemaAssumption, NullAssumption

-----------------------------------------------------------------------------
(* The inductive invariant.                                                *)

InTransaction == {"locked", "creating", "committing", "refusing"}

\* The write lock is held by the one process inside a transaction.
LockIsTransaction == \A o \in Openers : lock = o <=> pc[o] \in InTransaction

\* What is at the path keeps a process from creating its tables, for ever.
Taken(o) ==
    /\ stored.version # Own(o)
    /\ stored.version = 0 =>
          \/ kind = "symbols" /\ stored # Fresh
          \/ Tables(Own(o)) \cap stored.tables # {}

Draft(o) == [version |-> Own(o), tables |-> stored.tables \cup Tables(Own(o))]

\* A process that commits changes nothing, or a database that nobody has opened.
Committable(o) ==
    \/ draft = stored /\ stored.version = Own(o)
    \/ /\ draft = Draft(o)
       /\ stored.version = 0
       /\ Tables(Own(o)) \cap stored.tables = {}
       /\ kind = "symbols" => stored = Fresh

\* A process that creates its schema has added some of its own tables, and no
\* version yet.
Begun(o) ==
    /\ stored.version # Own(o)
    /\ kind = "symbols" => stored = Fresh
    /\ draft.version = stored.version
    /\ stored.tables \subseteq draft.tables
    /\ Made \subseteq Tables(Own(o))

\* What a process has found out is still true of the database.
Sound(o) ==
    /\ pc[o] = "locked" => draft = stored
    /\ pc[o] = "creating" => Begun(o)
    /\ pc[o] = "committing" => Committable(o)
    /\ pc[o] \in {"refusing", "refused"} => Taken(o)
    /\ pc[o] = "open" => stored.version = Own(o)

\* A schema leaves no other release room for its tables.
StoredIsWhole ==
    stored.version # 0 =>
       /\ Tables(stored.version) \subseteq stored.tables
       /\ \A o \in Openers : Tables(Own(o)) \cap stored.tables # {}

IInv ==
    /\ TypeOK
    /\ LockIsTransaction
    /\ StoredIsWhole
    /\ WholeSchema
    /\ \A o \in Openers : Sound(o)

-----------------------------------------------------------------------------
(* The steps.                                                              *)

\* Databases of a release have the type of a database.
LEMMA DraftType ==
    ASSUME TypeOK, NEW o \in Openers
    PROVE  Draft(o) \in DatabaseStates
<1>1. Own(o) \in Versions
  BY DEF Versions
<1>2. stored.tables \in SUBSET AllTables
  BY DEF TypeOK, DatabaseStates
<1>3. stored.tables \cup Tables(Own(o)) \in SUBSET AllTables
  BY <1>2 DEF AllTables
<1> QED BY <1>1, <1>3 DEF Draft, DatabaseStates

\* A process that looked at nothing yet holds nothing true.
LEMMA InitInv == Init => IInv
<1> SUFFICES ASSUME Init PROVE IInv
  OBVIOUS
<1>1. stored \in DatabaseStates
  <2>1. CASE stored = Fresh
    BY <2>1 DEF Fresh, DatabaseStates, Versions
  <2>2. CASE stored \in Existing
    <3>1. stored = [version |-> stored.version, tables |-> stored.tables]
      BY <2>2, ExistingAssumption
    <3>2. stored.version \in Versions /\ stored.tables \in SUBSET AllTables
      BY <2>2 DEF Versions, AllTables
    <3> QED BY <3>1, <3>2 DEF DatabaseStates
  <2> QED BY <2>1, <2>2 DEF Init
<1>2. TypeOK
  BY <1>1 DEF Init, TypeOK, Phases
<1>3. LockIsTransaction
  BY DEF Init, LockIsTransaction, InTransaction
<1>4. StoredIsWhole
  BY DEF Init, StoredIsWhole, Fresh
<1>5. WholeSchema
  BY DEF Init, WholeSchema, Fresh
<1> QED BY <1>2, <1>3, <1>4, <1>5 DEF Init, IInv, Sound

\* The frame of every step but the commit: the database stays, so what the other
\* processes know stays, and only the one that moved has something to show.
LEMMA QuietStep ==
    ASSUME IInv, NEW o \in Openers, NEW phase \in Phases, Goto(o, phase),
           UNCHANGED <<kind, stored, found>>,
           draft' \in DatabaseStates,
           draft' = draft \/ lock = o \/ lock' = o,
           lock' \in {lock, o, Null},
           lock' = o <=> phase \in InTransaction,
           lock' # lock => lock \in {o, Null},
           Sound(o)'
    PROVE  IInv'
<1>1. TypeOK'
  BY DEF IInv, TypeOK, Goto
<1>2. \A p \in Openers \ {o} : pc'[p] = pc[p]
  BY DEF IInv, TypeOK, Goto
<1>3. pc'[o] = phase
  BY DEF IInv, TypeOK, Goto
<1>4. LockIsTransaction'
  BY <1>2, <1>3 DEF IInv, TypeOK, LockIsTransaction
<1>5. ASSUME NEW p \in Openers \ {o}
      PROVE  Sound(p)'
  <2>1. CASE draft' = draft
    BY <2>1, <1>2 DEF IInv, Sound, Committable, Draft, Taken, Begun, Made
  <2>2. CASE lock = o \/ lock' = o
    <3>1. pc[p] \notin InTransaction
      BY <2>2, <1>2, <1>4 DEF IInv, LockIsTransaction
    <3> QED BY <3>1, <1>2 DEF IInv, Sound, Taken, InTransaction
  <2> QED BY <2>1, <2>2
<1> QED BY <1>1, <1>4, <1>5 DEF IInv, StoredIsWhole, WholeSchema

\* The first look, outside any transaction.
LEMMA LookInv ==
    ASSUME IInv, NEW o \in Openers, Look(o)
    PROVE  IInv'
<1> DEFINE phase == IF stored.version = Own(o) THEN "open"
                    ELSE IF kind = "commands" /\ stored.version # 0 THEN "refused"
                    ELSE "waiting"
<1>1. phase \in Phases \ InTransaction /\ Goto(o, phase)
  BY DEF Look, Phases, InTransaction
<1>2. lock # o
  BY DEF IInv, LockIsTransaction, Look, InTransaction
<1>3. pc'[o] = phase
  BY <1>1 DEF Goto, IInv, TypeOK
<1>4. Sound(o)'
  BY <1>3 DEF Sound, Taken, Look
<1> HIDE DEF phase
<1> QED BY <1>1, <1>2, <1>4, QuietStep DEF Look, IInv, TypeOK

\* BEGIN IMMEDIATE: nobody else is in a transaction.
LEMMA BeginInv ==
    ASSUME IInv, NEW o \in Openers, Begin(o)
    PROVE  IInv'
<1>1. Goto(o, "locked") /\ "locked" \in Phases \cap InTransaction
  BY DEF Begin, Phases, InTransaction
<1>2. pc'[o] = "locked"
  BY <1>1 DEF Goto, IInv, TypeOK
<1>3. Sound(o)'
  BY <1>2 DEF Sound, Begin
<1> QED BY <1>1, <1>3, QuietStep DEF Begin, IInv, TypeOK

\* The second look decides with the lock held, so what it finds stays true.
LEMMA LookAgainInv ==
    ASSUME IInv, NEW o \in Openers, LookAgain(o)
    PROVE  IInv'
<1> DEFINE phase == IF draft.version = Own(o) THEN "committing"
                    ELSE IF kind = "symbols" /\ draft # Fresh THEN "refusing"
                    ELSE "creating"
<1>1. phase \in Phases \cap InTransaction /\ Goto(o, phase)
  BY DEF LookAgain, Phases, InTransaction
<1>2. lock = o /\ draft = stored
  BY DEF IInv, LockIsTransaction, LookAgain, InTransaction, Sound
<1>3. pc'[o] = phase
  BY <1>1 DEF Goto, IInv, TypeOK
<1>4. Sound(o)'
  BY <1>2, <1>3 DEF Sound, Taken, Committable, Begun, Made, LookAgain, IInv, TypeOK, Kinds
<1> HIDE DEF phase
<1> QED BY <1>1, <1>2, <1>4, QuietStep DEF LookAgain, IInv, TypeOK

\* The statements succeed only over a database without a schema.
LEMMA CreateInv ==
    ASSUME IInv, NEW o \in Openers, Create(o)
    PROVE  IInv'
<1>1. lock = o /\ pc[o] = "creating" /\ Begun(o) /\ UNCHANGED <<kind, stored, lock, found>>
  BY DEF IInv, LockIsTransaction, Create, InTransaction, Sound
<1>2. Own(o) \in Versions /\ Tables(Own(o)) \subseteq AllTables
  BY DEF Versions, AllTables
<1>3. /\ draft \in DatabaseStates
      /\ draft = [version |-> draft.version, tables |-> draft.tables]
  BY DEF IInv, TypeOK, DatabaseStates
<1>4. CASE /\ Tables(Own(o)) \subseteq Made
           /\ draft' = [draft EXCEPT !.version = Own(o)]
           /\ Goto(o, "committing")
  <2>1. draft' = [version |-> Own(o), tables |-> draft.tables]
    BY <1>3, <1>4
  <2>2. Tables(Own(o)) \cap stored.tables = {} /\ draft.tables = stored.tables \cup Tables(Own(o))
    BY <1>1, <1>4 DEF Begun, Made
  <2>3. draft' = Draft(o)
    BY <2>1, <2>2 DEF Draft
  <2>4. pc'[o] = "committing"
    BY <1>4 DEF Goto, IInv, TypeOK
  <2>5. stored.version = 0
    BY <2>2 DEF IInv, StoredIsWhole
  <2>6. Committable(o)'
    BY <1>1, <2>2, <2>3, <2>5 DEF Committable, Draft, Begun
  <2>7. Sound(o)'
    BY <2>4, <2>6 DEF Sound
  <2>8. draft' \in DatabaseStates
    BY <2>3, DraftType DEF IInv
  <2> QED BY <1>1, <1>4, <2>7, <2>8, QuietStep DEF Phases, InTransaction
<1>5. ASSUME NEW t \in Tables(Own(o)) \ Made,
             t \in draft.tables, Goto(o, "refusing"), UNCHANGED draft
      PROVE  IInv'
  <2>1. t \in stored.tables
    BY <1>5 DEF Made
  <2>2. pc'[o] = "refusing"
    BY <1>5 DEF Goto, IInv, TypeOK
  <2>3. Taken(o)'
    BY <1>1, <2>1 DEF Taken, Begun
  <2>4. Sound(o)'
    BY <2>2, <2>3 DEF Sound
  <2> QED BY <1>1, <1>5, <2>4, QuietStep DEF IInv, TypeOK, Phases, InTransaction
<1>6. ASSUME NEW t \in Tables(Own(o)) \ Made,
             draft' = [draft EXCEPT !.tables = @ \cup {t}], UNCHANGED pc
      PROVE  IInv'
  <2>1. draft' = [version |-> draft.version, tables |-> draft.tables \cup {t}]
    BY <1>3, <1>6
  <2>2. draft' \in DatabaseStates
    BY <1>2, <1>3, <2>1 DEF DatabaseStates
  <2>3. Begun(o)'
    BY <1>1, <2>1 DEF Begun, Made
  <2>4. pc'[o] = "creating"
    BY <1>1, <1>6
  <2>5. Goto(o, "creating")
    BY <1>1, <1>6 DEF Goto, IInv, TypeOK
  <2>6. Sound(o)'
    BY <2>3, <2>4 DEF Sound
  <2> QED BY <1>1, <2>2, <2>5, <2>6, QuietStep DEF Phases, InTransaction
<1> QED BY <1>4, <1>5, <1>6 DEF Create

\* A commit makes the database one of the own release.
LEMMA CommitWrites ==
    ASSUME IInv, NEW o \in Openers, Commit(o)
    PROVE  /\ Committable(o) /\ stored' = draft
           /\ \/ stored' = stored
              \/ /\ stored' = Draft(o)
                 /\ stored.version = 0
                 /\ Tables(Own(o)) \cap stored.tables = {}
                 /\ kind = "symbols" => stored = Fresh
  BY DEF IInv, Sound, Commit, Committable

\* Nobody has the database open when a schema is committed, and whoever was
\* refused is of another release.
LEMMA CommitInv ==
    ASSUME IInv, NEW o \in Openers, Commit(o)
    PROVE  IInv'
<1>1. TypeOK'
  BY DEF IInv, TypeOK, Commit, Goto, Phases
<1>2. lock = o /\ lock' = Null /\ pc'[o] = "open"
  BY DEF IInv, TypeOK, LockIsTransaction, Commit, Goto, InTransaction
<1>3. \A p \in Openers \ {o} : pc'[p] = pc[p] /\ pc[p] \notin InTransaction
  BY <1>2 DEF IInv, TypeOK, LockIsTransaction, Commit, Goto
<1>4. LockIsTransaction'
  BY <1>2, <1>3 DEF LockIsTransaction, InTransaction
<1>5. kind' = kind /\ found' = found
  BY DEF Commit
<1>6. CASE stored' = stored
  <2>1. stored.version = Own(o)
    BY <1>6, CommitWrites DEF Committable, Draft
  <2>2. \A p \in Openers : Sound(p)'
    BY <1>2, <1>3, <1>5, <1>6, <2>1 DEF IInv, Sound, Taken, InTransaction
  <2> QED BY <1>1, <1>4, <1>5, <1>6, <2>2 DEF IInv, StoredIsWhole, WholeSchema
<1>7. CASE /\ stored' = Draft(o)
           /\ stored.version = 0
           /\ Tables(Own(o)) \cap stored.tables = {}
           /\ kind = "symbols" => stored = Fresh
  <2>1. stored'.version = Own(o) /\ stored'.tables = stored.tables \cup Tables(Own(o))
    BY <1>7 DEF Draft
  <2>2. StoredIsWhole'
    BY <2>1 DEF StoredIsWhole
  <2>3. ASSUME NEW p \in Openers \ {o}
        PROVE  Sound(p)'
    <3>1. pc[p] # "open"
      BY <1>7 DEF IInv, Sound
    <3>2. pc[p] = "refused" => Own(p) # Own(o)
      BY <1>7 DEF IInv, Sound, Taken
    <3>3. pc[p] = "refused" => Taken(p)'
      BY <2>1, <3>2 DEF Taken
    <3> QED BY <1>3, <3>1, <3>3 DEF Sound, InTransaction
  <2>4. Sound(o)'
    BY <1>2, <2>1 DEF Sound
  <2>5. stored.tables = found.tables
    BY <1>7 DEF IInv, WholeSchema
  <2>6. Own(o) # 0
    OBVIOUS
  <2>7. WholeSchema'
    BY <1>5, <2>1, <2>5, <2>6 DEF WholeSchema
  <2> QED BY <1>1, <1>4, <2>2, <2>3, <2>4, <2>7 DEF IInv
<1> QED BY <1>6, <1>7, CommitWrites

\* ROLLBACK, or the death of the process, which SQLite rolls back.
LEMMA EndInv ==
    ASSUME IInv, NEW o \in Openers, Rollback(o) \/ Die(o)
    PROVE  IInv'
<1>1. CASE Rollback(o)
  <2>1. Goto(o, "refused") /\ lock = o
    BY <1>1 DEF Rollback, IInv, LockIsTransaction, InTransaction
  <2>2. pc'[o] = "refused"
    BY <2>1 DEF Goto, IInv, TypeOK
  <2>3. Sound(o)'
    BY <1>1, <2>2 DEF Sound, Taken, Rollback, IInv
  <2> QED BY <1>1, <2>1, <2>3, QuietStep DEF Rollback, IInv, TypeOK, Phases, InTransaction
<1>2. CASE Die(o)
  <2>1. Goto(o, "dead") /\ lock' = IF lock = o THEN Null ELSE lock
    BY <1>2 DEF Die
  <2>2. pc'[o] = "dead"
    BY <2>1 DEF Goto, IInv, TypeOK
  <2>3. Sound(o)'
    BY <2>2 DEF Sound
  <2> QED BY <1>2, <2>1, <2>3, QuietStep DEF Die, IInv, TypeOK, Phases, InTransaction
<1> QED BY <1>1, <1>2

\* Every step keeps the invariant.
LEMMA NextInv == IInv /\ [Next]_vars => IInv'
<1> SUFFICES ASSUME IInv, [Next]_vars PROVE IInv'
  OBVIOUS
<1>1. CASE UNCHANGED vars
  BY <1>1 DEF vars, IInv, TypeOK, LockIsTransaction, StoredIsWhole, WholeSchema, Sound, Taken,
              Committable, Draft, Begun, Made
<1>2. ASSUME NEW o \in Openers, Step(o) \/ Die(o)
      PROVE  IInv'
  BY <1>2, LookInv, BeginInv, LookAgainInv, CreateInv, CommitInv, EndInv DEF Step
<1> QED BY <1>1, <1>2 DEF Next

\* The invariant holds of every reachable state.
LEMMA Invariant == Spec => []IInv
  BY InitInv, NextInv, PTL DEF Spec

-----------------------------------------------------------------------------
(* The results.                                                            *)

\* Every variable of init_schema's protocol keeps its type.
THEOREM TypeCorrect == Spec => []TypeOK
  BY Invariant, PTL DEF IInv

\* A process that has opened the database keeps its schema, and processes of one
\* release never turn each other away, whoever of them dies.
THEOREM OpenersKeepTheirSchema == Spec => []OpenMeansOwnSchema
<1>1. IInv => OpenMeansOwnSchema
  <2> SUFFICES ASSUME IInv, NEW o \in Openers
               PROVE  /\ pc[o] = "open" =>
                            stored.version = Own(o) /\ Tables(Own(o)) \subseteq stored.tables
                      /\ pc[o] = "refused" => stored.version # Own(o)
    BY DEF OpenMeansOwnSchema
  <2>1. Sound(o)
    BY DEF IInv
  <2>2. pc[o] = "open" => Tables(Own(o)) \subseteq stored.tables
    BY <2>1 DEF Sound, IInv, StoredIsWhole
  <2> QED BY <2>1, <2>2 DEF Sound, Taken
<1> QED BY <1>1, Invariant, PTL

\* The schema is created whole or not at all: whichever process dies between which
\* two statements, a database without a version is what was found, and one with a
\* version has what was found and every table of that release (init_schema).
THEOREM SchemaIsWhole == Spec => []WholeSchema
<1>1. IInv => WholeSchema
  BY DEF IInv
<1> QED BY <1>1, Invariant, PTL

\* Nothing that carries a schema is ever changed.
THEOREM SchemasAreKept == Spec => OnlyFreshIsWritten
<1> DEFINE FreshOnly ==
        /\ stored.version = 0
        /\ Tables(stored'.version) \cap stored.tables = {}
        /\ kind = "symbols" => stored = Fresh
<1>1. IInv /\ [Next]_vars => [FreshOnly]_stored
  <2> SUFFICES ASSUME IInv, [Next]_vars, stored' # stored PROVE FreshOnly
    OBVIOUS
  <2>1. PICK o \in Openers : Commit(o)
    BY DEF vars, Next, Step, Die, Look, Begin, LookAgain, Create, Rollback
  <2> QED BY <2>1, CommitWrites DEF Draft
<1> QED BY <1>1, Invariant, PTL DEF Spec, OnlyFreshIsWritten
=============================================================================
