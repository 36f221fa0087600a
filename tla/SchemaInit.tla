----------------------------- MODULE SchemaInit -----------------------------
(***************************************************************************)
(* Opening a database for writing: open_writer and init_schema of the      *)
(* symbol database (lib/semindex_index_db/index_db_writer.c) and of the    *)
(* command database (lib/semindex_command_db/command_db_writer.c).         *)
(*                                                                         *)
(* Any number of processes open the same path at once.  Each looks at      *)
(* PRAGMA user_version, and when the schema is not its own takes the write *)
(* lock, looks again and creates the tables.  Processes of another release *)
(* run the same protocol for another schema version.                       *)
(*                                                                         *)
(* SQLite is external: what a transaction writes (draft) replaces the      *)
(* committed database (stored) at COMMIT and vanishes with ROLLBACK or     *)
(* with the process.                                                       *)
(***************************************************************************)
EXTENDS Naturals, FiniteSets

CONSTANTS
    Openers,        \* processes that open the database
    Own(_),         \* the schema version a process was built for
    Tables(_),      \* the tables of a schema version
    Existing,       \* databases that may be at the path: [version, tables]
    Null            \* nobody

Kinds == {"symbols", "commands"}

Fresh == [version |-> 0, tables |-> {}]

\* A database that carries a version was made by that release, and every
\* release of the command database has a commands table (so do two releases
\* of the symbol database share one: files).
ASSUME SchemaAssumption ==
    /\ \A o \in Openers : Own(o) \in Nat \ {0}
    /\ \A o, p \in Openers : Tables(Own(o)) \cap Tables(Own(p)) # {}
    /\ \A d \in Existing : d.version # 0 =>
          Tables(d.version) \subseteq d.tables
            /\ \A o \in Openers : Tables(Own(o)) \cap d.tables # {}

ASSUME ExistingAssumption ==
    \A d \in Existing : d = [version |-> d.version, tables |-> d.tables]

ASSUME NullAssumption == Null \notin Openers

VARIABLES
    kind,       \* which of the two databases this is; never changes
    stored,     \* the committed database
    draft,      \* what the transaction under way has made of it
    lock,       \* the process inside BEGIN IMMEDIATE, or Null
    pc,         \* where each process is
    found       \* auxiliary: what was at the path before anybody opened it

vars == <<kind, stored, draft, lock, pc, found>>

Phases ==
    {"start", "waiting", "locked", "creating", "committing", "refusing", "open", "refused", "dead"}

Ended == {"open", "refused", "dead"}

AllTables == (UNION {Tables(Own(o)) : o \in Openers}) \cup (UNION {d.tables : d \in Existing})

Versions == {0} \cup {Own(o) : o \in Openers} \cup {d.version : d \in Existing}

DatabaseStates == [version : Versions, tables : SUBSET AllTables]

TypeOK ==
    /\ kind \in Kinds
    /\ stored \in DatabaseStates
    /\ draft \in DatabaseStates
    /\ lock \in Openers \cup {Null}
    /\ pc \in [Openers -> Phases]
    /\ found \in DatabaseStates

Init ==
    /\ kind \in Kinds
    /\ stored \in Existing \cup {Fresh}
    /\ draft = stored
    /\ lock = Null
    /\ pc = [o \in Openers |-> "start"]
    /\ found = stored

Goto(o, phase) == pc' = [pc EXCEPT ![o] = phase]

\* The first look, outside any transaction.  Only the command database
\* refuses another release's version here.
Look(o) ==
    /\ pc[o] = "start"
    /\ Goto(o, IF stored.version = Own(o) THEN "open"
               ELSE IF kind = "commands" /\ stored.version # 0 THEN "refused"
               ELSE "waiting")
    /\ UNCHANGED <<kind, stored, draft, lock, found>>

\* BEGIN IMMEDIATE, retried while the database is busy.
Begin(o) ==
    /\ pc[o] = "waiting"
    /\ lock = Null
    /\ lock' = o
    /\ draft' = stored
    /\ Goto(o, "locked")
    /\ UNCHANGED <<kind, stored, found>>

\* Mutant: the version is not looked up again.
LookAgainNever(o) ==
    /\ pc[o] = "locked"
    /\ Goto(o, "creating")
    /\ UNCHANGED <<kind, stored, draft, lock, found>>

\* The second look, under the lock.  Only the symbol database refuses another
\* version and foreign tables here.
LookAgain(o) ==
    /\ pc[o] = "locked"
    /\ Goto(o, IF draft.version = Own(o) THEN "committing"
               ELSE IF kind = "symbols" /\ draft # Fresh THEN "refusing"
               ELSE "creating")
    /\ UNCHANGED <<kind, stored, draft, lock, found>>

\* Mutant: the statements outside a transaction, where each one commits.
CreateAutocommit(o) ==
    /\ pc[o] = "creating"
    /\ \/ /\ Tables(Own(o)) \subseteq draft.tables
          /\ draft' = [draft EXCEPT !.version = Own(o)]
          /\ Goto(o, "committing")
       \/ \E t \in Tables(Own(o)) \ draft.tables :
             /\ draft' = [draft EXCEPT !.tables = @ \cup {t}]
             /\ UNCHANGED pc
    /\ stored' = draft'
    /\ UNCHANGED <<kind, lock, found>>

\* Mutant: CREATE TABLE IF NOT EXISTS.
CreateIfNotExists(o) ==
    /\ pc[o] = "creating"
    /\ draft' = [version |-> Own(o), tables |-> draft.tables \cup Tables(Own(o))]
    /\ Goto(o, "committing")
    /\ UNCHANGED <<kind, stored, lock, found>>

\* What the transaction under way has created so far.
Made == draft.tables \ stored.tables

\* The statements of the schema one by one, in any order but user_version
\* last.  CREATE TABLE fails when the table is there already.
Create(o) ==
    /\ pc[o] = "creating"
    /\ \/ /\ Tables(Own(o)) \subseteq Made
          /\ draft' = [draft EXCEPT !.version = Own(o)]
          /\ Goto(o, "committing")
       \/ \E t \in Tables(Own(o)) \ Made :
             IF t \in draft.tables
             THEN Goto(o, "refusing") /\ UNCHANGED draft
             ELSE draft' = [draft EXCEPT !.tables = @ \cup {t}] /\ UNCHANGED pc
    /\ UNCHANGED <<kind, stored, lock, found>>

Commit(o) ==
    /\ pc[o] = "committing"
    /\ stored' = draft
    /\ lock' = Null
    /\ Goto(o, "open")
    /\ UNCHANGED <<kind, draft, found>>

\* Mutant: returns -1 without ROLLBACK and keeps the connection open.
RollbackNever(o) ==
    /\ pc[o] = "refusing"
    /\ Goto(o, "refused")
    /\ UNCHANGED <<kind, stored, draft, lock, found>>

Rollback(o) ==
    /\ pc[o] = "refusing"
    /\ lock' = Null
    /\ Goto(o, "refused")
    /\ UNCHANGED <<kind, stored, draft, found>>

\* A process dies, or an SQL error makes it give up; SQLite rolls back.
Die(o) ==
    /\ pc[o] \notin Ended
    /\ lock' = IF lock = o THEN Null ELSE lock
    /\ Goto(o, "dead")
    /\ UNCHANGED <<kind, stored, draft, found>>

Step(o) == Look(o) \/ Begin(o) \/ LookAgain(o) \/ Create(o) \/ Commit(o) \/ Rollback(o)

Next == \E o \in Openers : Step(o) \/ Die(o)

Spec == Init /\ [][Next]_vars

\* A running process runs on.  exec_sql repeats BEGIN IMMEDIATE for as long as
\* the database is busy; every process takes the lock once, so nobody starves.
FairSpec == Spec /\ \A o \in Openers : WF_vars(Step(o))

----------------------------------------------------------------------------
(* Properties                                                              *)

\* A process that has opened the database keeps the schema it was built for,
\* whoever opens the database later; and processes of one release never turn
\* each other away: whoever is refused found another schema, and that one stays.
OpenMeansOwnSchema ==
    \A o \in Openers :
        /\ pc[o] = "open" => stored.version = Own(o) /\ Tables(Own(o)) \subseteq stored.tables
        /\ pc[o] = "refused" => stored.version # Own(o)

\* Nothing that carries a schema is ever changed: neither another release's
\* ("database schema version %d is incompatible; remove the old index") nor,
\* for the symbol database, a database with foreign tables.
OnlyFreshIsWritten ==
    [][/\ stored.version = 0
       /\ Tables(stored'.version) \cap stored.tables = {}
       /\ kind = "symbols" => stored = Fresh]_stored

\* The committed schema is all or nothing, also when its creator died halfway: a
\* database without a version is what was found at the path, with no table added,
\* and one with a version has what was found and every table of that release.
WholeSchema ==
    IF stored.version = 0
    THEN stored = found
    ELSE stored.tables = found.tables \cup Tables(stored.version)

\* Two processes never wait for each other: each one opens the database, is
\* refused, or dies.
OpenersEnd == \A o \in Openers : pc[o] = "start" ~> pc[o] \in Ended
=============================================================================
