---------------------------- MODULE MCSchemaInit ----------------------------
(***************************************************************************)
(* Three processes of one release and one of another, over a fresh path,   *)
(* an index of either release, and a database that is not an index.        *)
(***************************************************************************)
EXTENDS SchemaInit, TLC

MCOwn(o) == IF o = "other" THEN 2 ELSE 1
MCTables(v) == IF v = 0 THEN {} ELSE {"files", IF v = 1 THEN "records" ELSE "rows"}
MCExisting ==
    {[version |-> v, tables |-> MCTables(v)] : v \in {1, 2}}
        \cup {[version |-> 0, tables |-> {"notes"}], [version |-> 0, tables |-> {"files"}]}
=============================================================================
