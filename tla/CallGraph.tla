------------------------------ MODULE CallGraph ------------------------------
(***************************************************************************)
(* find_callers and find_callees with a depth (mcp_callgraph_tools.cpp): a *)
(* breadth-first walk of the call records, one statement for each function *)
(* visited, while other processes store between the statements.            *)
(***************************************************************************)
EXTENDS Database

CONSTANTS
    Walks           \* what clients ask for: root, direction, limit, depth, nodeLimit

\* callRecords and the bounds it parses: the root is a function with a name.
ASSUME WalksAssumption ==
    /\ Walks # {}
    /\ \A w \in Walks :
          /\ w.root.symbol # 0 /\ w.direction \in {"callers", "callees"}
          /\ w.limit \in Nat \ {0} /\ w.depth \in Nat \ {0, 1} /\ w.nodeLimit \in Nat \ {0}

VARIABLES
    walk,           \* the arguments
    pending,        \* functions to visit, with their depth and their ancestors
    visited,        \* functions found so far
    edges,          \* the records found so far, with their depth
    flags,          \* whether the node limit was hit and a cycle was seen
    answer,         \* "none", "Success" or "DatabaseError"
    seen            \* call records that were there all the time, and at any time

walkVars == <<walk, pending, visited, edges, flags, answer, seen>>

Calls(ed) == {r \in RowsIn(ed, "records") : IsCall(r)}

WalkInit ==
    /\ walk \in Walks
    /\ pending = <<[identity |-> walk.root, depth |-> 0, ancestors |-> {walk.root}]>>
    /\ visited = {walk.root}
    /\ edges = <<>>
    /\ flags = [nodeLimitHit |-> FALSE, cyclesDetected |-> FALSE]
    /\ answer = "none"
    /\ seen = [always |-> Calls(edition), ever |-> Calls(edition)]

-----------------------------------------------------------------------------
\* Mutant: a record beyond the node limit leaves no trace.
ConsiderSilently(function, record, s) ==
    LET next == Peer(walk.direction, record)
        found == [record |-> record, depth |-> function.depth + 1]
        entry == [identity |-> next, depth |-> function.depth + 1,
                  ancestors |-> function.ancestors \cup {next}]
    IN CASE next \in s.visited ->
                [s EXCEPT !.edges = Append(@, found), !.cycles = @ \/ next \in function.ancestors]
         [] Cardinality(s.visited) >= walk.nodeLimit -> s
         [] OTHER -> [s EXCEPT !.edges = Append(@, found), !.visited = @ \cup {next},
                               !.pending = Append(@, entry)]

\* One record of a visited function, s being the state of the walk.  A record
\* of a function beyond the node limit is left out.
Consider(function, record, s) ==
    LET next == Peer(walk.direction, record)
        found == [record |-> record, depth |-> function.depth + 1]
        entry == [identity |-> next, depth |-> function.depth + 1,
                  ancestors |-> function.ancestors \cup {next}]
        kept == [s EXCEPT !.edges = Append(@, found)]
    IN CASE next \in function.ancestors -> [kept EXCEPT !.cycles = TRUE]
         [] next \notin function.ancestors /\ next \in s.visited -> kept
         [] OTHER ->
                IF Cardinality(s.visited) >= walk.nodeLimit THEN [s EXCEPT !.hit = TRUE]
                ELSE [kept EXCEPT !.visited = @ \cup {next}, !.pending = Append(@, entry)]

\* Mutant: a statement is never stopped.
AllCalls(function) == QueryCalls(edition, function.identity, walk.direction).rows

\* The callback stops the statement when one record more than the limit is there.
NextCalls(function) ==
    Limited(QueryCalls(edition, function.identity, walk.direction).rows,
            walk.limit + 1 - Len(edges))

Going == answer = "none" /\ pending # <<>> /\ Len(edges) <= walk.limit

Visit ==
    /\ Going
    /\ Head(pending).depth < walk.depth
    /\ QueryCalls(edition, Head(pending).identity, walk.direction).ret = "ok"
    /\ LET function == Head(pending)
           Found(s, record) == Consider(function, record, s)
           after == FoldLeft(Found,
                             [pending |-> Tail(pending), visited |-> visited, edges |-> edges,
                              hit |-> flags.nodeLimitHit, cycles |-> flags.cyclesDetected],
                             NextCalls(function))
       IN /\ pending' = after.pending
          /\ visited' = after.visited
          /\ edges' = after.edges
          /\ flags' = [nodeLimitHit |-> after.hit, cyclesDetected |-> after.cycles]
    /\ UNCHANGED <<walk, answer, seen, dbVars>>

\* A call outside of any function has a caller without a name, and the query
\* for the callers of that caller is refused.
VisitFails ==
    /\ Going
    /\ Head(pending).depth < walk.depth
    /\ QueryCalls(edition, Head(pending).identity, walk.direction).ret = "error"
    /\ answer' = "DatabaseError"
    /\ UNCHANGED <<walk, pending, visited, edges, flags, seen, dbVars>>

TooDeep ==
    /\ Going
    /\ Head(pending).depth >= walk.depth
    /\ pending' = Tail(pending)
    /\ UNCHANGED <<walk, visited, edges, flags, answer, seen, dbVars>>

\* graphResult
GraphAnswer ==
    /\ answer = "none"
    /\ pending = <<>> \/ Len(edges) > walk.limit
    /\ answer' = "Success"
    /\ UNCHANGED <<walk, pending, visited, edges, flags, seen, dbVars>>

Reported == {edges[i] : i \in 1 .. Min({walk.limit, Len(edges)})}
Truncated == Len(edges) > walk.limit \/ flags.nodeLimitHit

WalkStore(f, e) ==
    /\ answer = "none"
    /\ StoreFile(f, e)
    /\ LET calls == Calls([edition EXCEPT ![f] = e])
       IN seen' = [always |-> seen.always \cap calls, ever |-> seen.ever \cup calls]
    /\ UNCHANGED <<walk, pending, visited, edges, flags, answer>>

WalkNext ==
    \/ Visit
    \/ VisitFails
    \/ TooDeep
    \/ GraphAnswer
    \/ \E f \in Files, e \in 0 .. MaxEdition : WalkStore(f, e)

-----------------------------------------------------------------------------
(* The calls as a graph.                                                    *)

Successors(calls, functions) ==
    {Peer(walk.direction, r) : r \in {c \in calls : Self(walk.direction, c) \in functions /\
                                                    Self(walk.direction, c).usr # 0}}

\* The functions within each distance of some functions.
Within(calls, functions) ==
    LET near[d \in 0 .. Cardinality(calls) + walk.depth] ==
            IF d = 0 THEN functions
            ELSE LET nearer == near[d - 1] IN nearer \cup Successors(calls, nearer)
    IN near

\* An answer that is not truncated holds every call that was there all the
\* time and is within the depth.
WalkComplete ==
    answer = "Success" /\ ~Truncated =>
        \A r \in seen.always :
            Self(walk.direction, r) \in Within(seen.always, {walk.root})[walk.depth - 1]
                /\ Self(walk.direction, r).usr # 0
            => \E edge \in Reported : edge.record = r

\* No call is reported that was never there, or nearer than it is; a cycle is
\* one of calls that were there, though maybe never all at once.
WalkSound ==
    /\ \A edge \in Reported :
          /\ edge.record \in seen.ever
          /\ edge.depth \in 1 .. walk.depth
          /\ Self(walk.direction, edge.record) \in Within(seen.ever, {walk.root})[edge.depth - 1]
    /\ flags.cyclesDetected =>
          \E r \in seen.ever :
              Self(walk.direction, r) \in
                  Within(seen.ever, {Peer(walk.direction, r)})[Cardinality(seen.ever)]

\* The walk only fails at a caller without a name.
WalkFails ==
    answer = "DatabaseError" =>
        walk.direction = "callers" /\ \E r \in seen.ever : r.context = 0

\* A recursive call query over a database that changes answers what its depth
\* and limits promise (mcp.md: traverse recursively, report whether a limit
\* truncated the graph).
WalkFaithful == WalkComplete /\ WalkSound /\ WalkFails
=============================================================================
